---------------------------- MODULE Permissions -----------------------------
(***************************************************************************)
(* Who may do what in a workspace: WORKSPACE_PERMISSION_MATRIX and the     *)
(* roles each role may hand out                                            *)
(* (src/core/types/workspace-permissions.ts), and the role a service finds *)
(* for a caller (src/core/authz/workspace-access.ts).  Permissions only    *)
(* read-only routes ask for are kept: they are what a role is made of.     *)
(***************************************************************************)
EXTENDS FiniteSets

Collaboration ==
  {"VIEW_WORKSPACE", "VIEW_MEMBERS", "USE_PROJECTS", "USE_TASKS", "USE_TIME_TRACKING", "VIEW_WALLETS"}

ProjectDelivery ==
  {"MANAGE_PROJECTS", "MANAGE_TASKS", "ASSIGN_TASKS", "APPROVE_TASK_WORK", "APPROVE_EXPENSE_CLAIM",
   "VIEW_WORKER_MONITORING", "LOG_TIME_ON_BEHALF", "EDIT_OTHERS_TIME"}

PeopleOperations ==
  {"MANAGE_ATTENDANCE", "VIEW_ALL_ATTENDANCE", "APPROVE_LEAVE", "APPROVE_OVERTIME", "APPROVE_WORK_REPORT",
   "FORCE_CLOSE_SESSION", "VIEW_WORKER_MONITORING", "LOG_TIME_ON_BEHALF", "EDIT_OTHERS_TIME"}

Accounting ==
  {"VIEW_WALLET_BALANCES", "MANAGE_WALLETS", "VIEW_CHART_OF_ACCOUNTS", "VIEW_LEDGER",
   "VIEW_FINANCIAL_REPORTS", "VIEW_INVENTORY", "MANAGE_INVENTORY", "VIEW_INVOICING", "MANAGE_INVOICING",
   "VIEW_CATALOG", "MANAGE_CATALOG", "MANAGE_REFERENCE_DATA", "CREATE_CASHBOOK", "POST_MANUAL_JOURNAL"}

TicketingAdmin ==
  {"VIEW_TICKETING", "SELL_TICKETS", "VOID_TICKET_SALE", "MANAGE_TICKETING", "RECONCILE_TICKET_SHIFT",
   "MANAGE_MEMBERSHIPS", "VIEW_TICKET_ANALYTICS"}

(* What belongs to no bundle.                                              *)
Single ==
  {"UPDATE_WORKSPACE", "DELETE_WORKSPACE", "MANAGE_MEMBERS", "MANAGE_SUB_ACCOUNTANTS", "IMPORT_MEMBERS",
   "ACCESS_ALL_CASHBOOKS", "MANAGE_CHART_OF_ACCOUNTS", "CLOSE_PERIOD", "VIEW_AUDIT_LOG",
   "WAIVE_ATTENDANCE_FLAG", "MANAGE_API_KEYS", "VIEW_INTEGRATION_DOCS"}

WorkspacePermissions ==
  Collaboration \union ProjectDelivery \union PeopleOperations \union Accounting
    \union TicketingAdmin \union Single

WorkspaceRoles ==
  {"OWNER", "ADMIN", "GENERAL_MANAGER", "PROJECT_MANAGER", "HR", "ACCOUNTANT", "SUB_ACCOUNTANT",
   "MEMBER", "DEVELOPER"}

(* WORKSPACE_PERMISSION_MATRIX.                                            *)
PermissionMatrix ==
  [OWNER           |-> WorkspacePermissions,
   ADMIN           |-> Collaboration \union Accounting \union ProjectDelivery \union PeopleOperations
                         \union TicketingAdmin
                         \union {"UPDATE_WORKSPACE", "MANAGE_MEMBERS", "MANAGE_SUB_ACCOUNTANTS",
                                 "ACCESS_ALL_CASHBOOKS", "MANAGE_CHART_OF_ACCOUNTS", "CLOSE_PERIOD",
                                 "VIEW_AUDIT_LOG", "WAIVE_ATTENDANCE_FLAG"},
   GENERAL_MANAGER |-> Collaboration \union (Accounting \ {"POST_MANUAL_JOURNAL"})
                         \union ProjectDelivery \union PeopleOperations \union TicketingAdmin
                         \union {"MANAGE_MEMBERS", "ACCESS_ALL_CASHBOOKS", "VIEW_AUDIT_LOG",
                                 "WAIVE_ATTENDANCE_FLAG"},
   PROJECT_MANAGER |-> Collaboration \union ProjectDelivery,
   HR              |-> Collaboration \union PeopleOperations \union {"MANAGE_MEMBERS"},
   ACCOUNTANT      |-> Collaboration \union Accounting
                         \union {"ACCESS_ALL_CASHBOOKS", "MANAGE_CHART_OF_ACCOUNTS", "CLOSE_PERIOD",
                                 "VIEW_AUDIT_LOG", "MANAGE_SUB_ACCOUNTANTS", "VIEW_TICKETING",
                                 "VIEW_TICKET_ANALYTICS"},
   SUB_ACCOUNTANT  |-> Collaboration \union Accounting \union {"VIEW_TICKETING", "VIEW_TICKET_ANALYTICS"},
   MEMBER          |-> Collaboration,
   DEVELOPER       |-> Collaboration \union {"MANAGE_API_KEYS", "VIEW_INTEGRATION_DOCS"}]

(* hasWorkspacePermission; somebody with no role holds nothing.            *)
HasPermission(role, permission) ==
  role \in WorkspaceRoles /\ permission \in PermissionMatrix[role]

(* assignableRoles.                                                        *)
AssignableRoles(actor) ==
  CASE actor = "OWNER"           -> WorkspaceRoles \ {"OWNER"}
    [] actor = "ADMIN"           -> WorkspaceRoles \ {"OWNER", "ADMIN"}
    [] actor = "GENERAL_MANAGER" -> {"PROJECT_MANAGER", "HR", "MEMBER", "DEVELOPER"}
    [] actor = "ACCOUNTANT"      -> {"SUB_ACCOUNTANT", "MEMBER"}
    [] actor = "HR"              -> {"MEMBER"}
    [] OTHER                     -> {}
=============================================================================
