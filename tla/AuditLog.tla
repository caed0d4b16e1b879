------------------------------ MODULE AuditLog ------------------------------
(***************************************************************************)
(* AuditLogService.  log() issues an INSERT that nobody awaits and whose   *)
(* failure is swallowed, so an entry lands later, in any order with the    *)
(* handler's own statements, or never.                                     *)
(*                                                                         *)
(* An entry keeps its action and one subject (the account, address or      *)
(* token family it is about).  Audited bounds the model: the actions whose *)
(* entries it keeps.  No handler reads the table, so leaving an action out *)
(* of Audited changes no other component.                                  *)
(***************************************************************************)

CONSTANT Audited

VARIABLES auditPending,  \* INSERTs in flight in the process
          auditLog       \* the audit_logs table

auditVars == <<auditPending, auditLog>>

AuditAction == {"login_success", "login_failed", "signup", "logout",
                "user_role_changed", "user_deleted", "article_deleted",
                "refresh_token_reuse_detected", "audit_log_viewed",
                "user_approved", "user_auto_deleted"}

ASSUME AuditedActions == Audited \subseteq AuditAction

AuditInit ==
  /\ auditPending = {}
  /\ auditLog = {}

\* log(): starts the INSERT and returns.
Log(action, subject) ==
  /\ auditPending' = IF action \in Audited
                     THEN auditPending \cup {<<action, subject>>} ELSE auditPending
  /\ UNCHANGED auditLog

\* The INSERT commits.
AuditInsert(entry) ==
  /\ entry \in auditPending
  /\ auditLog' = auditLog \cup {entry}
  /\ auditPending' = auditPending \ {entry}

\* The INSERT fails: .catch(() => undefined).
AuditFail(entry) ==
  /\ entry \in auditPending
  /\ auditPending' = auditPending \ {entry}
  /\ UNCHANGED auditLog

Logged(action, subject) == <<action, subject>> \in auditPending \cup auditLog

=============================================================================
