------------------------------- MODULE Roles -------------------------------
(***************************************************************************)
(* core/permissions.py: what each role of a console user may do.           *)
(*                                                                         *)
(* developer, accountant and admin stand for the roles 개발자, 회계 and    *)
(* 관리자 of the code.  A role that is not in the table has no permission. *)
(***************************************************************************)

ROLE_PERMISSIONS(role) ==
    CASE role = "developer"  -> {"logs:read", "monitoring:read", "ocr:test"}
      [] role = "accountant" -> {"usage:read", "usage:export", "billing:read"}
      [] role = "admin"      -> {"*"}
      [] OTHER               -> {}

ValidRoles == {"developer", "accountant", "admin"}

has_permission(role, perm) ==
    "*" \in ROLE_PERMISSIONS(role) \/ perm \in ROLE_PERMISSIONS(role)
=============================================================================
