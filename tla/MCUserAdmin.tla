---------------------------- MODULE MCUserAdmin ----------------------------
(***************************************************************************)
(* UserAdmin with two administrators who may create the same account and   *)
(* patch each other, themselves and the accounts they create.              *)
(***************************************************************************)
EXTENDS UserAdmin, TLC

CONSTANTS c1, c2, u1, u2, u3, u4

MCSession == (c1 :> u1) @@ (c2 :> u2)

Admin(name) == [username |-> name, role |-> "admin", is_active |-> TRUE]
MCInitialUsers == (u1 :> Admin("kim")) @@ (u2 :> Admin("lee"))
                  @@ (u3 :> Absent) @@ (u4 :> Absent)

Create(name, role) == [kind |-> "create", username |-> name, role |-> role]
Patch(u, role, active) == [kind |-> "update", uid |-> u, role |-> role, is_active |-> active]

MCRequests ==
    { Create("park", "developer"), Create("park", "admin"), Create("lee", "admin"),
      Create("choi", "operator"),
      Patch(u1, "developer", None), Patch(u1, None, "no"), Patch(u1, None, "yes"),
      Patch(u2, "accountant", "no"), Patch(u3, "admin", "yes"), Patch(u2, "operator", None),
      Patch(u3, None, None) }
=============================================================================
