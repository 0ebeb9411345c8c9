--------------------------- MODULE GrantStatuses ---------------------------
(***************************************************************************)
(* The statuses of an access grant and the transitions between them that   *)
(* the backend allows (access_grants.py).                                  *)
(***************************************************************************)

Statuses == {"active", "pending_review", "suspended", "revoked", "expired"}
Actions  == {"suspend", "revoke", "reactivate", "expire"}

Target == [ suspend |-> "suspended", revoke |-> "revoked",
            reactivate |-> "active", expire |-> "expired" ]

AllowedFrom ==
    [ suspend    |-> {"active"},
      revoke     |-> {"active", "pending_review", "suspended"},
      reactivate |-> {"suspended"},
      expire     |-> {"active", "pending_review", "suspended"} ]

=============================================================================
