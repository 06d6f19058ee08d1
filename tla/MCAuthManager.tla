--------------------------- MODULE MCAuthManager ---------------------------
(* Small instances of AuthManager for TLC. *)
EXTENDS AuthManager, TLC

CONSTANTS h1, h2, u1, u2, t1, t2

(* A fresh install; or one whose single admin password was migrated before *)
(* roles existed: the account has none and admin.json is still there.      *)
MCInstalls ==
  {[users |-> Nobody, legacy |-> FALSE],
   [users |-> [Nobody EXCEPT ![u1] = [name |-> "ann", role |-> RoleBlank, pw |-> "p"]],
    legacy |-> TRUE]}

(* Two accounts, one of them an administrator. *)
MCTwoAccounts ==
  {[users |-> [Nobody EXCEPT ![u1] = [name |-> "ann", role |-> RoleAdmin, pw |-> "p"],
                             ![u2] = [name |-> "bob", role |-> RoleAdmin, pw |-> "q"]],
    legacy |-> FALSE]}

MCSymmetry == Permutations(Handlers) \cup Permutations(Tokens) \cup Permutations(UserIds)
=============================================================================
