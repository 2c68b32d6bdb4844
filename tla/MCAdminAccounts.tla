-------------------------- MODULE MCAdminAccounts --------------------------
(* The super administrator and one user name, whose account may be deleted *)
(* and created again; two logins at a time; two runs of the setup script.  *)
EXTENDS AdminAccounts, TLC

CONSTANTS i1, i2, i3, h1, h2, b1, b2, p, q

MCSymmetry == Permutations({i1, i2, i3}) \cup Permutations({h1, h2}) \cup Permutations({b1, b2})
              \cup Permutations({p, q})
=============================================================================
