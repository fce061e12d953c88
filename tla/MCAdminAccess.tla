---- MODULE MCAdminAccess ----
(* Two tabs of one browser, and the script run twice.  An owner may open and approve;
   approving needs a confirmation, and a confirmation may name something else. *)
EXTENDS AdminAccess, TLC

MCRolePermissions == [owner |-> {"open", "approve"}]
MCJarOf == [t \in Tabs |-> "browser"]
MCSymmetry == Permutations(Users) \cup Permutations(Scripts) \cup Permutations(Tabs)
                \cup Permutations(Sessions) \cup Permutations(Grants)
====
