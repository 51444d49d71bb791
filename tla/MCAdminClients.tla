--------------------------- MODULE MCAdminClients ---------------------------
(* AdminClients on a small instance: the configured client of one          *)
(* organization is its admin, and has a budget; POST bodies reuse its name *)
(* in the other organization, or bring that one an admin of its own.       *)
EXTENDS AdminClients, TLC

CONSTANTS n1, n2, o1, o2, k0

MCConfigured ==
  <<[name |-> n1, organization |-> o1, role |-> "admin", rpm |-> 1, budget |-> 1]>>
MCConfiguredKeys == [k \in {k0} |-> [name |-> n1, rpm |-> 1]]
MCNewClients == {[name |-> n1, organization |-> o2, role |-> "client", rpm |-> 1, budget |-> None],
                 [name |-> n2, organization |-> o2, role |-> "admin", rpm |-> 2, budget |-> 1]}

(* Keys that are configured nowhere are interchangeable, as are the slots. *)
Interchangeable == Permutations(Keys \ {k0}) \cup Permutations(Admins)
=============================================================================
