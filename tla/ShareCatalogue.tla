--------------------------- MODULE ShareCatalogue ---------------------------
(***************************************************************************)
(* What the share actions of the ceph-nfs charm promise, stripped of the   *)
(* objects they are kept in: shares are created, deleted and opened or     *)
(* closed to one client at a time, and each change is whole.               *)
(***************************************************************************)

CONSTANTS
  Shares,   \* names of shares
  Clients,  \* addresses that may be granted access
  Absent    \* in place of the clients of a share that does not exist

VARIABLE catalogue   \* whom each share is open to

CatalogueInit == catalogue = [s \in Shares |-> Absent]

Created(s) ==
  /\ catalogue[s] = Absent
  /\ \E C \in SUBSET Clients : catalogue' = [catalogue EXCEPT ![s] = C]

Deleted(s) ==
  /\ catalogue[s] # Absent
  /\ catalogue' = [catalogue EXCEPT ![s] = Absent]

Opened(s, c) ==
  /\ catalogue[s] # Absent
  /\ catalogue' = [catalogue EXCEPT ![s] = @ \cup {c}]

Closed(s, c) ==
  /\ catalogue[s] # Absent
  /\ catalogue' = [catalogue EXCEPT ![s] = @ \ {c}]

CatalogueNext ==
  \E s \in Shares : \/ Created(s) \/ Deleted(s)
                    \/ \E c \in Clients : Opened(s, c) \/ Closed(s, c)

CatalogueSpec == CatalogueInit /\ [][CatalogueNext]_catalogue
=============================================================================
