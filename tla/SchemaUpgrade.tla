----------------------------- MODULE SchemaUpgrade -----------------------------
(***************************************************************************)
(* What the migration command promises of the database: the migrations a   *)
(* component has installed change only from one verified set of migration  *)
(* files to a larger one, all of it at once, and nothing that is installed *)
(* is ever altered or removed.                                             *)
(***************************************************************************)
CONSTANTS
    Components,   \* migration-ledger namespaces
    Repositories  \* the sets of migrations a directory may hold

VARIABLE installed  \* installed[c]: the migrations in the schema of c

Init == installed = [c \in Components |-> {}]

(* The schema of c becomes what the directory holds, if that contains what *)
(* is there already.                                                       *)
Upgrade(c, migrations) ==
    /\ installed[c] \subseteq migrations
    /\ installed' = [installed EXCEPT ![c] = migrations]

Next == \E c \in Components, m \in Repositories : Upgrade(c, m)

Spec == Init /\ [][Next]_installed
================================================================================
