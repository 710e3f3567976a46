--------------------------- MODULE MCSchemaMigrations ---------------------------
(***************************************************************************)
(* Directories for model checking SchemaMigrations: those a repository of  *)
(* two versions goes through, and the mistakes a deployment can make.      *)
(***************************************************************************)
EXTENDS SchemaMigrations

Sql(v, n, k) == [version |-> v, name |-> n, checksum |-> k, valid |-> TRUE]

One     == Sql(1, "create", "a")
Two     == Sql(2, "alter", "b")
Broken  == Sql(2, "alter", "bad")

MCDirectories ==
    { {One}, {One, Two}, {One, Broken},
      {Two},                              \* version 1 comes later
      {Sql(1, "create", "edited")},       \* an edited file
      {Sql(1, "renamed", "a")},           \* a renamed file
      {One, Sql(1, "other", "b")},        \* a version twice
      {One, [Two EXCEPT !.valid = FALSE]} }
================================================================================
