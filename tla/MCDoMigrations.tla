--------------------------- MODULE MCDoMigrations ---------------------------
(* A finite instance of DoMigrations: the migration there is, and one that *)
(* a later build brings.                                                   *)
EXTENDS DoMigrations

TwoVersions ==
  << [version |-> 1, creates |-> <<"schema_version", "pages">>],
     [version |-> 2, creates |-> <<"later">>] >>
=============================================================================
