------------------------------- MODULE MCNufs -------------------------------
(* Paths for model checking Nufs: a directory next to and below files, and *)
(* a name that does not fit into an entry; and files of the root.          *)
EXTENDS Nufs

SmallPaths == {<<"a">>, <<"name60">>, <<"d">>, <<"d", "a">>}
RootPaths == {<<"a">>, <<"b">>}
=============================================================================
