-------------------------------- MODULE MCFs --------------------------------
(* Calls for model checking Fs. *)
EXTENDS Fs, TLC

Symmetric == Permutations(Procs)

Rel(names) == [abs |-> FALSE, names |-> names]
Abs(names) == [abs |-> TRUE, names |-> names]
Do(op, kind, path) == [op |-> op, kind |-> kind, path |-> path, new |-> path]
A == Rel(<<"a">>)
D == Abs(<<"d">>)
DA == Rel(<<"d", "a">>)
DD == Rel(<<"d", "d">>)
SmallCalls ==
  {Do("open", "write", A),
   Do("create", "file", DA), Do("create", "dir", DD),
   Do("unlink", "file", A), Do("unlink", "file", D), Do("unlink", "file", DA),
   Do("chdir", "file", D),
   [Do("link", "file", A) EXCEPT !.new = DA]}
=============================================================================
