------------------------------ MODULE MCInodes ------------------------------
(* A directory d, a file d/x and, through link, its second name x.  One    *)
(* process makes d, goes into it and up again; what it makes there is a    *)
(* directory d/d.  The other removes d meanwhile, and works on files.      *)
EXTENDS Inodes

CONSTANTS p1, p2

D  == <<"d">>
X  == <<"x">>
DX == <<"d", "x">>
SomeCalls == {<<p1, "create", DX>>, <<p1, "open", X>>, <<p1, "unlink", D>>, <<p1, "unlink", DX>>,
              <<p2, "mkdir", D>>, <<p2, "chdir", D>>, <<p2, "chdir", <<"..">> >>}
SomeLinks == {<<p1, DX, X>>, <<p1, D, X>>}
=============================================================================
