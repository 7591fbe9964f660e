----------------------------- MODULE UserTests ------------------------------
(***************************************************************************)
(* The system's own tests (usertests.c), each as the calls it makes and    *)
(* the results it insists on.  Loops are shortened: N rounds for the 4,    *)
(* 20, 40, 52, 100, 500 or 1000 of the source, two or three children for   *)
(* its four or ten, and the sizes are in units (half a block) and cells    *)
(* (half a page here).  A number the source compares with stays in         *)
(* proportion.                                                             *)
(***************************************************************************)
EXTENDS Scripts

CONSTANTS N,        \* rounds of a loop
          BIG,      \* the big address space of sbrktest, in cells
          PAGE,     \* cells of a page
          KERNEL,   \* an address of the kernel
          UNITS     \* units of the longest file

RdWrCreate == {RdWr, Create}
Name(c, i) == At(c \o ToString(i))
Letter == <<"p", "q", "r", "s">>
Rep(u, n) == [i \in 1 .. n |-> u]

\* The whole life of a file opened, used and closed.
With(open, steps) == <<Must(open)>> \o steps \o <<Close("fd")>>
Touch(path) == With(Open("fd", path, RdWrCreate), <<>>)
Child(steps) == Must(Fork("pid", steps))
Waits(n) == For(n, LAMBDA i : <<Wait>>)

argptest == With(Open("fd", At("init"), {}), <<Read("fd", -1)>>)

createdelete ==
  For(2, LAMBDA c : <<Child(For(4, LAMBDA i :
           Touch(Name(Letter[c + 1], i))
           \o (IF i = 2 THEN <<Must(Unlink(Name(Letter[c + 1], 1)))>> ELSE <<>>)))>>)
  \o Waits(2)
  \o For(4, LAMBDA i : For(2, LAMBDA c :
       IF i = 0 \/ i >= 2 THEN With(Open("fd", Name(Letter[c + 1], i), {}), <<>>)
       ELSE <<MustFail(Open("fd", Name(Letter[c + 1], i), {}))>>))
  \* The names of this loop are made with i where c was meant: most files stay.
  \o For(4, LAMBDA i : For(2, LAMBDA c : <<Unlink(Name(Letter[i + 1], i))>>))

linkunlink ==
  LET Rounds == For(N, LAMBDA i : <<OneOf(<< <<Open("fd", At("x"), RdWrCreate), Close("fd")>>,
                                             <<Link(At("cat"), At("x"))>>,
                                             <<Unlink(At("x"))>> >>)>>)
  IN  <<Unlink(At("x")), Child(Rounds)>> \o Rounds \o <<Wait>>

concreate ==
  LET LinkIt(i) == <<Link(Name("C", 0), Name("C", i))>>
      Opens(i) == For(2, LAMBDA j : <<Open("fd", Name("C", i), {}), Close("fd")>>)
      Unlinks(i) == For(2, LAMBDA j : <<Unlink(Name("C", i))>>)
  IN  For(N + 1, LAMBDA i :
        <<Unlink(Name("C", i)),
          Fork("pid", IF i % 5 = 1 THEN LinkIt(i) ELSE Touch(Name("C", i)))>>
        \o (IF i % 3 = 1 THEN LinkIt(i) ELSE Touch(Name("C", i))) \o <<Wait>>)
      \o <<Open("fd", At("."), {}), Names("fd"),
           Counted([c \in {"C" \o ToString(i) : i \in 0 .. N} |-> 1]), Close("fd")>>
      \o For(N + 1, LAMBDA i :
           <<Child(IF i % 3 = 0 THEN Opens(i) ELSE Unlinks(i))>>
           \o (IF i % 3 = 1 THEN Opens(i) ELSE Unlinks(i)) \o <<Wait>>)

fourfiles ==
  For(3, LAMBDA c : <<Unlink(Name("f", c)),
    Child(<<Must(Open("fd", Name("f", c), RdWrCreate))>>
          \o For(N, LAMBDA i : <<Gives(Write("fd", Rep(ToString(c), 1)), 1)>>))>>)
  \o Waits(3)
  \o For(2, LAMBDA c : <<Open("fd", Name("f", c), {}), WhileMore(Read("fd", UNITS), <<>>),
                         Counted(ToString(c) :> N), Close("fd"), Unlink(Name("f", c))>>)

sharedfd ==
  LET Writes(u) == For(N, LAMBDA i : <<Gives(Write("fd", <<u>>), 1)>>)
  IN  <<Unlink(At("sharedfd")), Must(Open("fd", At("sharedfd"), RdWrCreate)),
        Fork("pid", Writes("c"))>> \o Writes("p")
      \o <<Wait, Close("fd"), Must(Open("fd", At("sharedfd"), {})),
           WhileMore(Read("fd", 2), <<>>), Counted([u \in {"c", "p"} |-> N]),
           Close("fd"), Unlink(At("sharedfd"))>>

\* If exec fails the child goes on and leaves the file; if it does not, the arguments
\* complain.
bigargtest ==
  <<Unlink(At("bigarg-ok")),
    Child(<<Exec(At("echo"), <<"long", "long", "long">>),
            Open("fd", At("bigarg-ok"), {Create}), Close("fd")>>),
    Wait>>
  \o With(Open("fd", At("bigarg-ok"), {}), <<>>) \o <<Unlink(At("bigarg-ok"))>>

bigwrite ==
  <<Unlink(At("bigwrite"))>>
  \o For(3, LAMBDA i :
       With(Open("fd", At("bigwrite"), RdWrCreate),
            For(2, LAMBDA j : <<Gives(Write("fd", Rep("a", i + 1)), i + 1)>>))
       \o <<Unlink(At("bigwrite"))>>)

\* The array is in the page of the program.
bsstest == For(PAGE, LAMBDA i : <<Gives(Peek("zero", i), 0)>>)

sbrktest ==
  <<Sbrk("oldbrk", 0), Sbrk("a", 0)>>
  \o For(3, LAMBDA i : <<GivesVar(Sbrk("b", 1), "a", i), Poke("b", 0, 1)>>)
  \o (LET After == <<Sbrk("c", 1), GivesVar(Sbrk("c", 1), "a", 4)>>
      IN  <<Child(After)>> \o After \o <<Wait>>)
  \* Something big, with a mark in the last cell.
  \o <<Sbrk("a", 0), GivesVar(SbrkTo("p", "zero", BIG), "a", 0), Poke("zero", BIG - 1, 99)>>
  \* Smaller by a page, and larger again: the page must be clear.
  \o <<Sbrk("a", 0), Must(Sbrk("c", -PAGE)), GivesVar(Sbrk("c", 0), "a", -PAGE),
       Sbrk("a", 0), GivesVar(Sbrk("c", PAGE), "a", 0), GivesVar(Sbrk("c", 0), "a", PAGE),
       Gives(Peek("zero", BIG - 1), 0),
       Sbrk("a", 0), GivesVar(SbrkTo("c", "oldbrk", 0), "a", 0)>>
  \* The memory of the kernel.
  \o For(2, LAMBDA i : <<GetPid("ppid"),
                         Child(<<Peek("zero", KERNEL + i), Oops, Kill("ppid")>>), Wait>>)
  \* All of the memory.
  \o <<Must(Pipe("r", "w"))>>
  \o For(3, LAMBDA i :
       <<IfOk(Fork("pid" \o ToString(i),
                   <<SbrkTo("p", "zero", BIG), Write("w", <<"x">>), SleepOn>>),
              <<Read("r", 1)>>)>>)
  \o <<Sbrk("c", PAGE)>>
  \o For(3, LAMBDA i : LET pid == "pid" \o ToString(i)
                       IN  <<IfOk(Has(pid), <<Kill(pid), Wait>>)>>)
  \o <<Must(Has("c")), SbrkTo("c", "oldbrk", 0)>>

validatetest ==
  For(5, LAMBDA i : <<Fork("pid", <<SleepAt(i * PAGE)>>), Sleep, Sleep, Kill("pid"), Wait,
                      MustFail(StringAt(i * PAGE))>>)

opentest == With(Open("fd", At("echo"), {}), <<>>)
            \o <<MustFail(Open("fd", At("doesnotexist"), {}))>>

writetest ==
  With(Open("fd", At("small"), RdWrCreate),
       For(N, LAMBDA i : <<Gives(Write("fd", <<"a">>), 1), Gives(Write("fd", <<"b">>), 1)>>))
  \o With(Open("fd", At("small"), {}), <<Gives(Read("fd", 2 * N), 2 * N)>>)
  \o <<Must(Unlink(At("small")))>>

\* As long a file as there can be; the source lets a shorter one pass, but not by one.
writetest1 ==
  With(Open("fd", At("big"), RdWrCreate),
       For(UNITS, LAMBDA i : <<Gives(Write("fd", <<ToString(i)>>), 1)>>))
  \o With(Open("fd", At("big"), {}),
          For(UNITS, LAMBDA i : <<Reads(Read("fd", 1), <<ToString(i)>>)>>)
          \o <<Gives(Read("fd", 1), 0)>>)
  \o <<Must(Unlink(At("big")))>>

createtest == For(N, LAMBDA i : <<Open("fd", Name("a", i), RdWrCreate), Close("fd")>>)
              \o For(N, LAMBDA i : <<Unlink(Name("a", i))>>)

openiputtest == <<Must(Mkdir(At("oidir"))),
                  Child(<<MustFail(Open("fd", At("oidir"), {RdWr}))>>),
                  Sleep, Must(Unlink(At("oidir"))), Wait>>

IputSteps == <<Must(Mkdir(At("iputdir"))), Must(Chdir(At("iputdir"))),
               Must(Unlink(Path(<<"..", "iputdir">>)))>>
exitiputtest == <<Child(IputSteps), Wait>>
iputtest == IputSteps \o <<Must(Chdir(Root(<<>>)))>>

\* Everything there is, in small pieces; given back, a piece for two must fit.
mem == <<GetPid("ppid"),
         Fork("pid", <<WhileMore(Malloc(1), <<>>), FreeAll,
                       IfFails(Must(Malloc(3)), <<Kill("ppid")>>), FreeAll>>),
         Wait>>

pipe1 ==
  <<Must(Pipe("r", "w")),
    Child(<<Close("r")>> \o For(N, LAMBDA i : <<Gives(Write("w", <<"1", "2">>), 2)>>)),
    Close("w"), Read("r", 1), WhileMore(Read("r", 2), <<>>),
    Saw(For(N, LAMBDA i : <<"1", "2">>)), Close("r"), Wait>>

preempt ==
  <<Fork("pid1", <<Spin>>), Fork("pid2", <<Spin>>), Pipe("r", "w"),
    Fork("pid3", <<Close("r"), Gives(Write("w", <<"x">>), 1), Close("w"), Spin>>),
    Close("w"), Gives(Read("r", 2), 1), Close("r"), Kill("pid1"), Kill("pid2"), Kill("pid3"),
    Wait, Wait, Wait>>

exitwait == For(N, LAMBDA i : <<Child(<<Exit>>), GivesVar(Wait, "pid", 0)>>)

rmdot ==
  <<Must(Mkdir(At("dots"))), Must(Chdir(At("dots"))), MustFail(Unlink(At("."))),
    MustFail(Unlink(At(".."))), Must(Chdir(Root(<<>>))),
    MustFail(Unlink(Path(<<"dots", ".">>))), MustFail(Unlink(Path(<<"dots", "..">>))),
    Must(Unlink(At("dots")))>>

\* Names of fourteen characters, and of one more.
Fourteen == "12345678901234"
Fifteen  == "123456789012345"
fourteen ==
  <<Must(Mkdir(At(Fourteen))), Must(Mkdir(Path(<<Fourteen, Fifteen>>)))>>
  \o With(Open("fd", Path(<<Fifteen, Fifteen, Fifteen>>), {Create}), <<>>)
  \o With(Open("fd", Path(<<Fourteen, Fourteen, Fourteen>>), {}), <<>>)
  \o <<MustFail(Mkdir(Path(<<Fourteen, Fourteen>>))),
       MustFail(Mkdir(Path(<<Fifteen, Fourteen>>)))>>

bigfile ==
  <<Unlink(At("bigfile"))>>
  \o With(Open("fd", At("bigfile"), RdWrCreate),
          For(N, LAMBDA i : <<Gives(Write("fd", Rep(ToString(i), 2)), 2)>>))
  \o With(Open("fd", At("bigfile"), {}),
          For(2 * N, LAMBDA i : <<Reads(Read("fd", 1), <<ToString(i \div 2)>>)>>)
          \o <<Gives(Read("fd", 1), 0)>>)
  \o <<Unlink(At("bigfile"))>>

dd_ff == Path(<<"dd", "ff">>)
dd_dd(name) == Path(<<"dd", "dd", name>>)
\* What must not be done to a file as if it were a directory, to a name that is not
\* there, or to a directory as if it were a file.
subdirErrors ==
  LET NotDir == Path(<<"dd", "ff", "ff">>)
      NotThere == Path(<<"dd", "xx", "ff">>)
  IN  <<MustFail(Open("fd", dd_dd("ff"), {})), MustFail(Open("fd", NotDir, RdWrCreate)),
        MustFail(Open("fd", NotThere, RdWrCreate)), MustFail(Open("fd", At("dd"), {Create})),
        MustFail(Open("fd", At("dd"), {RdWr})), MustFail(Open("fd", At("dd"), {WrOnly})),
        MustFail(Link(NotDir, dd_dd("xx"))), MustFail(Link(NotThere, dd_dd("xx"))),
        MustFail(Link(dd_ff, dd_dd("ffff"))), MustFail(Mkdir(NotDir)),
        MustFail(Mkdir(NotThere)), MustFail(Mkdir(dd_dd("ffff"))), MustFail(Unlink(NotThere)),
        MustFail(Unlink(NotDir)), MustFail(Chdir(dd_ff)), MustFail(Chdir(Path(<<"dd", "xx">>)))>>
subdirEnd ==
  <<Must(Unlink(dd_dd("ffff"))), Must(Unlink(dd_ff)), MustFail(Unlink(At("dd"))),
    Must(Unlink(Path(<<"dd", "dd">>))), Must(Unlink(At("dd")))>>
subdir ==
  <<Unlink(At("ff")), Must(Mkdir(At("dd")))>>
  \o With(Open("fd", dd_ff, RdWrCreate), <<Write("fd", <<"f", "f">>)>>)
  \o <<MustFail(Unlink(At("dd"))), Must(Mkdir(Root(<<"dd", "dd">>)))>>
  \o With(Open("fd", dd_dd("ff"), RdWrCreate), <<Write("fd", <<"F", "F">>)>>)
  \o With(Open("fd", Path(<<"dd", "dd", "..", "ff">>), {}),
          <<Reads(Read("fd", UNITS), <<"f", "f">>)>>)
  \o <<Must(Link(dd_dd("ff"), dd_dd("ffff"))), Must(Unlink(dd_dd("ff"))),
       MustFail(Open("fd", dd_dd("ff"), {})), Must(Chdir(At("dd"))),
       Must(Chdir(Path(<<"dd", "..", "..", "dd">>))),
       Must(Chdir(Path(<<"dd", "..", "..", "..", "dd">>))), Must(Chdir(Path(<<".", "..">>)))>>
  \o With(Open("fd", dd_dd("ffff"), {}), <<Gives(Read("fd", UNITS), 2)>>)
  \o subdirErrors \o subdirEnd

linktest ==
  <<Unlink(At("lf1")), Unlink(At("lf2"))>>
  \o With(Open("fd", At("lf1"), RdWrCreate), <<Gives(Write("fd", <<"h", "i">>), 2)>>)
  \o <<Must(Link(At("lf1"), At("lf2"))), Unlink(At("lf1")), MustFail(Open("fd", At("lf1"), {}))>>
  \o With(Open("fd", At("lf2"), {}), <<Gives(Read("fd", UNITS), 2)>>)
  \o <<MustFail(Link(At("lf2"), At("lf2"))), Unlink(At("lf2")),
       MustFail(Link(At("lf2"), At("lf1"))), MustFail(Link(At("."), At("lf1")))>>

unlinkread ==
  With(Open("fd", At("unlinkread"), RdWrCreate), <<Write("fd", <<"h", "i">>)>>)
  \o <<Must(Open("fd", At("unlinkread"), {RdWr})), Must(Unlink(At("unlinkread"))),
       Open("fd1", At("unlinkread"), RdWrCreate), Write("fd1", <<"y">>), Close("fd1"),
       Reads(Read("fd", UNITS), <<"h", "i">>), Gives(Write("fd", <<"h", "i">>), 2),
       Close("fd"), Unlink(At("unlinkread"))>>

dirfile ==
  LET xx == Path(<<"dirfile", "xx">>)
  IN  With(Open("fd", At("dirfile"), {Create}), <<>>)
      \o <<MustFail(Chdir(At("dirfile"))), MustFail(Open("fd", xx, {})),
           MustFail(Open("fd", xx, {Create})), MustFail(Mkdir(xx)), MustFail(Unlink(xx)),
           MustFail(Link(At("README"), xx)), Must(Unlink(At("dirfile"))),
           MustFail(Open("fd", At("."), {RdWr})), Open("fd", At("."), {}),
           MustFail(Write("fd", <<"x">>)), Close("fd")>>

\* The empty path.
iref ==
  For(N, LAMBDA i :
    <<Must(Mkdir(At("irefd"))), Must(Chdir(At("irefd"))), Mkdir(Path(<<>>)),
      Link(At("README"), Path(<<>>)),
      IfOk(Open("fd", Path(<<>>), {Create}), <<Close("fd")>>),
      IfOk(Open("fd", At("xx"), {Create}), <<Close("fd")>>), Unlink(At("xx"))>>)
  \o <<Chdir(Root(<<>>))>>

\* Children until there is no room, all of them waited for, and not one more.
forktest == <<Counting(WhileMore(Fork("pid", <<Exit>>), <<>>)), Times(Must(Wait)),
              MustFail(Wait)>>

bigdir == With(Open("fd", At("bd"), {Create}), <<>>)
          \o For(N, LAMBDA i : <<Must(Link(At("bd"), Name("x", i)))>>)
          \o <<Unlink(At("bd"))>>
          \o For(N, LAMBDA i : <<Must(Unlink(Name("x", i)))>>)

uio == <<Child(<<Privileged, Oops>>), Wait>>

exectest == <<Must(Exec(At("echo"), <<"echo", "ALL", "TESTS">>))>>

Tests == [argptest |-> argptest, createdelete |-> createdelete, linkunlink |-> linkunlink,
          concreate |-> concreate, fourfiles |-> fourfiles, sharedfd |-> sharedfd,
          bigargtest |-> bigargtest, bigwrite |-> bigwrite, bsstest |-> bsstest,
          sbrktest |-> sbrktest, validatetest |-> validatetest, opentest |-> opentest,
          writetest |-> writetest, writetest1 |-> writetest1, createtest |-> createtest,
          openiputtest |-> openiputtest, exitiputtest |-> exitiputtest, iputtest |-> iputtest,
          mem |-> mem, pipe1 |-> pipe1, preempt |-> preempt, exitwait |-> exitwait,
          rmdot |-> rmdot, fourteen |-> fourteen, bigfile |-> bigfile, subdir |-> subdir,
          linktest |-> linktest, unlinkread |-> unlinkread, dirfile |-> dirfile, iref |-> iref,
          forktest |-> forktest, bigdir |-> bigdir, uio |-> uio, exectest |-> exectest]

\* main runs them one after the other; here it runs one of them, any.
Usertests == <<IfOk(Open("fd", At("usertests.ran"), {}), <<Exit>>),
               Open("fd", At("usertests.ran"), {Create}), Close("fd"),
               Call("onetest", Nothing)>>
=============================================================================
