---------------------------- MODULE UserPrograms ----------------------------
(***************************************************************************)
(* The programs on the disk (init.c, cat.c, echo.c and so on, with set.c   *)
(* and listp.c of the lottery scheduler), as functions of their arguments. *)
(* What they print goes to descriptor 1 as one write; what they say to the *)
(* user only is left out.  launchp never ends by itself and is not here.   *)
(***************************************************************************)
EXTENDS Shell, UserTests

Rest(argv) == Tail(argv) \* without argv[0]
PerFile(argv, s(_)) == FlattenSeq([i \in DOMAIN argv |-> s(argv[i])])

InitMain == <<IfFails(Open("fd", At("console"), {RdWr}),
                      <<Mknod(At("console")), Open("fd", At("console"), {RdWr})>>),
              Dup("stdin"), Dup("stdin"), Run("initloop")>>
\* One shell after the other; what else dies has been given to init.
InitLoop == <<IfFails(Fork("pid", <<Exec(At("sh"), <<"sh">>)>>), <<Exit>>),
              WhileOther(Wait, "pid"), Run("initloop")>>

CatFrom(fd) == <<IfFails(WhileMore(Read(fd, 2), <<IfFails(WriteBuf("stdout"), <<Exit>>)>>),
                         <<Exit>>)>>
Opened(name, steps) == <<IfFails(Open("fd", At(name), {}), <<Exit>>)>> \o steps \o <<Close("fd")>>
Cat(argv) == IF Rest(argv) = <<>> THEN CatFrom("stdin")
             ELSE PerFile(Rest(argv), LAMBDA f : Opened(f, CatFrom("fd")))

Echo(argv) == PerFile(Rest(argv), LAMBDA word : <<Write("stdout", <<word>>)>>)

\* A unit is a line.
GrepFrom(fd, pattern) == <<WhileMore(Read(fd, 2), <<Matching(pattern), WriteBuf("stdout")>>)>>
Grep(argv) == IF Len(argv) <= 1 THEN <<>>
              ELSE IF Len(argv) = 2 THEN GrepFrom("stdin", argv[2])
              ELSE PerFile(Rest(Rest(argv)), LAMBDA f : Opened(f, GrepFrom("fd", argv[2])))

WcFrom(fd) == <<IfFails(WhileMore(Read(fd, 2), <<>>), <<Exit>>), Write("stdout", <<"count">>)>>
Wc(argv) == IF Rest(argv) = <<>> THEN WcFrom("stdin")
            ELSE PerFile(Rest(argv), LAMBDA f : Opened(f, WcFrom("fd")))

\* The sizes and types of the files listed are left out.
LsOf(name) == <<IfFails(Open("fd", At(name), {}), <<Exit>>), Names("fd"), WriteBuf("stdout"),
                Close("fd")>>
Ls(argv) == IF Rest(argv) = <<>> THEN LsOf(".") ELSE PerFile(Rest(argv), LsOf)

Ln(argv) == IF Len(argv) # 3 THEN <<>> ELSE <<Link(At(argv[2]), At(argv[3]))>>

\* These stop at the first that fails.
MkdirMain(argv) == PerFile(Rest(argv), LAMBDA d : <<IfFails(Mkdir(At(d)), <<Exit>>)>>)
Rm(argv) == PerFile(Rest(argv), LAMBDA f : <<IfFails(Unlink(At(f)), <<Exit>>)>>)
KillMain(argv) == PerFile(Rest(argv), LAMBDA pid : <<Kill(pid)>>)

Set(argv) == IF Len(argv) = 2 THEN <<SetTickets(argv[2])>> ELSE <<>>
Listp(argv) == IF Len(argv) = 1 THEN <<Malloc(1), GetPInfo>> ELSE <<>>

Zombie == <<IfOk(Fork("pid", <<>>), <<Sleep>>)>>

\* Each process forks the next, writes a file of its own, reads it and waits.  Where
\* fork fails the process goes on as if it were the next.
RECURSIVE StressFrom(_)
StressFrom(i) ==
  LET path == Name("stressfs", i)
      Work == <<Open("fd", path, RdWrCreate)>> \o For(2, LAMBDA j : <<Write("fd", <<"a">>)>>)
              \o <<Close("fd"), Open("fd", path, {})>>
              \o For(2, LAMBDA j : <<Read("fd", 1)>>) \o <<Close("fd"), Wait>>
  IN  IF i = 2 THEN Work
      ELSE LET next == StressFrom(i + 1) IN <<[Fork("pid", next) EXCEPT !.ok = Work, !.no = next]>>

\* The same as in usertests, in a smaller program.
ForkTest == forktest

\* The program in a file, by the contents that stand for it.
Program(name, argv) ==
  CASE name = "sh"        -> ShMain
    [] name = "usertests" -> Usertests
    [] name = "cat"       -> Cat(argv)
    [] name = "echo"      -> Echo(argv)
    [] name = "grep"      -> Grep(argv)
    [] name = "wc"        -> Wc(argv)
    [] name = "ls"        -> Ls(argv)
    [] name = "ln"        -> Ln(argv)
    [] name = "mkdir"     -> MkdirMain(argv)
    [] name = "rm"        -> Rm(argv)
    [] name = "kill"      -> KillMain(argv)
    [] name = "set"       -> Set(argv)
    [] name = "listp"     -> Listp(argv)
    [] name = "zombie"    -> Zombie
    [] name = "stressfs"  -> StressFrom(0)
    [] name = "forktest"  -> ForkTest
Programs == {"sh", "usertests", "cat", "echo", "grep", "wc", "ls", "ln", "mkdir", "rm", "kill",
             "set", "listp", "zombie", "stressfs", "forktest"}
=============================================================================
