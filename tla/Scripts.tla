------------------------------ MODULE Scripts ------------------------------
(***************************************************************************)
(* User programs as sequences of system calls.  A step of a program is a   *)
(* call with its arguments, the variable that takes its result, the result *)
(* the program insists on (it prints a complaint and exits otherwise), and *)
(* the steps that follow on success and on failure.  A C loop is unrolled, *)
(* or is one call that comes again.                                        *)
(***************************************************************************)
EXTENDS Integers, Sequences, SequencesExt

Nothing == [nothing |-> TRUE]
Call(op, arg) == [op |-> op, arg |-> arg, to |-> "", want |-> "any", val |-> 0, var |-> "",
                  data |-> <<>>, again |-> "no", ok |-> <<>>, no |-> <<>>]

\* A path: absolute or not, and its elements.
Path(names) == [abs |-> FALSE, elems |-> names]
Root(names) == [abs |-> TRUE, elems |-> names]
At(name)    == Path(<<name>>)

\* The flags of open are a set of these; none of them is O_RDONLY.
Create == "O_CREATE"
WrOnly == "O_WRONLY"
RdWr   == "O_RDWR"

Open(x, path, mode)  == [Call("open", [path |-> path, mode |-> mode]) EXCEPT !.to = x]
Close(x)             == Call("close", [fd |-> x])
Read(x, n)           == Call("read", [fd |-> x, n |-> n])
Write(x, data)       == Call("write", [fd |-> x, data |-> data])
WriteBuf(x)          == Call("writebuf", [fd |-> x])
Names(x)             == Call("names", [fd |-> x])
Dup(x)               == Call("dup", [fd |-> x])
Pipe(r, w)           == Call("pipe", [r |-> r, w |-> w])
Mkdir(path)          == Call("mkdir", [path |-> path])
Mknod(path)          == Call("mknod", [path |-> path])
Chdir(path)          == Call("chdir", [path |-> path])
Link(old, new)       == Call("link", [old |-> old, new |-> new])
Unlink(path)         == Call("unlink", [path |-> path])
Fork(x, child)       == [Call("fork", [script |-> child]) EXCEPT !.to = x]
Exec(path, argv)     == Call("exec", [path |-> path, argv |-> argv])
Wait                 == Call("wait", Nothing)
Kill(x)              == Call("kill", [var |-> x])
GetPid(x)            == [Call("getpid", Nothing) EXCEPT !.to = x]
Exit                 == Call("exit", Nothing)
Sleep                == Call("quick", [name |-> "sleep"])
SetTickets(n)        == Call("quick", [name |-> "settickets"])
GetPInfo             == Call("quick", [name |-> "getpinfo"])
Gets                 == Call("gets", Nothing)
\* By n cells; up or down to the address n above that in v.
Sbrk(x, n)           == [Call("sbrk", [to |-> "", n |-> n]) EXCEPT !.to = x]
SbrkTo(x, v, n)      == [Call("sbrk", [to |-> v, n |-> n]) EXCEPT !.to = x]
\* malloc, with the sbrk it may need; free of all that was allocated, the last first.
Malloc(n)            == Call("malloc", [n |-> n])
FreeAll              == Call("freeall", Nothing)
\* sleep, again and again without end.
SleepOn              == Call("sleepon", Nothing)
\* sleep, its argument on a stack at addr; a call with a string at addr.
SleepAt(addr)        == Call("sleepat", [n |-> addr])
StringAt(addr)       == Call("stringat", [n |-> addr])

\* Not system calls: memory n above the address in v is read or written, an instruction
\* of the kernel is tried, the program loops without end, complains, looks at a variable,
\* counts or compares the data read or keeps what matches.
Peek(v, n)           == Call("peek", [at |-> v, n |-> n])
Poke(v, n, c)        == Call("poke", [at |-> v, n |-> n, c |-> c])
Privileged           == Call("privileged", Nothing)
Spin                 == Call("spin", Nothing)
Oops                 == Call("oops", Nothing)
Has(x)               == Call("has", [var |-> x])
Counted(f)           == Call("counted", [count |-> f])
Saw(data)            == Call("saw", [data |-> data])
Matching(u)          == Call("matching", [unit |-> u])
\* The steps of a function, one of several, or a step as often as variable n says.
Run(name)            == Call("run", [name |-> name])
OneOf(scripts)       == Call("oneof", [scripts |-> scripts])
Times(s)             == Call("times", [script |-> <<s>>])

\* What the program insists on.
Must(c)       == [c EXCEPT !.want = "ok"]
MustFail(c)   == [c EXCEPT !.want = "fail"]
Gives(c, n)   == [c EXCEPT !.want = "n", !.val = n]
GivesVar(c, x, d) == [c EXCEPT !.want = "var", !.var = x, !.val = d]
Reads(c, d)   == [c EXCEPT !.want = "data", !.data = d]
\* What follows.
IfOk(c, s)    == [c EXCEPT !.ok = s]
IfFails(c, s) == [c EXCEPT !.no = s]
\* The call again, with s before it, as long as it returns something above zero (what
\* it reads adds up if s is empty); the same and the rounds counted in variable n; as
\* long as it does not fail and is not the process in x.
WhileMore(c, s)  == [c EXCEPT !.again = "more", !.ok = s]
Counting(c)      == [c EXCEPT !.again = "count"]
WhileOther(c, x) == [c EXCEPT !.again = "other", !.var = x]

\* The variables of a program when it starts, and the numbers it may find in its arguments.
Variables == [stdin |-> 0, stdout |-> 1, stderr |-> 2, zero |-> 0, n |-> 0]
             @@ [a \in {"2", "7"} |-> IF a = "2" THEN 2 ELSE 7]

\* s(0), s(1), ... s(n - 1), one after the other.
For(n, s(_)) == FlattenSeq([i \in 1 .. n |-> s(i - 1)])
=============================================================================
