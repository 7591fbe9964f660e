------------------------------- MODULE Shell --------------------------------
(***************************************************************************)
(* The shell (sh.c): the recursive descent parser of command lines, what   *)
(* running a parsed command does in system calls, and the loop that reads  *)
(* lines.  A line is a sequence of tokens.  A parser takes the line and    *)
(* the place of the next token and returns whether it went well, the       *)
(* command, and the place it stopped at.                                   *)
(***************************************************************************)
EXTENDS Scripts, FiniteSetsExt

CONSTANT MAXARGS

Redirections == {"<", ">", ">>"}
Symbols == Redirections \cup {"|", "&", ";", "(", ")"}

ExecCmd(argv)  == [type |-> "EXEC", argv |-> argv]
RedirCmd(c, r) == [type |-> "REDIR", cmd |-> c, file |-> r.file, mode |-> r.mode, fd |-> r.fd]
PipeCmd(l, r)  == [type |-> "PIPE", left |-> l, right |-> r]
ListCmd(l, r)  == [type |-> "LIST", left |-> l, right |-> r]
BackCmd(c)     == [type |-> "BACK", cmd |-> c]
Redirected(c, redirs) == FoldLeft(RedirCmd, c, redirs)

\* ">>" is ">": neither truncates the file, both write from its start.
Redirection(sym, file) ==
  IF sym = "<" THEN [file |-> file, mode |-> {}, fd |-> "stdin"]
  ELSE [file |-> file, mode |-> {WrOnly, Create}, fd |-> "stdout"]

Panic == [ok |-> FALSE, c |-> ExecCmd(<<>>), i |-> 0]
Parsed(c, i) == [ok |-> TRUE, c |-> c, i |-> i]

PeekAt(ts, i, set) == i <= Len(ts) /\ ts[i] \in set
WordAt(ts, i) == i <= Len(ts) /\ ts[i] \notin Symbols

\* parseredirs, the redirections in a sequence to be put around the command.
RECURSIVE ParseRedirs(_, _, _)
ParseRedirs(ts, i, redirs) ==
  IF ~PeekAt(ts, i, Redirections) THEN Parsed(redirs, i)
  ELSE IF ~WordAt(ts, i + 1) THEN Panic
  ELSE ParseRedirs(ts, i + 2, Append(redirs, Redirection(ts[i], ts[i + 1])))

\* The loop of parseexec: words and redirections up to the end of the command.
RECURSIVE ParseArgs(_, _, _)
ParseArgs(ts, argv, x) ==
  IF ~x.ok THEN Panic
  ELSE IF x.i > Len(ts) \/ PeekAt(ts, x.i, {"|", ")", "&", ";"})
       THEN Parsed(Redirected(ExecCmd(argv), x.c), x.i)
  ELSE IF ~WordAt(ts, x.i) \/ Len(argv) + 1 >= MAXARGS THEN Panic
  ELSE ParseArgs(ts, Append(argv, ts[x.i]), ParseRedirs(ts, x.i + 1, x.c))

\* Seeded fault: only one & is taken.
ParseBacks_One(ts, x) == IF x.ok /\ PeekAt(ts, x.i, {"&"})
                         THEN Parsed(BackCmd(x.c), x.i + 1) ELSE x

\* The loop of parseline over &.
RECURSIVE ParseBacks(_, _)
ParseBacks(ts, x) == IF x.ok /\ PeekAt(ts, x.i, {"&"})
                     THEN ParseBacks(ts, Parsed(BackCmd(x.c), x.i + 1)) ELSE x

RECURSIVE ParseLine(_, _)

\* parseblock, parseexec, parsepipe, parseline.
ParseBlock(ts, i) ==
  LET x == ParseLine(ts, i + 1)
      r == ParseRedirs(ts, x.i + 1, <<>>)
  IN  IF x.ok /\ PeekAt(ts, x.i, {")"}) /\ r.ok
      THEN Parsed(Redirected(x.c, r.c), r.i) ELSE Panic

ParseExec(ts, i) == IF PeekAt(ts, i, {"("}) THEN ParseBlock(ts, i)
                    ELSE ParseArgs(ts, <<>>, ParseRedirs(ts, i, <<>>))

RECURSIVE ParsePipe(_, _)
ParsePipe(ts, i) ==
  LET x == ParseExec(ts, i)
      y == ParsePipe(ts, x.i + 1)
  IN  IF ~(x.ok /\ PeekAt(ts, x.i, {"|"})) THEN x
      ELSE IF y.ok THEN Parsed(PipeCmd(x.c, y.c), y.i) ELSE Panic

ParseLine(ts, i) ==
  LET x == ParseBacks(ts, ParsePipe(ts, i))
      y == ParseLine(ts, x.i + 1)
  IN  IF ~(x.ok /\ PeekAt(ts, x.i, {";"})) THEN x
      ELSE IF y.ok THEN Parsed(ListCmd(x.c, y.c), y.i) ELSE Panic

\* parsecmd: nothing may be left over.
ParseCmd(ts) == LET x == ParseLine(ts, 1)
                IN  IF x.ok /\ x.i > Len(ts) THEN x ELSE Panic

-----------------------------------------------------------------------------
(* runcmd: what the process of a command does, up to its exit.             *)

Fork1(child) == IfFails(Fork("pid", child), <<Exit>>)

\* Seeded fault: the shell keeps the writing end of the pipe.
Between_Open == <<Close("r")>>

\* What the parent of a pipeline does with its ends.
Between == <<Close("r"), Close("w")>>

RECURSIVE RunCmd(_)
RunCmd(c) ==
  CASE c.type = "EXEC"  -> IF c.argv = <<>> THEN <<Exit>>
                           ELSE <<Exec(At(c.argv[1]), c.argv)>>
    [] c.type = "REDIR" -> <<Close(c.fd), IfFails(Open("f", At(c.file), c.mode), <<Exit>>)>>
                           \o RunCmd(c.cmd)
    [] c.type = "LIST"  -> <<Fork1(RunCmd(c.left)), Wait>> \o RunCmd(c.right)
    [] c.type = "PIPE"  ->
         <<IfFails(Pipe("r", "w"), <<Exit>>),
           Fork1(<<Close("stdout"), Dup("w"), Close("r"), Close("w")>> \o RunCmd(c.left)),
           Fork1(<<Close("stdin"), Dup("r"), Close("r"), Close("w")>> \o RunCmd(c.right))>>
         \o Between \o <<Wait, Wait>>
    [] c.type = "BACK"  -> <<Fork1(RunCmd(c.cmd))>>

\* The three descriptors come from init: the first open of console gives a fourth.
ShMain == <<Open("fd", At("console"), {RdWr}), Close("fd"), Gets>>

EOF == <<"^D">>

\* A line that was read, and back to the prompt.
OnLine(ts) ==
  LET x == ParseCmd(ts)
  IN  IF ts = EOF THEN <<Exit>>
      ELSE IF Len(ts) > 1 /\ ts[1] = "cd" THEN <<Chdir(At(ts[2])), Gets>>
      ELSE <<Fork1(IF x.ok THEN RunCmd(x.c) ELSE <<Exit>>), Wait, Gets>>

-----------------------------------------------------------------------------
(* What a line means, said without a parser: at the first ; outside        *)
(* parentheses it is two lines one after the other, before that it may end *)
(* in &s, at the first | outside parentheses it is a pipeline, and what is *)
(* left is words and redirections, or a line in parentheses and            *)
(* redirections.                                                           *)

Depth(ts, k) == LET Up == {j \in 1 .. k : ts[j] = "("}
                    Down == {j \in 1 .. k : ts[j] = ")"}
                IN  Cardinality(Up) - Cardinality(Down)
Balanced(ts) == /\ \A k \in DOMAIN ts : Depth(ts, k) >= 0
                /\ Depth(ts, Len(ts)) = 0
Outside(ts, sym) == {k \in DOMAIN ts : ts[k] = sym /\ Depth(ts, k) = 0}
Before(ts, k) == SubSeq(ts, 1, k - 1)
Behind(ts, k) == SubSeq(ts, k + 1, Len(ts))

Nonsense == [type |-> "NONSENSE"]
Both(Cmd(_, _), l, r) == IF Nonsense \in {l, r} THEN Nonsense ELSE Cmd(l, r)

\* The places of redirections, and the words and redirections of a part.
Arrows(ts) == {k \in DOMAIN ts : ts[k] \in Redirections}
Words(ts) == LET Plain == {k \in DOMAIN ts : k \notin Arrows(ts) /\ k - 1 \notin Arrows(ts)}
             IN  [j \in 1 .. Cardinality(Plain) |-> ts[SetToSortSeq(Plain, <)[j]]]
Redirs(ts) == LET s == SetToSortSeq(Arrows(ts), <)
              IN  [j \in DOMAIN s |-> Redirection(ts[s[j]], ts[s[j] + 1])]
Sensible(ts) == /\ \A k \in Arrows(ts) : k < Len(ts) /\ ts[k + 1] \notin Symbols
                /\ \A k \in DOMAIN ts : ts[k] \in Symbols => k \in Arrows(ts)

RECURSIVE Meaning(_)
MeaningOfOne(ts) ==
  LET m == Min({k \in DOMAIN ts : Depth(ts, k) = 0})
      block == ts # <<>> /\ ts[1] = "("
      rest == IF block THEN Behind(ts, m) ELSE ts
      inner == IF block THEN Meaning(SubSeq(ts, 2, m - 1)) ELSE ExecCmd(Words(rest))
  IN  IF Sensible(rest) /\ inner # Nonsense
         /\ (IF block THEN Words(rest) = <<>> ELSE Len(Words(rest)) < MAXARGS)
      THEN Redirected(inner, Redirs(rest)) ELSE Nonsense

RECURSIVE MeaningOfPipe(_)
MeaningOfPipe(ts) ==
  LET bars == Outside(ts, "|")
  IN  IF bars = {} THEN MeaningOfOne(ts)
      ELSE Both(PipeCmd, MeaningOfOne(Before(ts, Min(bars))),
                MeaningOfPipe(Behind(ts, Min(bars))))

RECURSIVE MeaningOfBack(_)
MeaningOfBack(ts) ==
  IF ts # <<>> /\ Last(ts) = "&"
  THEN LET c == MeaningOfBack(Front(ts)) IN IF c = Nonsense THEN c ELSE BackCmd(c)
  ELSE MeaningOfPipe(ts)

Meaning(ts) ==
  LET semis == Outside(ts, ";")
  IN  IF ~Balanced(ts) THEN Nonsense
      ELSE IF semis = {} THEN MeaningOfBack(ts)
      ELSE Both(ListCmd, MeaningOfBack(Before(ts, Min(semis))), Meaning(Behind(ts, Min(semis))))
=============================================================================
