------------------------------- MODULE MCUser -------------------------------
(* What is on the disk and what is typed: a line or a few for each kind of
   command, and a run of the tests. *)
EXTENDS SystemCalls

MCDisk == <<[name |-> "README", data |-> <<"w", "v">>], [name |-> "init", data |-> <<>>]>>
          \o FoldSet(LAMBDA q, s : Append(s, [name |-> q, data |-> <<q>>]), <<>>, Programs)

MCSessions ==
  {<<Draft>>,
   << <<"usertests">> >>,
   << <<"cat", "README", "|", "grep", "w", "|", "wc">> >>,
   << <<"(", "echo", "hi", ";", "ls", ")", ">", "x">>, <<"wc", "<", "x", "&">>, <<"rm", "x", "y">> >>,
   << <<"mkdir", "d">>, <<"cd", "d">>, <<"cat", "x">>, <<"cd", "..">>, <<"rm", "d">>, EOF >>,
   << <<"zombie", "&">>, <<"zombie">>, <<"kill", "2">>, <<"kill", "7">> >>,
   << <<"ln", "README", "r">>, <<"grep", "w", "r", "r">>, <<"set", "7">>, <<"listp">>, <<"ls", "|">> >>,
   << <<"cat", "README", "|", "nosuch">>, <<"echo", "<", "nosuch">>, <<"a", "&", "b">> >>,
   << <<"stressfs">> >>,
   << <<"forktest">> >>,
   << <<"rm", "usertests.ran">>, <<"echo", "w", ">", "usertests.ran">>, <<"usertests">> >>}

MCAlphabet == {"w", "<", ">", "|", "&", ";", "(", ")"}
=============================================================================
