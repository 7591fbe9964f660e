------------------------------ MODULE FileTree -------------------------------
(***************************************************************************)
(* What the file system promises about names: directories map names to     *)
(* nodes; a directory gets one name when it is made and never another, and *)
(* loses it only while it is empty; a file may have several names; what    *)
(* has lost its last name stays as it is for whoever uses it, and only     *)
(* then is the node free for something else.                               *)
(***************************************************************************)
EXTENDS Naturals

CONSTANTS Nodes, Names, Root, None

VARIABLES kind,    \* per node: "free", "dir" or "file"
          names,   \* per node, for directories: a node or None per name
          used     \* nodes in use: open, somebody's directory, in a call

treeVars == <<kind, names, used>>

Init == /\ kind = [i \in Nodes |-> IF i = Root THEN "dir" ELSE "free"]
        /\ names = [i \in Nodes |-> [n \in Names |-> None]]
        /\ used = {Root}

Empty(i) == \A n \in Names : names[i][n] = None
Named(i) == i = Root \/ \E d \in Nodes, n \in Names : names[d][n] = i
\* A directory in it leads back to it by its "..".
Leads(i) == \E n \in Names : names[i][n] # None /\ kind[names[i][n]] = "dir"

\* A name is added to a directory somebody has come to.
Give(d, n, i) == /\ d \in used /\ kind[d] = "dir" /\ names[d][n] = None
                 /\ names' = [names EXCEPT ![d][n] = i]

Make(d, n, i, k) == /\ kind[i] = "free"
                    /\ kind' = [kind EXCEPT ![i] = k]
                    /\ Give(d, n, i)
                    /\ used' = used \cup {i}

Link(d, n, i) == /\ kind[i] = "file" /\ i \in used
                 /\ Give(d, n, i)
                 /\ UNCHANGED <<kind, used>>

Remove(d, n) == /\ names[d][n] # None /\ Empty(names[d][n])
                /\ d \in used
                /\ names' = [names EXCEPT ![d][n] = None]
                /\ UNCHANGED <<kind, used>>

\* Somebody comes to a node by its name or by "..", or the last user leaves it.
Use(i)   == (Named(i) \/ Leads(i)) /\ used' = used \cup {i} /\ UNCHANGED <<kind, names>>
Leave(i) == i \in used /\ used' = used \ {i} /\ UNCHANGED <<kind, names>>

\* What nobody can come to any more.
Reclaim(i) == /\ kind[i] # "free" /\ ~Named(i) /\ ~Leads(i) /\ i \notin used
              /\ kind' = [kind EXCEPT ![i] = "free"]
              /\ names' = [names EXCEPT ![i] = [n \in Names |-> None]]
              /\ UNCHANGED used

Next == \/ \E i \in Nodes : Use(i) \/ Leave(i) \/ Reclaim(i)
        \/ \E d \in Nodes, n \in Names :
             \/ Remove(d, n)
             \/ \E i \in Nodes : Link(d, n, i) \/ \E k \in {"dir", "file"} : Make(d, n, i, k)

Spec == Init /\ [][Next]_treeVars
=============================================================================
