-------------------------------- MODULE Mkfs --------------------------------
(***************************************************************************)
(* The file system mkfs makes (mkfs.c): a root directory with its two      *)
(* names and one file per argument.  An inode is a record; a directory     *)
(* maps names to inode numbers, a file is a sequence of units.             *)
(***************************************************************************)
EXTENDS Integers, Sequences, SequencesExt, Functions

ROOTINO == 1

\* A fresh inode, with its one link.
Dinode(type) == [type |-> type, nlink |-> 1, ent |-> <<>>, data |-> <<>>]

\* ialloc: numbers go up from one and are not used again.
IAlloc(img, type) == [img EXCEPT !.inode = (img.freeinode :> Dinode(type)) @@ @,
                                 !.freeinode = @ + 1]
\* iappend, of a directory entry and of contents.
AppendEntry(img, name, inum) == [img EXCEPT !.inode[ROOTINO].ent = (name :> inum) @@ @]
AppendData(img, inum, data) == [img EXCEPT !.inode[inum].data = @ \o data]

AddFile(img, f) == LET inum == img.freeinode
                   IN  AppendData(AppendEntry(IAlloc(img, "file"), f.name, inum), inum, f.data)

\* main: "." and ".." of the root, then the files.
MkfsImage(files) ==
  LET root == IAlloc([inode |-> <<>>, freeinode |-> ROOTINO], "dir")
      dots == AppendEntry(AppendEntry(root, ".", ROOTINO), "..", ROOTINO)
  IN  FoldLeft(AddFile, dots, files).inode
=============================================================================
