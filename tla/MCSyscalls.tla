----------------------------- MODULE MCSyscalls -----------------------------
(***************************************************************************)
(* Small images and parameters for the runs of Syscalls.  A block has 4    *)
(* bytes and the image 4 data blocks.  The directory has three entries;    *)
(* the slots after them hold what was removed or was never used, and the   *)
(* look-up finds it all the same.  Inode 0 is an empty file; "shell" and   *)
(* "cat" are programs; "bad" starts like one and has a block that is not   *)
(* there; "dev" has a type open does not know.                             *)
(***************************************************************************)
EXTENDS Syscalls

Entry(fname, type, n) == [filename |-> fname, filetype |-> type, inode_num |-> n]

MCfewslots ==
  <<Entry("dir", "dir", 0), Entry("shell", "file", 1), Entry("rtc", "rtc", 0),
    Entry("txt", "file", 2), Entry("dev", UnknownType, 0), Entry("", "rtc", 0)>>
MCdirentries == MCfewslots \o <<Entry("bad", "file", 3), Entry("cat", "file", 4)>>

File(length, b0, b1, b2) ==
  [length |-> length, blocks |-> [i \in 0 .. 2 |-> <<b0, b1, b2>>[i + 1]]]

MCinodes == [n \in 0 .. 4 |->
  <<File(0, 0, 0, 0), File(4, 1, 0, 0), File(5, 2, 3, 0), File(9, 1, 2, 9),
    File(6, 3, 4, 0)>>[n + 1]]

MCElf == {1, 3, 4}

MCnames == {"dir", "shell", "rtc", "txt", "dev", "", "bad", "cat"}
=============================================================================
