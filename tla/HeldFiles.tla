---------------------------- MODULE HeldFiles ----------------------------
(* Files that other processes rewrite or replace while a command holds    *)
(* them open. A file is [inode, stamp, data]: a rewrite in place moves the *)
(* stamp (size and mtime), a replacement the inode as well. Content is    *)
(* opaque: data names it, and a digest is the data itself.                *)
EXTENDS Integers

CONSTANTS
  Paths,      \* every path of the system
  NoData      \* content of no file

VARIABLES file, clock     \* clock: the last inode or stamp given

Absent == [inode |-> 0, stamp |-> 0, data |-> NoData]
Exists(p) == file[p] # Absent

(* What a descriptor opened as h reads now. *)
HeldData(p, h) == IF file[p].inode = h.inode THEN file[p].data ELSE h.data

(* fstat of that descriptor: size and mtime, not the path. *)
HeldStamp(p, h) == IF file[p].inode = h.inode THEN file[p].stamp ELSE h.stamp
=============================================================================
