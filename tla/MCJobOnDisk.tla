------------------------------ MODULE MCJobOnDisk ------------------------------
(* A small instance of JobOnDisk for TLC: payload A is too big and gives a1; X is  *)
(* other work under the key of A.                                            *)
EXTENDS JobOnDisk, TLC

CONSTANTS A, a1, X, hA, h1, hX, theJob, noSchema

MCPayloads == {A, a1, X}
MCKeyOf == (A :> 2) @@ (a1 :> 1) @@ (X :> 2)
MCHashOf == (A :> hA) @@ (a1 :> h1) @@ (X :> hX)
MCSizeOf == (A :> 2) @@ (a1 :> 1) @@ (X :> 1)
MCUnitsOf == (A :> {1}) @@ (a1 :> {1}) @@ (X :> {2})
MCSplitsOf == (A :> {<<a1>>}) @@ (a1 :> {<<>>}) @@ (X :> {<<>>})
MCRootLists == {<<A>>, <<X>>}
MCSchemaOf == [r \in Results |-> noSchema]
MCReadBack == [r \in Results |-> r]

(* Too big, splittable. *)
MCExceptions ==
    {[oom |-> FALSE, split |-> TRUE, transient |-> FALSE, badRetryAfter |-> FALSE]}
(* The root itself, or a directory that is missing or not, under one mounted on     *)
(* the root's volume.  Windows mounts local volumes in folders of NTFS ones.       *)
On(volume) == [exists |-> TRUE, volume |-> volume]
MissingOn(volume) == [exists |-> FALSE, volume |-> volume]
Ext == [os |-> "linux", magic |-> "ext"]
Hfs == [os |-> "macos", field |-> <<"h", "f", "s">> \o [n \in 1 .. NameLen - 3 |-> NUL]]
NtfsDrives == [os : {"windows"}, drive : {2, 3}, name : {"ntfs"}]
NotReady == [os : {"windows"}, drive : 1 .. 5, name : {"error"}]

LinuxMounts == {v \in Volumes : v.os = "linux"} \X {Ext}
MacosMounts == {Hfs, [os |-> "macos", field |-> <<>>]} \X {Hfs}
WindowsMounts ==
    [os : {"windows"}, drive : {2, 3, 5}, name : {"ntfs", "fat32", "", "error"}] \X NtfsDrives

MCPaths ==
    {<<On(volume)>> : volume \in Volumes}
      \cup {<<MissingOn(m[2]), On(m[1]), On(m[2])>> : m \in LinuxMounts \cup MacosMounts \cup WindowsMounts}
      \cup {<<On(Ext), On(m[1]), On(m[2])>> : m \in LinuxMounts}
      \cup {<<On(m[1]), On(m[1]), On(m[2])>> : m \in WindowsMounts}
      \cup {<<MissingOn(root), MissingOn(root)>> : root \in NotReady}

MCGenerations == 1 .. 6
=============================================================================
