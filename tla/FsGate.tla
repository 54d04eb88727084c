--------------------------------- MODULE FsGate ---------------------------------
(***************************************************************************)
(* fs_cache_enabled (durability.py): whether the file system of a path may    *)
(* hold a cache.  The caller asks before it opens a store.                   *)
(*                                                                         *)
(* A volume is what the operating system answers when asked about it:         *)
(*   linux     the statfs magic, by name, or "error";                         *)
(*   windows   the drive type 0 .. 6 and the name of the file system, "" if   *)
(*             there is none, or "error";                                     *)
(*   macos     the f_fstypename field, NameLen characters, or <<>> if statfs  *)
(*             fails.                                                        *)
(* The characters are letters, "_", NUL, and Odd for any other.  Letters that  *)
(* occur in no name of the allowlist are left out.                            *)
(***************************************************************************)
EXTENDS Naturals, Sequences

CONSTANT NameLen    \* 16 in Darwin's struct statfs

Letters == {"h", "f", "s", "H"}
NUL == "NUL"
Odd == "odd"

FsPolicies == {"FAIL_CLOSED", "REQUIRE", "ALLOW"}
DURABLE_FS_ALLOWLIST == {"ext", "ext4", "xfs", "ntfs", "apfs", "hfs"}
FsMagic == {"ext", "xfs", "btrfs", "tmpfs", "overlay", "nfs", "cifs", "fuse"}
Unknown == "unknown"

Volumes ==
    [os : {"linux"}, magic : FsMagic \cup {"other", "error"}]
      \cup [os : {"windows"}, drive : 0 .. 6, name : {"ntfs", "fat32", "", "error"}]
      \cup [os : {"macos"}, field : {<<>>} \cup [1 .. NameLen -> Letters \cup {"_", NUL, Odd}]]

(* A path: its real directories from the cache directory up to the root, each   *)
(* with the volume it is on; the upper ones may be the only ones that exist.    *)
Root(path) == path[Len(path)]

(* _nearest_existing: the lowest that exists, at the latest the root. *)
NearestExisting(path) ==
    LET there == {i \in DOMAIN path : path[i].exists} IN
    path[IF there = {} THEN Len(path) ELSE CHOOSE i \in there : \A j \in there : i <= j]

(* GetDriveTypeW, then GetVolumeInformationW. *)
DriveFsType(volume) ==
    CASE volume.drive = 4 -> "network"
      [] volume.drive \in {2, 5, 6} -> "removable"
      [] volume.drive \in {0, 1} -> Unknown
      [] OTHER -> IF volume.name \in {"", "error"} THEN Unknown ELSE volume.name

(* _resolve_fs_type_windows asks about the root of the drive that the nearest    *)
(* directory is named under, which is the root of the path, and not about the    *)
(* directory: a volume may be mounted in a folder of another drive.              *)
WindowsFsType(path) == DriveFsType(Root(path).volume)

(* The string that letters spell, in lower case. *)
Spelled(letters) ==
    LET lower == [i \in DOMAIN letters |-> IF letters[i] = "H" THEN "h" ELSE letters[i]] IN
    IF lower = <<"h", "f", "s">> THEN "hfs" ELSE "another name"

(* A mutant: what follows the first NUL is not looked at. *)
MacosFsTypeUnpadded(volume) ==
    LET field == volume.field
        ends == {i \in DOMAIN field : field[i] = NUL}
        nul == CHOOSE i \in ends : \A j \in ends : i <= j
        name == SubSeq(field, 1, nul - 1)
    IN IF \/ ends = {} \/ name = <<>>
          \/ \E i \in DOMAIN name : name[i] = Odd
       THEN Unknown ELSE Spelled(name)

(* _statfs_fstypename_macos: a name of letters and underscores, not only of      *)
(* these, a NUL, and nothing but NULs behind it.                                *)
MacosFsType(volume) ==
    LET field == volume.field
        ends == {i \in DOMAIN field : field[i] = NUL}
        nul == CHOOSE i \in ends : \A j \in ends : i <= j
        name == SubSeq(field, 1, nul - 1)
    IN IF \/ ends = {} \/ name = <<>>
          \/ \E i \in nul .. Len(field) : field[i] # NUL
          \/ \E i \in DOMAIN name : name[i] = Odd
          \/ \A i \in DOMAIN name : name[i] = "_"
       THEN Unknown ELSE Spelled(name)

LinuxFsType(volume) == IF volume.magic \in FsMagic THEN volume.magic ELSE Unknown

(* resolve_fs_type *)
ResolveFsType(path) ==
    LET volume == NearestExisting(path).volume IN
    CASE volume.os = "windows" -> WindowsFsType(path)
      [] volume.os = "macos" -> MacosFsType(volume)
      [] volume.os = "linux" -> LinuxFsType(volume)

(* fs_cache_enabled: TRUE, FALSE, or the FsUnsupportedError it raises. *)
FsCacheEnabled(path, policy) ==
    CASE ResolveFsType(path) \in DURABLE_FS_ALLOWLIST -> "yes"
      [] OTHER -> CASE policy = "REQUIRE" -> "raises"
                    [] policy = "ALLOW" -> "yes"
                    [] policy = "FAIL_CLOSED" -> "no"

(* The cache directory will lie in directory i, the lowest there is. *)
LiesIn(path, i) == path[i].exists /\ \A j \in 1 .. i - 1 : ~path[j].exists

(* ... on a volume that is mounted in a folder of another Windows drive. *)
FolderMounted(path) ==
    \E i \in DOMAIN path :
        /\ LiesIn(path, i)
        /\ path[i].volume.os = "windows" /\ path[i].volume # Root(path).volume

(* Whether files are really replaced atomically where the cache directory will    *)
(* lie: on a fixed NTFS volume, a Linux file system of that kind, a Darwin one     *)
(* whose whole field is the name.                                               *)
ReallyDurable(path) ==
    \E i \in DOMAIN path :
        /\ LiesIn(path, i)
        /\ LET volume == path[i].volume IN
           \/ volume.os = "linux" /\ volume.magic \in {"ext", "xfs"}
           \/ volume.os = "windows" /\ volume.drive = 3 /\ volume.name = "ntfs"
           \/ volume.os = "macos" /\ \E h \in {"h", "H"} :
                volume.field = <<h, "f", "s">> \o [n \in 1 .. NameLen - 3 |-> NUL]
=============================================================================
