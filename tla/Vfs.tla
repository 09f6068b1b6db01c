-------------------------------- MODULE Vfs --------------------------------
(***************************************************************************)
(* The virtual file system (kernel/kern/fs_vfs.c, fs_fsops.c, fs_path.c)   *)
(* with its three file systems: the root file system, which lists the      *)
(* volumes (fs_vfs.c), the device file system (fs_devfs.c) and tarfs.      *)
(*                                                                         *)
(* malloc gives out the address of any volume that is not in use, those of *)
(* freed volumes included; a freed volume keeps its contents until then.   *)
(* The other objects that the code allocates are never confused, and are   *)
(* values.  Allocations may fail, and failed counts the times that the    *)
(* code went on as if one had not.                                         *)
(***************************************************************************)
EXTENDS Tarfs

CONSTANTS Vols,       \* addresses of vfs_volume_t objects
          Archives,   \* the archives in memory, a sequence
          Devices,    \* the device_t objects, a sequence
          Drivers,    \* the devices that the drivers install at boot
          Modules,    \* what the boot loader may have loaded: see ramdisk_init
          MountCalls, \* calls of vfs_mount: family, name, archive
          Losses,     \* sets of members that may find no memory
          MaxFailed,  \* bound: the failed allocations that are ignored
          DevNames, VolNames, Paths,
          ClientPaths   \* the paths that a client keeps the node of

ASSUME VfsAssumption ==
  /\ 0 \notin Vols /\ {} \in Losses /\ MaxFailed \in Nat
  /\ Paths \cup ClientPaths \subseteq Seq(STRING \ {"NULL"})

\* The archives are as tar writes them: the header of a member states its length, and
\* lookup_vnode leaves no slash before or after its path.  Those that are mounted are
\* in memory.
ASSUME ArchivesAssumption ==
  /\ Archives \in Seq(Seq([name : Seq(STRING), type : STRING, length : Nat, size : Seq(0 .. 7)]))
  /\ \A a \in DOMAIN Archives : \A i \in DOMAIN Archives[a] :
       LET path == Normal(Archives[a][i].name)
       IN  /\ octal2int(Archives[a][i].size) = Archives[a][i].length
           /\ Positions(path, "/") \cap {1, Len(path)} = {}
  /\ \A mods \in Modules : mods # <<>> => mods[1].archive \in DOMAIN Archives
  /\ \A c \in MountCalls : c.family = "tarfs" => c.archive \in DOMAIN Archives

\* The drivers of the kernel flag their devices as character or block devices,
\* give them an open function, and name them by one component of a path.
ASSUME DevicesAssumption ==
  /\ Devices \in Seq([name : Seq(STRING), flags : {VN_FCHARDEV, VN_FBLOCKDEV}, ops : SUBSET STRING])
  /\ \A d \in DOMAIN Devices : "open" \in Devices[d].ops
  /\ Drivers \in Seq(DOMAIN Devices) \ {<<>>}
  /\ \A name \in DevNames \cup {Devices[d].name : d \in DOMAIN Devices} :
       name \in Seq(STRING \ {"NULL", "/"}) \ {<<>>}

VARIABLES vol,           \* the memory of the volumes
          vfs_volumes, vfs_drivers,
          rootfs_nodes,
          rootfs_vol,    \* rootfs_root.vn_volume
          devmgr_list,
          devfs_vol,     \* devfs_rootdir.vn_volume, 0 for NULL
          pc,            \* how far kernel_main is
          driver,        \* the driver that device_init has come to
          freed,         \* auxiliary: free has been called
          failed,        \* auxiliary: the failed allocations that were ignored
          held,          \* auxiliary: a node that a client has looked up and may use,
                         \* with the volume it came from
          installed      \* auxiliary: the devices that device_install accepted

tables == <<vfs_volumes, vfs_drivers, rootfs_nodes, rootfs_vol, devmgr_list, devfs_vol>>
vars == <<vol, tables, pc, driver, freed, failed, held, installed>>

----------------------------------------------------------------------------
(* Nodes *)

Node(of, name, flags, volume, payload) ==
  [of |-> of, name |-> name, flags |-> flags, volume |-> volume, payload |-> payload]

Null == Node("none", <<>>, 0, 0, 0)

\* rootfs_root and devfs_rootdir are static; the variables above have the field
\* of theirs that changes.
rootfs_root == Node("rootfs", <<>>, VN_FDIR, 0, 0)
devfs_rootdir == Node("devfs", <<>>, VN_FDIR, 0, 0)

\* A pointer that was never stored: payload->root in memory used before.
\* reassemble_nodes stores a root only where it finds NULL, so that the volume keeps
\* the old pointer whether its archive has a root or not.
Wild == Node("wild", <<>>, 0, 0, 0)

vn_volume(n) ==
  IF n = rootfs_root THEN rootfs_vol ELSE IF n = devfs_rootdir THEN devfs_vol ELSE n.volume

\* The file system whose operations NODE_OPS(n) names
NODE_OPS(n) == IF n = Null \/ vn_volume(n) = 0 THEN "none" ELSE vol[vn_volume(n)].family

\* The nodes that tarfs_mount makes of each archive
Trees == [a \in DOMAIN Archives |-> [lost \in Losses |-> init_nodes(Archives[a], lost)]]

Tree(v) == Trees[vol[v].archive][vol[v].lost]

TarNode(v, i) ==
  IF i = 0 THEN Null
  ELSE LET t == Tree(v)[i] IN Node("tarfs", t.name, t.flags, v, i)

\* rootfs_finddir, devfs_finddir: the first entry with the name
FirstNamed(nodes, name) ==
  LET i == First({k \in DOMAIN nodes : nodes[k].name = name}) IN IF i = 0 THEN Null ELSE nodes[i]

\* rootfs_readdir, devfs_readdir; the index counts from 0.
Nth(nodes, index) == IF index < Len(nodes) THEN nodes[index + 1] ELSE Null

\* The members of the volume of n whose vn_parent is n
Children(n) ==
  {i \in DOMAIN Tree(vn_volume(n)) : n.of = "tarfs" /\ Tree(vn_volume(n))[i].parent = n.payload}

tarfs_finddir(n, name) ==
  LET found == {i \in Children(n) : Tree(vn_volume(n))[i].name = name}
  IN  IF found = {} THEN Null ELSE TarNode(vn_volume(n), Min(found))

tarfs_readdir(n, index) ==
  LET rest == {i \in Children(n) : Cardinality({j \in Children(n) : j < i}) = index}
  IN  IF rest = {} THEN Null ELSE TarNode(vn_volume(n), Min(rest))

fs_finddir(n, name) ==
  IF n.flags # VN_FDIR THEN Null
  ELSE CASE NODE_OPS(n) = "rootfs" -> FirstNamed(rootfs_nodes, name)
         [] NODE_OPS(n) = "devfs" -> FirstNamed(devmgr_list, name)
         [] NODE_OPS(n) = "tarfs" -> tarfs_finddir(n, name)
         [] OTHER -> Null

fs_readdir(n, index) ==
  IF n.flags # VN_FDIR THEN Null
  ELSE CASE NODE_OPS(n) = "rootfs" -> Nth(rootfs_nodes, index)
         [] NODE_OPS(n) = "devfs" -> Nth(devmgr_list, index)
         [] NODE_OPS(n) = "tarfs" -> tarfs_readdir(n, index)
         [] OTHER -> Null

\* The member of the ops tables and of the device that a call reaches: the file
\* system, the device for devfs, and the operation.  Refused is -1.
Refused == <<"refused", 0, "">>

devfs_call(n, op) ==
  IF n.payload # 0 /\ op \in Devices[n.payload].ops THEN <<"devfs", n.payload, op>> ELSE Refused

FsOps == [rootfs |-> {"open", "close", "read"},
          devfs |-> {"open", "close", "read", "write", "ioctl"},
          tarfs |-> {"open", "close", "read"},
          none |-> {}]

\* fs_open, fs_close, fs_read, fs_write, fs_ioctl
Dispatch(n, op) ==
  IF /\ op \in FsOps[NODE_OPS(n)]
     /\ n.flags \in {VN_FCHARDEV, VN_FBLOCKDEV} \cup (IF op = "ioctl" THEN {} ELSE {VN_FREGFILE})
  THEN IF NODE_OPS(n) = "devfs" THEN devfs_call(n, op) ELSE <<NODE_OPS(n), 0, op>>
  ELSE Refused

----------------------------------------------------------------------------
(* Paths *)

find_mountpoint_by_name(name) ==
  LET i == First({k \in DOMAIN vfs_volumes : vol[vfs_volumes[k]].name = name})
  IN  IF i = 0 THEN 0 ELSE vfs_volumes[i]

vfs_get_volume(name) ==
  LET v == find_mountpoint_by_name(name) IN IF v = 0 THEN Null ELSE vol[v].root

\* One component of a path.  Where it is missing, the code reads the flags of
\* address 0 and either gives up or goes on from NULL, in which nothing is found.
Follow(at) ==
  LET cut == strsep(at.path, "/")
      node == fs_finddir(at.node, cut.out)
  IN  IF cut.rest # NoString /\ (node = Null \/ (node.flags \div 2) % 2 = 0)
      THEN [node |-> Null, path |-> NoString] ELSE [node |-> node, path |-> cut.rest]

\* Its calls of itself are turns here; there is one for each component.
fs_follow_path(root, path) ==
  LET turn[i \in 0 .. Len(path) + 1] ==
        IF i = 0 THEN [node |-> root, path |-> path]
        ELSE LET at == turn[i - 1] IN IF at.path = NoString THEN at ELSE Follow(at)
  IN  turn[Len(path) + 1].node

\* Without a slash after the colon the volume's root is returned.  What a wild
\* root leads to is wild.
fs_resolve(path) ==
  LET cut == strsep(path, ":")
      root == IF cut.rest = NoString THEN Null ELSE vfs_get_volume(cut.out)
  IN  IF root = Null \/ root = Wild \/ ~Begins(cut.rest, <<"/">>) \/ Len(cut.rest) = 1 THEN root
      ELSE fs_follow_path(root, Tail(cut.rest))

----------------------------------------------------------------------------
(* Volumes *)

\* The code goes on after n failures.
Ignores(n) == failed' = failed + n /\ failed' <= MaxFailed

\* A client has no node.
Nothing == [node |-> Null, via |-> 0]

Object(live, name, family, root, archive, lost) ==
  [live |-> live, name |-> name, family |-> family, root |-> root,
   archive |-> archive, lost |-> lost]

\* A freed volume keeps what a stale pointer to it could still read.
Freed(family, archive, lost) == Object(FALSE, <<>>, family, Null, archive, lost)

Unused == Freed("none", 0, {})

\* Mutant: devfs can be mounted again.
Mountable_Again(family) == family \in {"tarfs", "devfs"}

\* rootfs_mount and devfs_mount accept one volume in the life of the system.
Mountable(family) == family = "tarfs" \/ (family = "devfs" /\ devfs_vol = 0)

MayFail == TRUE   \* malloc, at any call

\* vfs_mount returns before it changes anything: the name is taken, there is no
\* such driver, or no memory for the volume.
MountRefused(family, name) ==
  /\ find_mountpoint_by_name(name) # 0 \/ family \notin Range(vfs_drivers) \/ MayFail
  /\ UNCHANGED <<vol, tables, freed, failed, held>>

\* Mutant: devfs_mount stores the volume before it looks for an earlier one.
MountFails_StoresFirst(family, name, v) ==
  /\ find_mountpoint_by_name(name) = 0
  /\ family \in Range(vfs_drivers)
  /\ ~vol[v].live
  /\ family = "tarfs" \/ ~Mountable(family)
  /\ vol' = [vol EXCEPT ![v] = Freed(family, 0, {})]
  /\ devfs_vol' = IF family = "devfs" THEN v ELSE devfs_vol
  /\ freed' = TRUE
  /\ UNCHANGED <<vfs_volumes, vfs_drivers, rootfs_nodes, rootfs_vol, devmgr_list, failed, held>>

\* fsd_mount fails, for tarfs because it finds no memory.
MountFails(family, name, v) ==
  /\ find_mountpoint_by_name(name) = 0
  /\ family \in Range(vfs_drivers)
  /\ ~vol[v].live
  /\ family = "tarfs" \/ ~Mountable(family)
  /\ vol' = [vol EXCEPT ![v] = Freed(family, 0, {})]
  /\ freed' = TRUE
  /\ UNCHANGED <<tables, failed, held>>

\* tarfs_mount: the root it finds, or what the field root held before.
TarRoots(v, archive, lost) ==
  LET i == RootMember(Archives[archive], lost)
      t == Trees[archive][lost]
      found == IF i = 0 THEN Null ELSE Node("tarfs", t[i].name, t[i].flags, v, i)
  IN  {found} \cup (IF freed THEN {Wild} ELSE {})

rootfs_register_volume(nodes, v, name, fails) ==
  IF fails THEN nodes ELSE Append(nodes, Node("rootfs", name, VN_FREGFILE, rootfs_vol, v))

\* vfs_mount succeeds; either list_append may fail and is ignored, and so may the
\* allocations for the members in lost.
MountSucceeds(family, name, v, archive, lost, unlisted, unregistered) ==
  /\ find_mountpoint_by_name(name) = 0
  /\ family \in Range(vfs_drivers)
  /\ ~vol[v].live
  /\ Mountable(family)
  /\ \E root \in IF family = "tarfs" THEN TarRoots(v, archive, lost) ELSE {devfs_rootdir} :
       vol' = [vol EXCEPT ![v] =
                 Object(TRUE, name, family, root, archive, lost)]
  /\ devfs_vol' = IF family = "devfs" THEN v ELSE devfs_vol
  /\ vfs_volumes' = IF unlisted THEN vfs_volumes ELSE Append(vfs_volumes, v)
  /\ rootfs_nodes' = rootfs_register_volume(rootfs_nodes, v, name, unregistered)
  /\ Ignores((IF unlisted THEN 1 ELSE 0) + (IF unregistered THEN 1 ELSE 0) + (IF lost # {} THEN 1 ELSE 0))
  /\ freed' = (freed \/ family = "tarfs")     \* reassemble_nodes frees its strings
  /\ UNCHANGED <<vfs_drivers, rootfs_vol, devmgr_list, held>>

vfs_mount(family, name, archive) ==
  \/ MountRefused(family, name)
  \/ \E v \in Vols :
       \/ MountFails(family, name, v)
       \/ \E lost \in IF family = "tarfs" THEN Losses ELSE {{}},
             unlisted, unregistered \in BOOLEAN :
            MountSucceeds(family, name, v, archive, lost, unlisted, unregistered)

\* A list without its i-th element
Without(list, i) == SubSeq(list, 1, i - 1) \o SubSeq(list, i + 1, Len(list))

list_delete(list, x) ==
  LET i == First({k \in DOMAIN list : list[k] = x}) IN IF i = 0 THEN list ELSE Without(list, i)

\* Mutant: the entry of the volume stays in the root directory.
rootfs_unregister_volume_Keeps(nodes, v) == nodes

\* The first entry with the name goes, whichever volume it stands for.
rootfs_unregister_volume(nodes, v) ==
  LET i == First({k \in DOMAIN nodes : nodes[k].name = vol[v].name})
  IN  IF i = 0 THEN nodes ELSE Without(nodes, i)

vfs_umount(name) ==
  LET v == find_mountpoint_by_name(name)
  IN  /\ v # 0
      /\ rootfs_nodes' = rootfs_unregister_volume(rootfs_nodes, v)
      /\ vfs_volumes' = list_delete(vfs_volumes, v)
      /\ vol' = [vol EXCEPT ![v] = Freed(vol[v].family, vol[v].archive, vol[v].lost)]
      /\ freed' = TRUE
      /\ held' = IF held.via = v THEN Nothing ELSE held
      /\ UNCHANGED <<vfs_drivers, rootfs_vol, devmgr_list, devfs_vol, failed>>

----------------------------------------------------------------------------
(* Devices *)

\* Mutant: the name is not looked up.
NameTaken_Unchecked(name) == FALSE

NameTaken(name) == FirstNamed(devmgr_list, name) # Null     \* devfs_finddir(0, name)

\* It returns -2 or -1.
InstallRefused(name) ==
  /\ NameTaken(name) \/ MayFail
  /\ UNCHANGED <<vol, tables, freed, failed, held, installed>>

\* device_install accepts the device; list_append may fail and is ignored.
device_install(d, name, unlisted) ==
  /\ ~NameTaken(name)
  /\ devmgr_list' =
       IF unlisted THEN devmgr_list
       ELSE Append(devmgr_list, Node("devfs", name, Devices[d].flags, devfs_vol, d))
  /\ installed' = installed \cup {<<name, d>>}
  /\ Ignores((IF unlisted THEN 1 ELSE 0) + (IF devfs_vol = 0 THEN 1 ELSE 0))
  /\ UNCHANGED <<vol, vfs_volumes, vfs_drivers, rootfs_nodes, rootfs_vol, devfs_vol, freed, held>>

device_remove(name) ==
  LET n == FirstNamed(devmgr_list, name)
  IN  /\ n # Null
      /\ devmgr_list' = list_delete(devmgr_list, n)
      /\ freed' = TRUE
      /\ installed' = {x \in installed : x[1] # name}
      /\ held' = IF held.node = n THEN Nothing ELSE held
      /\ UNCHANGED <<vol, vfs_volumes, vfs_drivers, rootfs_nodes, rootfs_vol, devfs_vol, failed>>

----------------------------------------------------------------------------
(* The system *)

\* vfs_init: the driver of rootfs is registered, ROOT is mounted and lists
\* itself; then all the drivers are registered, rootfs again.
Init ==
  /\ vfs_drivers = <<"rootfs", "rootfs", "devfs", "tarfs">>
  /\ \E v \in Vols :
       /\ vol = [w \in Vols |-> IF w # v THEN Unused
                                ELSE Object(TRUE, <<"ROOT">>, "rootfs", rootfs_root, 0, {})]
       /\ vfs_volumes = <<v>>
       /\ rootfs_vol = v
       /\ rootfs_nodes = <<Node("rootfs", <<"ROOT">>, VN_FREGFILE, v, v)>>
  /\ devmgr_list = <<>>
  /\ devfs_vol = 0
  /\ pc = "device_init"
  /\ driver = 1
  /\ freed = FALSE
  /\ failed = 0
  /\ held = Nothing
  /\ installed = {}

\* device_init mounts DEV, whatever comes of it,
DeviceInit ==
  /\ pc = "device_init"
  /\ vfs_mount("devfs", <<"DEV">>, 0)
  /\ pc' = "drivers"
  /\ UNCHANGED <<driver, installed>>

\* and every driver installs its device, whatever comes of it.
DriverInit ==
  /\ pc = "drivers"
  /\ LET d == Drivers[driver]
     IN  \/ InstallRefused(Devices[d].name)
         \/ \E unlisted \in BOOLEAN : device_install(d, Devices[d].name, unlisted)
  /\ IF driver < Len(Drivers) THEN driver' = driver + 1 /\ pc' = pc
     ELSE driver' = driver /\ pc' = "ramdisk_init"

\* The loader has left the modules mods.  Every turn of the loop tests the first.
ramdisk_init(mods) ==
  /\ pc = "ramdisk_init"
  /\ IF mods # <<>> /\ mods[1].string = "ramdisk"
     THEN vfs_mount("tarfs", <<"INITRD">>, mods[1].archive)
     ELSE UNCHANGED <<vol, tables, freed, failed, held>>
  /\ pc' = "run"
  /\ UNCHANGED <<driver, installed>>

Running == pc = "run" /\ UNCHANGED <<pc, driver>>

Mount(family, name, archive) ==
  Running /\ vfs_mount(family, name, archive) /\ UNCHANGED installed

Umount(name) == Running /\ vfs_umount(name) /\ UNCHANGED installed

Install(d, name, unlisted) == Running /\ device_install(d, name, unlisted)

Uninstall(name) == Running /\ device_remove(name)

\* A client looks a path up and keeps the node, if there is one.  fs_resolve frees its
\* copy of the path, unless it found no memory for one.
Resolve(path) ==
  /\ Running
  /\ \/ MayFail /\ held' = Nothing /\ UNCHANGED freed
     \/ /\ held' = IF fs_resolve(path) = Null THEN Nothing
                   ELSE [node |-> fs_resolve(path),
                         via |-> find_mountpoint_by_name(strsep(path, ":").out)]
        /\ freed' = TRUE
  /\ UNCHANGED <<vol, tables, failed, installed>>

\* It goes on to an entry of the directory it has.
Readdir(index) ==
  /\ Running
  /\ held.node # Wild
  /\ fs_readdir(held.node, index) # Null
  /\ held' = [held EXCEPT !.node = fs_readdir(held.node, index)]
  /\ UNCHANGED <<vol, tables, freed, failed, installed>>

Next ==
  \/ DeviceInit \/ DriverInit
  \/ \E mods \in Modules : ramdisk_init(mods)
  \/ \E c \in MountCalls : Mount(c.family, c.name, c.archive)
  \/ \E name \in VolNames : Umount(name)
  \/ \E d \in DOMAIN Devices, name \in DevNames, unlisted \in BOOLEAN : Install(d, name, unlisted)
  \/ \E name \in DevNames : Uninstall(name)
  \/ \E path \in ClientPaths : Resolve(path)
  \/ \E index \in {0, 1} : Readdir(index)

Spec == Init /\ [][Next]_vars

----------------------------------------------------------------------------
(* Properties *)

NamesOf(seq) == [i \in DOMAIN seq |-> seq[i].name]

\* The root directory lists exactly the mounted volumes, in the order in which
\* they were mounted (vfs_mount, vfs_umount, rootfs_register_volume and
\* rootfs_unregister_volume keep two lists), and every listed volume is in use,
\* as long as no failed list_append was ignored.
TablesAgree ==
  failed = 0 =>
    /\ NamesOf(rootfs_nodes) = [i \in DOMAIN vfs_volumes |-> vol[vfs_volumes[i]].name]
    /\ \A i \in DOMAIN vfs_volumes :
         rootfs_nodes[i].payload = vfs_volumes[i] /\ vol[vfs_volumes[i]].live

\* A call on a node is refused, or reaches the file system that made the node,
\* through a volume that is in use, and for a device that very device.
Safe(n) ==
  \/ vn_volume(n) = 0
  \/ /\ vol[vn_volume(n)].live
     /\ vol[vn_volume(n)].family = n.of
     /\ \A op \in FsOps.devfs :
          LET reached == Dispatch(n, op)
          IN  \/ reached = Refused
             \/ /\ reached[1] = n.of
                /\ n.of = "devfs" => reached[2] = n.payload /\ n.payload # 0

\* Whatever was mounted, unmounted, installed and removed before, and whichever
\* allocations failed, fs_resolve never returns a node of a volume that was
\* freed: the static directories of rootfs and devfs keep pointing to theirs
\* (vfs_umount does not clear vn_volume), but cannot be reached any more.  Paths into
\* a volume whose root is Wild are left out: they lead nowhere (see ResolvedIsNode).
ResolvedIsSafe ==
  \A n \in {fs_resolve(path) : path \in Paths} \ {Null, Wild} : Safe(n)

\* vfs.h: fs_resolve returns "a pointer to the found node or NULL if not found", and so
\* never the pointer that tarfs_mount took from memory used before.
ResolvedIsNode == \A path \in Paths : fs_resolve(path) # Wild

\* A node that a client has looked up, if it is one (not Wild), stays good until the
\* volume it came from is unmounted or the device is removed; no other call voids it.
HeldIsSafe ==
  held.node \notin {Null, Wild} =>
    /\ Safe(held.node)
    /\ held.node.of = "devfs" /\ held.node # devfs_rootdir => held.node \in Range(devmgr_list)

\* Every device that device_install accepted and nobody removed is found under
\* its name while DEV is mounted, and opening it opens that device, as long as no
\* failed allocation was ignored.
InstalledIsFound ==
  LET dev == find_mountpoint_by_name(<<"DEV">>)
  IN  failed = 0 /\ dev # 0 /\ vol[dev].family = "devfs" =>
        \A x \in installed :
          Dispatch(fs_resolve(<<"DEV", ":", "/">> \o x[1]), "open") = <<"devfs", x[2], "open">>

\* The member of an archive that a path names: the first with that path, if
\* everything above it is a directory.
IsDirectory(archive, path) ==
  LET i == First({k \in DOMAIN archive : Normal(archive[k].name) = path})
  IN  i # 0 /\ archive[i].type = "5"

Named(archive, path) ==
  IF /\ IsDirectory(archive, <<>>)
     /\ \A i \in Positions(path, "/") : IsDirectory(archive, SubSeq(path, 1, i - 1))
  THEN First({k \in DOMAIN archive : Normal(archive[k].name) = path}) ELSE 0

\* In a volume whose root tarfs_mount stored, and whose members all found memory,
\* fs_resolve finds a path exactly when the archive has it, wherever in the archive
\* the directories are and whatever the sizes of the members before (init_nodes,
\* reassemble_nodes, fs_follow_path); and reading the file gives as many bytes as it
\* has from there on (octal2int, tarfs_read).  A volume mounted in memory used before
\* may have the root Wild, also when its archive has one: nothing is said of it here.
ResolveAgrees ==
  \A path \in Paths :
    LET v == find_mountpoint_by_name(strsep(path, ":").out)
        rest == strsep(path, ":").rest
        n == fs_resolve(path)
        archive == Archives[vol[v].archive]
        m == Named(archive, SubSeq(rest, 2, Len(rest)))
    IN  rest # NoString /\ v # 0 /\ Len(rest) > 1 /\ rest[1] = "/" =>
          (vol[v].family = "tarfs" /\ vol[v].lost = {} /\ vol[v].root # Wild =>
             /\ (n = Null) = (m = 0)
             /\ m # 0 =>
                  /\ Tree(v)[n.payload].member = m
                  /\ \A offt \in BLOCK - 1 .. BLOCK + 1, len \in 0 .. 2 :
                       tarfs_read(octal2int(archive[m].size), offt, len)
                         = Cardinality({i \in offt .. offt + len - 1 : i < archive[m].length}))
=============================================================================
