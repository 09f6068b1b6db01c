----------------------------- MODULE VfsProofs ------------------------------
(***************************************************************************)
(* What the virtual file system guarantees for every number of volumes,    *)
(* devices and archives, every path, and whichever allocations fail.       *)
(***************************************************************************)
EXTENDS Vfs, TarfsProofs

----------------------------------------------------------------------------
(* Lists *)

\* An element is removed.
LEMMA WithoutIs ==
  ASSUME NEW s, IsSeq(s), NEW k \in 1 .. Len(s)
  PROVE  LET t == Without(s, k)
         IN  /\ IsSeq(t) /\ Len(t) = Len(s) - 1
             /\ \A i \in 1 .. Len(t) : t[i] = s[IF i < k THEN i ELSE i + 1]
<1> DEFINE A == {s[i] : i \in DOMAIN s}
           p == SubSeq(s, 1, k - 1)
           q == SubSeq(s, k + 1, Len(s))
           t == Without(s, k)
<1>1. s \in Seq(A) /\ Len(s) \in Nat /\ k \in Nat /\ k >= 1 /\ k <= Len(s)
  BY SeqFacts DEF IsSeq
<1> HIDE DEF A
<1>2. p \in Seq(A) /\ Len(p) = k - 1 /\ \A i \in 1 .. k - 1 : p[i] = s[i]
  BY <1>1
<1>3. q \in Seq(A) /\ Len(q) = Len(s) - k /\ \A i \in 1 .. Len(s) - k : q[i] = s[k + i]
  BY <1>1
<1>4. t = p \o q
  BY DEF Without
<1> HIDE DEF p, q, t
<1>5. t \in Seq(A) /\ Len(t) = Len(s) - 1
  <2>1. t \in Seq(A) /\ Len(t) = Len(p) + Len(q)
    BY ONLY <1>2, <1>3, <1>4, ConcatIs
  <2> QED BY <1>1, <1>2, <1>3, <2>1
<1>6. ASSUME NEW i \in 1 .. Len(t) PROVE t[i] = s[IF i < k THEN i ELSE i + 1]
  <2>1. CASE i < k
    BY <1>1, <1>2, <1>3, <1>4, <1>5, <2>1
  <2>2. CASE ~(i < k)
    <3>1. i - (k - 1) \in 1 .. Len(s) - k /\ k + (i - (k - 1)) = i + 1
      BY <1>1, <1>5, <2>2
    <3>2. t[i] = q[i - (k - 1)]
      BY <1>1, <1>2, <1>3, <1>4, <1>5, <2>2
    <3>3. q[i - (k - 1)] = s[k + (i - (k - 1))]
      BY <1>3, <3>1
    <3> QED BY <2>2, <3>1, <3>2, <3>3
  <2> QED BY <2>1, <2>2
<1>7. IsSeq(t)
  BY <1>5, SeqIs
<1> QED BY <1>5, <1>6, <1>7 DEF t

\* list_delete removes one of the elements that are e.
LEMMA ListDeleteIs ==
  ASSUME NEW s, IsSeq(s), NEW e, NEW j \in 1 .. Len(s), s[j] = e
  PROVE  \E k \in 1 .. Len(s) : s[k] = e /\ list_delete(s, e) = Without(s, k)
<1> DEFINE I == {i \in DOMAIN s : s[i] = e}
           m == First(I)
<1>1. I \subseteq Nat \ {0} /\ I # {}
  BY SeqFacts
<1>2. list_delete(s, e) = IF m = 0 THEN s ELSE Without(s, m)
  BY DEF list_delete
<1>3. m \in I /\ m # 0
  BY <1>1, FirstIs
<1> QED BY <1>2, <1>3, SeqFacts

NamedAt(s, name) == First({k \in DOMAIN s : s[k].name = name})

\* FirstNamed finds an entry with the name if there is one.
LEMMA FirstNamedIs ==
  ASSUME NEW s, IsSeq(s), NEW name
  PROVE  \/ /\ \A i \in 1 .. Len(s) : s[i].name # name
            /\ FirstNamed(s, name) = Null /\ NamedAt(s, name) = 0
         \/ /\ NamedAt(s, name) \in 1 .. Len(s) /\ NamedAt(s, name) # 0
            /\ s[NamedAt(s, name)].name = name /\ FirstNamed(s, name) = s[NamedAt(s, name)]
<1> DEFINE I == {k \in DOMAIN s : s[k].name = name}
           m == First(I)
<1>1. I \subseteq Nat \ {0} /\ DOMAIN s = 1 .. Len(s)
  BY SeqFacts
<1>2. FirstNamed(s, name) = IF m = 0 THEN Null ELSE s[m]
  BY DEF FirstNamed
<1>3. (I = {} /\ m = 0) \/ (m \in I /\ m # 0)
  BY <1>1, FirstIs
<1> QED BY <1>1, <1>2, <1>3 DEF NamedAt

\* So does find_mountpoint_by_name, in the list of the volumes.
LEMMA MountpointIs ==
  ASSUME NEW name, IsSeq(vfs_volumes), \A i \in 1 .. Len(vfs_volumes) : vfs_volumes[i] # 0
  PROVE  LET v == find_mountpoint_by_name(name)
         IN  \/ v = 0 /\ \A i \in 1 .. Len(vfs_volumes) : vol[vfs_volumes[i]].name # name
             \/ \E k \in 1 .. Len(vfs_volumes) :
                  /\ v = vfs_volumes[k] /\ v # 0 /\ vol[v].name = name
                  /\ \A i \in 1 .. Len(vfs_volumes) : vol[vfs_volumes[i]].name = name => k <= i
<1> DEFINE I == {k \in DOMAIN vfs_volumes : vol[vfs_volumes[k]].name = name}
           m == First(I)
<1>1. I \subseteq Nat \ {0} /\ DOMAIN vfs_volumes = 1 .. Len(vfs_volumes)
  BY SeqFacts
<1>2. find_mountpoint_by_name(name) = IF m = 0 THEN 0 ELSE vfs_volumes[m]
  BY DEF find_mountpoint_by_name
<1>3. (I = {} /\ m = 0) \/ (m \in I /\ m # 0 /\ \A j \in I : m <= j)
  BY <1>1, FirstIs
<1> HIDE DEF m
<1> QED BY <1>1, <1>2, <1>3

----------------------------------------------------------------------------
(* Nodes *)

RootEntry(n) == n = Node("rootfs", n.name, VN_FREGFILE, rootfs_vol, n.payload)

\* A device that was installed before devfs was mounted has no volume.
DevEntry(n) ==
  /\ n.payload \in DOMAIN Devices
  /\ n = Node("devfs", n.name, Devices[n.payload].flags, n.volume, n.payload)
  /\ n.volume \in {0, devfs_vol}

IsTarNode(n, v) == n = Node("tarfs", n.name, n.flags, v, n.payload)

\* What a volume in use is
VolumeFit(v) ==
  \/ vol[v].family = "rootfs" /\ v = rootfs_vol /\ vol[v].root = rootfs_root
  \/ vol[v].family = "devfs" /\ v = devfs_vol /\ vol[v].root = devfs_rootdir
  \/ vol[v].family = "tarfs" /\ (vol[v].root \in {Null, Wild} \/ IsTarNode(vol[v].root, v))

\* Volumes that are listed are in use, and each is listed once; a file system
\* other than tarfs has at most one volume in use, the one its static directory
\* points to.
VolumesInv ==
  /\ vol = [v \in Vols |-> vol[v]]
  /\ vfs_volumes \in Seq(Vols)
  /\ \A i \in 1 .. Len(vfs_volumes) : vol[vfs_volumes[i]].live
  /\ \A i, j \in 1 .. Len(vfs_volumes) : vfs_volumes[i] = vfs_volumes[j] => i = j
  /\ rootfs_vol \in Vols
  /\ devfs_vol \in Vols \cup {0}
  /\ \A v \in Vols : vol[v].live => VolumeFit(v)

NodesInv ==
  /\ IsSeq(rootfs_nodes) /\ \A i \in 1 .. Len(rootfs_nodes) : RootEntry(rootfs_nodes[i])
  /\ IsSeq(devmgr_list) /\ \A i \in 1 .. Len(devmgr_list) : DevEntry(devmgr_list[i])
  /\ \A i, j \in 1 .. Len(devmgr_list) : devmgr_list[i].name = devmgr_list[j].name => i = j

\* Node n is one of the file system of volume v, which is in use.
From(n, v) ==
  /\ v \in Vols /\ vol[v].live
  /\ n.of = vol[v].family /\ vn_volume(n) \in {0, v}
  /\ n.of = "devfs" /\ n # devfs_rootdir => n \in Range(devmgr_list)

\* Devices are numbered from 1.
LEMMA DeviceNumbers == DOMAIN Devices \subseteq Nat \ {0}
<1>1. \E S : Devices \in Seq(S)
  BY DevicesAssumption
<1>2. \A S : \A s \in Seq(S) : DOMAIN s = 1 .. Len(s) /\ Len(s) \in Nat
  OBVIOUS
<1> QED BY ONLY <1>1, <1>2

\* The volume of each kind of node
LEMMA NodeVolumes ==
  /\ vn_volume(rootfs_root) = rootfs_vol /\ rootfs_root.of = "rootfs" /\ rootfs_root.flags = VN_FDIR
  /\ vn_volume(devfs_rootdir) = devfs_vol /\ devfs_rootdir.of = "devfs" /\ devfs_rootdir.flags = VN_FDIR
  /\ \A n : RootEntry(n) => vn_volume(n) = rootfs_vol /\ n.of = "rootfs"
  /\ \A n : DevEntry(n) => vn_volume(n) = n.volume /\ n.of = "devfs" /\ n # devfs_rootdir
  /\ \A n, v : IsTarNode(n, v) => vn_volume(n) = v /\ n.of = "tarfs"
  /\ Null.flags # VN_FDIR /\ Null.of = "none" /\ Wild.of = "wild"
<1>1. /\ rootfs_root.of = "rootfs" /\ rootfs_root.flags = VN_FDIR /\ rootfs_root.payload = 0
      /\ devfs_rootdir.of = "devfs" /\ devfs_rootdir.flags = VN_FDIR /\ devfs_rootdir.payload = 0
      /\ Null.flags # VN_FDIR /\ Null.of = "none" /\ Wild.of = "wild"
  BY DEF rootfs_root, devfs_rootdir, Null, Wild, Node, VN_FDIR
<1>2. vn_volume(rootfs_root) = rootfs_vol /\ vn_volume(devfs_rootdir) = devfs_vol
  <2>1. rootfs_root # devfs_rootdir
    BY <1>1
  <2> QED BY <2>1 DEF vn_volume
<1>3. ASSUME NEW n, RootEntry(n) PROVE vn_volume(n) = rootfs_vol /\ n.of = "rootfs"
  <2>1. n.of = "rootfs" /\ n.flags = VN_FREGFILE /\ n.volume = rootfs_vol
    BY <1>3 DEF RootEntry, Node
  <2>2. n # rootfs_root /\ n # devfs_rootdir
    BY <1>1, <2>1 DEF VN_FREGFILE, VN_FDIR
  <2> QED BY <2>1, <2>2 DEF vn_volume
<1>4. ASSUME NEW n, DevEntry(n) PROVE vn_volume(n) = n.volume /\ n.of = "devfs" /\ n # devfs_rootdir
  <2>1. n.of = "devfs" /\ n.payload \in DOMAIN Devices
    BY <1>4 DEF DevEntry, Node
  <2>2. n.payload # 0
    BY <2>1, DeviceNumbers
  <2>3. n # rootfs_root /\ n # devfs_rootdir
    BY <1>1, <2>1, <2>2
  <2> QED BY <2>1, <2>3 DEF vn_volume
<1>5. ASSUME NEW n, NEW v, IsTarNode(n, v) PROVE vn_volume(n) = v /\ n.of = "tarfs"
  <2>1. n.of = "tarfs" /\ n.volume = v
    BY <1>5 DEF IsTarNode, Node
  <2>2. n # rootfs_root /\ n # devfs_rootdir
    BY <1>1, <2>1
  <2> QED BY <2>1, <2>2 DEF vn_volume
<1> QED BY <1>1, <1>2, <1>3, <1>4, <1>5

\* A volume in use leads to its own nodes.
LEMMA RootFrom ==
  ASSUME VolumesInv, NEW v \in Vols, vol[v].live
  PROVE  vol[v].root \in {Null, Wild} \/ From(vol[v].root, v)
<1>1. VolumeFit(v)
  BY DEF VolumesInv
<1>2. CASE vol[v].family = "rootfs" /\ v = rootfs_vol /\ vol[v].root = rootfs_root
  BY <1>2, NodeVolumes DEF From
<1>3. CASE vol[v].family = "devfs" /\ v = devfs_vol /\ vol[v].root = devfs_rootdir
  BY <1>3, NodeVolumes DEF From
<1>4. CASE vol[v].family = "tarfs" /\ (vol[v].root \in {Null, Wild} \/ IsTarNode(vol[v].root, v))
  BY <1>4, NodeVolumes DEF From
<1> QED BY <1>1, <1>2, <1>3, <1>4 DEF VolumeFit

\* A member of an archive is a node of its volume.
LEMMA TarFrom ==
  ASSUME NEW v \in Vols, vol[v].live, vol[v].family = "tarfs", NEW i
  PROVE  TarNode(v, i) = Null \/ From(TarNode(v, i), v)
<1> DEFINE n == TarNode(v, i)
<1>1. n = Null \/ IsTarNode(n, v)
  <2>1. CASE i = 0
    BY <2>1 DEF TarNode
  <2>2. CASE i # 0
    <3>1. n = Node("tarfs", Tree(v)[i].name, Tree(v)[i].flags, v, i)
      BY <2>2 DEF TarNode
    <3> HIDE DEF n
    <3> QED BY <3>1 DEF IsTarNode, Node
  <2> QED BY <2>1, <2>2
<1> HIDE DEF n
<1>2. n = Null \/ From(n, v)
  BY <1>1, NodeVolumes DEF From
<1> QED BY <1>2 DEF n

\* The entries of the two lists are nodes of the volume in use.
LEMMA EntryFrom ==
  ASSUME VolumesInv, NodesInv, NEW v \in Vols, vol[v].live
  PROVE  /\ vol[v].family = "rootfs" => \A i \in 1 .. Len(rootfs_nodes) : From(rootfs_nodes[i], v)
         /\ vol[v].family = "devfs" => \A i \in 1 .. Len(devmgr_list) : From(devmgr_list[i], v)
<1>1. VolumeFit(v)
  BY DEF VolumesInv
<1>2. ASSUME vol[v].family = "rootfs", NEW i \in 1 .. Len(rootfs_nodes) PROVE From(rootfs_nodes[i], v)
  <2>1. RootEntry(rootfs_nodes[i]) /\ v = rootfs_vol
    BY <1>1, <1>2 DEF NodesInv, VolumeFit
  <2> QED BY <1>2, <2>1, NodeVolumes DEF From
<1>3. ASSUME vol[v].family = "devfs", NEW i \in 1 .. Len(devmgr_list) PROVE From(devmgr_list[i], v)
  <2>1. DevEntry(devmgr_list[i]) /\ v = devfs_vol
    BY <1>1, <1>3 DEF NodesInv, VolumeFit
  <2>2. devmgr_list[i] \in Range(devmgr_list)
    BY SeqFacts DEF NodesInv, Range
  <2>3. devmgr_list[i].volume \in {0, v}
    BY <2>1 DEF DevEntry
  <2> QED BY <1>3, <2>1, <2>2, <2>3, NodeVolumes DEF From
<1> QED BY <1>2, <1>3

\* The operations that a node has are those of its file system.
LEMMA OpsFrom ==
  ASSUME VolumesInv, NEW n, NEW v, From(n, v)
  PROVE  /\ NODE_OPS(n) = "none" \/ (NODE_OPS(n) = n.of /\ vn_volume(n) = v)
         /\ vn_volume(n) = 0 => NODE_OPS(n) = "none"
<1>1. v \in Vols /\ v # 0 /\ n.of = vol[v].family /\ vn_volume(n) \in {0, v}
  BY VfsAssumption DEF From
<1>2. CASE vn_volume(n) = 0
  BY <1>2 DEF NODE_OPS
<1>3. CASE vn_volume(n) = v
  BY <1>1, <1>3 DEF NODE_OPS
<1> QED BY <1>1, <1>2, <1>3

\* fs_finddir and fs_readdir lead to nodes of the same volume.
LEMMA FindFrom ==
  ASSUME VolumesInv, NodesInv, NEW n, NEW v, From(n, v), NEW name
  PROVE  fs_finddir(n, name) = Null \/ From(fs_finddir(n, name), v)
<1> DEFINE f == fs_finddir(n, name)
<1>0. v \in Vols /\ vol[v].live /\ n.of = vol[v].family
  BY DEF From
<1>1. NODE_OPS(n) = "none" \/ (NODE_OPS(n) = n.of /\ vn_volume(n) = v)
  BY OpsFrom
<1>2. IsSeq(rootfs_nodes) /\ IsSeq(devmgr_list)
  BY DEF NodesInv
<1>3. CASE n.flags = VN_FDIR /\ NODE_OPS(n) = "rootfs"
  <2>1. f = FirstNamed(rootfs_nodes, name)
    BY <1>3 DEF fs_finddir
  <2>2. f = Null \/ \E i \in 1 .. Len(rootfs_nodes) : f = rootfs_nodes[i]
    BY <1>2, <2>1, FirstNamedIs
  <2> QED BY <1>0, <1>1, <1>3, <2>2, EntryFrom
<1>4. CASE n.flags = VN_FDIR /\ NODE_OPS(n) = "devfs"
  <2>1. f = FirstNamed(devmgr_list, name)
    BY <1>4 DEF fs_finddir
  <2>2. f = Null \/ \E i \in 1 .. Len(devmgr_list) : f = devmgr_list[i]
    BY <1>2, <2>1, FirstNamedIs
  <2> QED BY <1>0, <1>1, <1>4, <2>2, EntryFrom
<1>5. CASE n.flags = VN_FDIR /\ NODE_OPS(n) = "tarfs"
  <2>1. f = tarfs_finddir(n, name)
    BY <1>5 DEF fs_finddir
  <2>2. PICK i : f = Null \/ f = TarNode(v, i)
    BY <1>1, <1>5, <2>1 DEF tarfs_finddir
  <2> QED BY <1>0, <1>1, <1>5, <2>2, TarFrom
<1>6. CASE n.flags # VN_FDIR \/ NODE_OPS(n) \notin {"rootfs", "devfs", "tarfs"}
  BY <1>6 DEF fs_finddir
<1> QED BY <1>3, <1>4, <1>5, <1>6

LEMMA ReaddirFrom ==
  ASSUME VolumesInv, NodesInv, NEW n, NEW v, From(n, v), NEW index \in Nat
  PROVE  fs_readdir(n, index) = Null \/ From(fs_readdir(n, index), v)
<1> DEFINE f == fs_readdir(n, index)
<1>0. v \in Vols /\ vol[v].live /\ n.of = vol[v].family
  BY DEF From
<1>1. NODE_OPS(n) = "none" \/ (NODE_OPS(n) = n.of /\ vn_volume(n) = v)
  BY OpsFrom
<1>2. /\ Nth(rootfs_nodes, index) = Null \/ \E i \in 1 .. Len(rootfs_nodes) : Nth(rootfs_nodes, index) = rootfs_nodes[i]
      /\ Nth(devmgr_list, index) = Null \/ \E i \in 1 .. Len(devmgr_list) : Nth(devmgr_list, index) = devmgr_list[i]
  <2>1. \A s : IsSeq(s) => Nth(s, index) = Null \/ \E i \in 1 .. Len(s) : Nth(s, index) = s[i]
    <3> SUFFICES ASSUME NEW s, IsSeq(s), index < Len(s)
                 PROVE  \E i \in 1 .. Len(s) : Nth(s, index) = s[i]
      BY DEF Nth
    <3>1. index + 1 \in 1 .. Len(s) /\ Nth(s, index) = s[index + 1]
      BY SeqFacts DEF Nth
    <3> QED BY <3>1
  <2> QED BY <2>1 DEF NodesInv
<1>3. CASE n.flags = VN_FDIR /\ NODE_OPS(n) = "rootfs"
  <2>1. f = Nth(rootfs_nodes, index)
    BY <1>3 DEF fs_readdir
  <2> QED BY <1>0, <1>1, <1>2, <1>3, <2>1, EntryFrom
<1>4. CASE n.flags = VN_FDIR /\ NODE_OPS(n) = "devfs"
  <2>1. f = Nth(devmgr_list, index)
    BY <1>4 DEF fs_readdir
  <2> QED BY <1>0, <1>1, <1>2, <1>4, <2>1, EntryFrom
<1>5. CASE n.flags = VN_FDIR /\ NODE_OPS(n) = "tarfs"
  <2>1. f = tarfs_readdir(n, index)
    BY <1>5 DEF fs_readdir
  <2>2. PICK i : f = Null \/ f = TarNode(v, i)
    BY <1>1, <1>5, <2>1 DEF tarfs_readdir
  <2> QED BY <1>0, <1>1, <1>5, <2>2, TarFrom
<1>6. CASE n.flags # VN_FDIR \/ NODE_OPS(n) \notin {"rootfs", "devfs", "tarfs"}
  BY <1>6 DEF fs_readdir
<1> QED BY <1>3, <1>4, <1>5, <1>6

----------------------------------------------------------------------------
(* Paths *)

\* The turns of fs_follow_path
LEMMA FollowTurns ==
  ASSUME NEW root, NEW path, Len(path) \in Nat
  PROVE  \E turn :
           /\ fs_follow_path(root, path) = turn[Len(path) + 1].node
           /\ turn[0] = [node |-> root, path |-> path]
           /\ \A i \in 1 .. Len(path) + 1 :
                turn[i] = IF turn[i - 1].path = NoString THEN turn[i - 1] ELSE Follow(turn[i - 1])
<1> DEFINE N == Len(path) + 1
           S0 == [node |-> root, path |-> path]
           Go(at) == IF at.path = NoString THEN at ELSE Follow(at)
           D(w) == [i \in 0 .. N |-> IF i = 0 THEN S0 ELSE Go(w[i - 1])]
           G(n, w) == /\ w = [i \in 0 .. n |-> w[i]] /\ w[0] = S0
                      /\ \A i \in 1 .. n : w[i] = Go(w[i - 1])
           S == {n \in Nat : \E w : G(n, w)}
           turn == CHOOSE u : u = D(u)
<1>0. N \in Nat
  OBVIOUS
<1>6. fs_follow_path(root, path) = turn[N].node
  BY DEF fs_follow_path
<1> HIDE DEF Go, S0, N
<1>1. 0 \in S
  <2>1. G(0, [i \in 0 .. 0 |-> S0])
    OBVIOUS
  <2> QED BY <2>1
<1>2. ASSUME NEW n \in Nat, n \in S PROVE n + 1 \in S
  <2>1. PICK w : G(n, w)
    BY <1>2
  <2> DEFINE v == [i \in 0 .. n + 1 |-> IF i = n + 1 THEN Go(w[n]) ELSE w[i]]
  <2>2. v = [i \in 0 .. n + 1 |-> v[i]] /\ v[0] = S0
    BY <2>1
  <2>3. ASSUME NEW i \in 1 .. n + 1 PROVE v[i] = Go(v[i - 1])
    <3>1. CASE i = n + 1
      BY <3>1
    <3>2. CASE i # n + 1
      <4>1. i \in 0 .. n + 1 /\ i - 1 \in 0 .. n + 1 /\ i - 1 # n + 1 /\ i \in 1 .. n
        BY <3>2
      <4>2. v[i] = w[i] /\ v[i - 1] = w[i - 1]
        BY <3>2, <4>1
      <4> HIDE DEF v
      <4> QED BY <2>1, <4>1, <4>2
    <3> QED BY <3>1, <3>2
  <2>4. G(n + 1, v)
    BY <2>2, <2>3
  <2> HIDE DEF G, v
  <2>5. \E u : G(n + 1, u)
    BY <2>4
  <2> QED BY <2>5
<1>3. PICK w : G(N, w)
  <2> HIDE DEF G
  <2>1. Nat \subseteq S
    <3> HIDE DEF S
    <3> QED BY <1>1, <1>2, InductionSet
  <2> QED BY <1>0, <2>1
<1>4. w = D(w)
  BY <1>0, <1>3
<1>5. turn = D(turn)
  <2> HIDE DEF D
  <2> QED BY <1>4
<1> HIDE DEF turn
<1>7. turn[0] = S0 /\ \A i \in 1 .. N : turn[i] = Go(turn[i - 1])
  <2>1. \A i \in 0 .. N : turn[i] = IF i = 0 THEN S0 ELSE Go(turn[i - 1])
    BY <1>5
  <2> QED BY <1>0, <2>1
<1> QED BY <1>6, <1>7 DEF Go, S0, N

\* Nothing is found in NULL.
LEMMA FindNull ==
  ASSUME NEW name
  PROVE  fs_finddir(Null, name) = Null
  BY NodeVolumes DEF fs_finddir

\* fs_follow_path stays in the volume it starts from.
LEMMA FollowFrom ==
  ASSUME VolumesInv, NodesInv, NEW n, NEW v, From(n, v), NEW path, Len(path) \in Nat
  PROVE  fs_follow_path(n, path) = Null \/ From(fs_follow_path(n, path), v)
<1> DEFINE N == Len(path) + 1
           Stays(m) == m = Null \/ From(m, v)
<1>1. PICK turn :
        /\ fs_follow_path(n, path) = turn[Len(path) + 1].node
        /\ turn[0] = [node |-> n, path |-> path]
        /\ \A i \in 1 .. Len(path) + 1 :
             turn[i] = IF turn[i - 1].path = NoString THEN turn[i - 1] ELSE Follow(turn[i - 1])
  BY FollowTurns
<1>2. \A m, name : Stays(m) => Stays(fs_finddir(m, name))
  BY FindFrom, FindNull
<1>3. ASSUME NEW at, Stays(at.node) PROVE Stays(Follow(at).node)
  <2> DEFINE cut == strsep(at.path, "/")
             node == fs_finddir(at.node, cut.out)
  <2>1. Stays(node)
    BY <1>2, <1>3
  <2>2. Follow(at) = (IF cut.rest # NoString /\ (node = Null \/ (node.flags \div 2) % 2 = 0)
                      THEN [node |-> Null, path |-> NoString] ELSE [node |-> node, path |-> cut.rest])
    BY DEF Follow
  <2> HIDE DEF Stays, cut, node
  <2>3. Follow(at).node = Null \/ Follow(at).node = node
    BY <2>2
  <2>4. Stays(Null)
    BY DEF Stays
  <2> QED BY <2>1, <2>3, <2>4
<1> HIDE DEF Stays
<1> DEFINE P == {i \in Nat : i <= N => Stays(turn[i].node)}
<1>4. Nat \subseteq P
  <2>1. 0 \in P
    BY <1>1 DEF Stays
  <2>2. ASSUME NEW i \in Nat, i \in P PROVE i + 1 \in P
    <3> SUFFICES ASSUME i + 1 <= N PROVE Stays(turn[i + 1].node)
      OBVIOUS
    <3>1. Stays(turn[i].node)
      BY <2>2
    <3>2. turn[i + 1] = turn[i] \/ turn[i + 1] = Follow(turn[i])
      <4>1. i + 1 \in 1 .. Len(path) + 1 /\ (i + 1) - 1 = i
        OBVIOUS
      <4> QED BY <1>1, <4>1
    <3> QED BY <1>3, <3>1, <3>2
  <2> HIDE DEF P
  <2> QED BY <2>1, <2>2, InductionSet
<1>5. Stays(turn[N].node)
  BY <1>4
<1> QED BY <1>1, <1>5 DEF Stays

\* strsep cuts strings into strings.
LEMMA StrsepIs ==
  ASSUME NEW s, IsSeq(s), NEW d
  PROVE  IsSeq(strsep(s, d).rest)
<1>1. CASE Positions(s, d) = {}
  <2>1. \A x : IsSeq(<<x>>)
    BY DEF IsSeq
  <2> QED BY <1>1, <2>1 DEF strsep, NoString
<1>2. CASE Positions(s, d) # {}
  <2> DEFINE I == Positions(s, d)
             i == Min(I)
             A == {s[k] : k \in DOMAIN s}
  <2>1. i \in 1 .. Len(s) /\ Len(s) \in Nat
    <3>1. Len(s) \in Nat
      BY SeqFacts
    <3>2. I \subseteq Nat /\ \A j \in I : j \in 1 .. Len(s)
      BY <3>1 DEF Positions
    <3>3. i \in I
      BY <1>2, <3>2, MinIs
    <3> QED BY <3>1, <3>2, <3>3
  <2>2. strsep(s, d).rest = SubSeq(s, i + 1, Len(s))
    BY <1>2 DEF strsep
  <2>3. s \in Seq(A)
    BY DEF IsSeq
  <2> HIDE DEF i, A
  <2>4. SubSeq(s, i + 1, Len(s)) \in Seq(A)
    BY <2>1, <2>3
  <2>5. IsSeq(SubSeq(s, i + 1, Len(s)))
    BY <2>4, SeqIs
  <2> QED BY <2>2, <2>5
<1> QED BY <1>1, <1>2

\* A mounted volume is in use.
LEMMA MountpointLive ==
  ASSUME VolumesInv, NEW name
  PROVE  LET v == find_mountpoint_by_name(name)
         IN  \/ v = 0 /\ \A i \in 1 .. Len(vfs_volumes) : vol[vfs_volumes[i]].name # name
             \/ /\ v # 0 /\ v \in Vols /\ vol[v].live /\ vol[v].name = name
                /\ \E k \in 1 .. Len(vfs_volumes) :
                     /\ v = vfs_volumes[k]
                     /\ \A i \in 1 .. Len(vfs_volumes) : vol[vfs_volumes[i]].name = name => k <= i
<1>1. vfs_volumes \in Seq(Vols) /\ IsSeq(vfs_volumes)
  BY SeqIs DEF VolumesInv
<1>2. \A i \in 1 .. Len(vfs_volumes) : vfs_volumes[i] \in Vols /\ vfs_volumes[i] # 0 /\ vol[vfs_volumes[i]].live
  BY <1>1, VfsAssumption DEF VolumesInv
<1> DEFINE v == find_mountpoint_by_name(name)
<1>3. \/ v = 0 /\ \A i \in 1 .. Len(vfs_volumes) : vol[vfs_volumes[i]].name # name
      \/ \E k \in 1 .. Len(vfs_volumes) :
           /\ v = vfs_volumes[k] /\ v # 0 /\ vol[v].name = name
           /\ \A i \in 1 .. Len(vfs_volumes) : vol[vfs_volumes[i]].name = name => k <= i
  BY <1>1, <1>2, MountpointIs
<1> HIDE DEF v
<1>4. CASE v = 0 /\ \A i \in 1 .. Len(vfs_volumes) : vol[vfs_volumes[i]].name # name
  BY <1>4 DEF v
<1>5. ASSUME NEW k \in 1 .. Len(vfs_volumes),
             v = vfs_volumes[k] /\ v # 0 /\ vol[v].name = name,
             \A i \in 1 .. Len(vfs_volumes) : vol[vfs_volumes[i]].name = name => k <= i
      PROVE  /\ v # 0 /\ v \in Vols /\ vol[v].live /\ vol[v].name = name
             /\ \E j \in 1 .. Len(vfs_volumes) :
                  /\ v = vfs_volumes[j]
                  /\ \A i \in 1 .. Len(vfs_volumes) : vol[vfs_volumes[i]].name = name => j <= i
  BY <1>2, <1>5
<1> QED BY <1>3, <1>4, <1>5 DEF v

\* fs_resolve leads to a node of the volume that the path names.
LEMMA ResolveFrom ==
  ASSUME VolumesInv, NodesInv, NEW path, IsSeq(path)
  PROVE  \/ fs_resolve(path) \in {Null, Wild}
         \/ From(fs_resolve(path), find_mountpoint_by_name(strsep(path, ":").out))
<1> DEFINE cut == strsep(path, ":")
           v == find_mountpoint_by_name(cut.out)
           root == IF cut.rest = NoString THEN Null ELSE vfs_get_volume(cut.out)
           rest == cut.rest
           f == fs_resolve(path)
<1>1. root \in {Null, Wild} \/ From(root, v)
  <2>1. v = 0 \/ (v \in Vols /\ vol[v].live /\ v # 0)
    BY MountpointLive
  <2>2. root = Null \/ (v # 0 /\ root = vol[v].root)
    BY DEF vfs_get_volume
  <2> HIDE DEF v, root
  <2> QED BY <2>1, <2>2, RootFrom
<1>2. f = IF root = Null \/ root = Wild \/ ~Begins(rest, <<"/">>) \/ Len(rest) = 1 THEN root
          ELSE fs_follow_path(root, Tail(rest))
  BY DEF fs_resolve
<1>3. IsSeq(rest) /\ Len(rest) \in Nat
  BY StrsepIs, SeqFacts
<1> HIDE DEF f, root, rest, v, cut
<1>4. CASE f = root
  BY <1>1, <1>4 DEF f, v, cut
<1>5. CASE f # root
  <2>1. f = fs_follow_path(root, Tail(rest)) /\ Begins(rest, <<"/">>) /\ root \notin {Null, Wild}
    BY <1>2, <1>5
  <2>2. rest # <<>>
    BY <1>3, <2>1 DEF Begins
  <2>3. Len(Tail(rest)) \in Nat
    BY <1>3, <2>2 DEF IsSeq
  <2> DEFINE t == Tail(rest)
  <2> HIDE DEF t
  <2>4. f = Null \/ From(f, v)
    BY <1>1, <2>1, <2>3, FollowFrom DEF t
  <2> QED BY <2>4 DEF f, v, cut
<1> QED BY <1>4, <1>5

\* A node of a volume in use is safe.
LEMMA SafeFrom ==
  ASSUME VolumesInv, NEW n, NEW v, From(n, v)
  PROVE  Safe(n) /\ n \notin {Null, Wild}
<1>1. v \in Vols /\ vol[v].live /\ n.of = vol[v].family /\ vn_volume(n) \in {0, v}
  BY DEF From
<1>2. n.of \in {"rootfs", "devfs", "tarfs"}
  BY <1>1 DEF VolumesInv, VolumeFit
<1>3. n \notin {Null, Wild}
  BY <1>2, NodeVolumes
<1>4. ASSUME vn_volume(n) # 0, NEW op \in FsOps.devfs
      PROVE  \/ Dispatch(n, op) = Refused
             \/ /\ Dispatch(n, op)[1] = n.of
                /\ n.of = "devfs" => Dispatch(n, op)[2] = n.payload /\ n.payload # 0
  <2>1. NODE_OPS(n) = n.of
    BY <1>1, <1>3, <1>4 DEF NODE_OPS
  <2>2. \/ Dispatch(n, op) = Refused
        \/ n.of = "devfs" /\ Dispatch(n, op) = devfs_call(n, op)
        \/ n.of # "devfs" /\ Dispatch(n, op) = <<n.of, 0, op>>
    BY <2>1 DEF Dispatch
  <2>3. devfs_call(n, op) = Refused \/ (devfs_call(n, op) = <<"devfs", n.payload, op>> /\ n.payload # 0)
    BY DEF devfs_call
  <2> QED BY <2>2, <2>3
<1> QED BY <1>1, <1>3, <1>4 DEF Safe

----------------------------------------------------------------------------
(* The invariant *)

\* The two lists of volumes, as long as no failure was ignored
TablesInv ==
  failed = 0 =>
    /\ Len(rootfs_nodes) = Len(vfs_volumes)
    /\ \A i \in 1 .. Len(vfs_volumes) : /\ rootfs_nodes[i].name = vol[vfs_volumes[i]].name
                                        /\ rootfs_nodes[i].payload = vfs_volumes[i]

\* What a client holds is a node of the volume it came from.
HeldInv ==
  /\ held \in [node : {held.node}, via : {held.via}]
  /\ held.node \in {Null, Wild} \/ From(held.node, held.via)

Names == DevNames \cup {Devices[d].name : d \in DOMAIN Devices}

\* The devices that were accepted are listed, with the volume of devfs, as long as
\* no failure was ignored.
InstalledInv ==
  /\ \A x \in installed : x[1] \in Names
  /\ failed = 0 => /\ \A i \in 1 .. Len(devmgr_list) : devmgr_list[i].volume # 0
                   /\ \A x \in installed : \E i \in 1 .. Len(devmgr_list) :
                        devmgr_list[i].name = x[1] /\ devmgr_list[i].payload = x[2]

FilesInv ==
  VolumesInv /\ NodesInv /\ failed \in Nat /\ TablesInv /\ HeldInv /\ InstalledInv

VfsInv == FilesInv /\ driver \in DOMAIN Drivers

\* From, with the state it speaks of
VolumeIn(n, rv, dv) == IF n = rootfs_root THEN rv ELSE IF n = devfs_rootdir THEN dv ELSE n.volume

FromIn(n, v, m, rv, dv, list) ==
  /\ v \in Vols /\ m[v].live
  /\ n.of = m[v].family /\ VolumeIn(n, rv, dv) \in {0, v}
  /\ n.of = "devfs" /\ n # devfs_rootdir => n \in Range(list)

HeldIn(h, m, rv, dv, list) ==
  /\ h \in [node : {h.node}, via : {h.via}]
  /\ h.node \in {Null, Wild} \/ FromIn(h.node, h.via, m, rv, dv, list)

LEMMA HeldNow == HeldInv <=> HeldIn(held, vol, rootfs_vol, devfs_vol, devmgr_list)
  BY DEF HeldInv, HeldIn, From, FromIn, vn_volume, VolumeIn

LEMMA HeldThen == HeldInv' <=> HeldIn(held', vol', rootfs_vol', devfs_vol', devmgr_list')
  BY DEF HeldInv, HeldIn, From, FromIn, vn_volume, VolumeIn

\* A node stays one of its volume while that is in use and the lists keep it.
LEMMA FromKept ==
  ASSUME NEW n, NEW v, NEW m, NEW m2, NEW rv, NEW dv, NEW dv2, NEW list, NEW list2,
         FromIn(n, v, m, rv, dv, list),
         m2[v].live, m2[v].family = m[v].family,
         dv2 = dv \/ m[v].family # "devfs",
         n \in Range(list) => n \in Range(list2)
  PROVE  FromIn(n, v, m2, rv, dv2, list2)
<1>1. VolumeIn(n, rv, dv2) = VolumeIn(n, rv, dv)
  <2>1. CASE dv2 = dv
    BY <2>1
  <2>2. CASE m[v].family # "devfs"
    <3>1. n # devfs_rootdir
      BY <2>2, NodeVolumes DEF FromIn
    <3> QED BY <3>1 DEF VolumeIn
  <2> QED BY <2>1, <2>2
<1> QED BY <1>1 DEF FromIn

\* What a step leaves alone
LEMMA VolumesKept ==
  ASSUME VolumesInv, UNCHANGED <<vol, vfs_volumes, rootfs_vol, devfs_vol>>
  PROVE  VolumesInv'
  BY DEF VolumesInv, VolumeFit, IsTarNode

LEMMA EntriesKept ==
  ASSUME NodesInv, UNCHANGED <<rootfs_nodes, rootfs_vol>>
  PROVE  IsSeq(rootfs_nodes') /\ \A i \in 1 .. Len(rootfs_nodes') : RootEntry(rootfs_nodes[i])'
  BY Zenon DEF NodesInv, RootEntry

LEMMA NodesKept ==
  ASSUME NodesInv, UNCHANGED <<rootfs_nodes, rootfs_vol, devmgr_list, devfs_vol>>
  PROVE  NodesInv'
<1>1. \A i \in 1 .. Len(devmgr_list') : DevEntry(devmgr_list[i])'
  BY Zenon DEF NodesInv, DevEntry
<1>2. /\ IsSeq(devmgr_list')
      /\ \A i, j \in 1 .. Len(devmgr_list') : devmgr_list'[i].name = devmgr_list'[j].name => i = j
  BY Zenon DEF NodesInv
<1> QED BY <1>1, <1>2, EntriesKept, Zenon DEF NodesInv

LEMMA TablesKept ==
  ASSUME TablesInv, UNCHANGED <<rootfs_nodes, vfs_volumes>>, failed' = 0 => failed = 0,
         \A i \in 1 .. Len(vfs_volumes) : vol'[vfs_volumes[i]] = vol[vfs_volumes[i]]
  PROVE  TablesInv'
  BY Zenon DEF TablesInv

LEMMA InstalledKept ==
  ASSUME InstalledInv, UNCHANGED <<devmgr_list, installed>>, failed' = 0 => failed = 0
  PROVE  InstalledInv'
  BY Zenon DEF InstalledInv

\* A step that changes no volume in use and none of the two lists of nodes keeps
\* what is held.
LEMMA HeldKept ==
  ASSUME HeldInv, held' = held, rootfs_vol' = rootfs_vol, devmgr_list' = devmgr_list,
         \A v \in Vols : vol[v].live => vol'[v] = vol[v] /\ (devfs_vol' = devfs_vol \/ vol[v].family # "devfs")
  PROVE  HeldInv'
<1>1. HeldIn(held, vol, rootfs_vol, devfs_vol, devmgr_list)
  BY HeldNow
<1> DEFINE n == held.node
           v == held.via
<1>2. n \in {Null, Wild} \/ FromIn(n, v, vol, rootfs_vol, devfs_vol, devmgr_list)
  BY <1>1 DEF HeldIn
<1>3. n \in {Null, Wild} \/ FromIn(n, v, vol', rootfs_vol, devfs_vol', devmgr_list)
  <2> SUFFICES ASSUME FromIn(n, v, vol, rootfs_vol, devfs_vol, devmgr_list)
               PROVE  FromIn(n, v, vol', rootfs_vol, devfs_vol', devmgr_list)
    BY <1>2
  <2>1. v \in Vols /\ vol[v].live
    BY DEF FromIn
  <2>2. /\ vol'[v].live /\ vol'[v].family = vol[v].family
        /\ devfs_vol' = devfs_vol \/ vol[v].family # "devfs"
    BY <2>1
  <2> HIDE DEF n, v
  <2> QED BY <2>2, FromKept
<1>4. HeldIn(held', vol', rootfs_vol', devfs_vol', devmgr_list')
  BY <1>1, <1>3 DEF HeldIn
<1> QED BY <1>4, HeldThen

----------------------------------------------------------------------------
(* Mounting *)

\* vfs_mount takes a volume that is not in use.
LEMMA NewVolume ==
  ASSUME VolumesInv, NEW v \in Vols, ~vol[v].live, NEW x, vol' = [vol EXCEPT ![v] = x]
  PROVE  /\ vol' = [w \in Vols |-> vol'[w]] /\ vol'[v] = x
         /\ \A w \in Vols \ {v} : vol'[w] = vol[w]
         /\ \A w \in Vols : vol[w].live => w # v /\ vol'[w] = vol[w]
         /\ \A i \in 1 .. Len(vfs_volumes) : vfs_volumes[i] \in Vols /\ vfs_volumes[i] # v
<1>1. vol' = [w \in Vols |-> vol'[w]] /\ vol'[v] = x /\ \A w \in Vols \ {v} : vol'[w] = vol[w]
  BY DEF VolumesInv
<1>2. \A w \in Vols : vol[w].live => w # v /\ vol'[w] = vol[w]
  BY <1>1
<1>3. \A i \in 1 .. Len(vfs_volumes) : vfs_volumes[i] \in Vols /\ vol[vfs_volumes[i]].live
  BY DEF VolumesInv
<1> QED BY <1>1, <1>2, <1>3

\* The volumes that are listed once one more may have been appended
LEMMA ListVolume ==
  ASSUME NEW s \in Seq(Vols), NEW v \in Vols, NEW t, t = s \/ t = Append(s, v),
         \A i \in 1 .. Len(s) : s[i] # v,
         \A i, j \in 1 .. Len(s) : s[i] = s[j] => i = j
  PROVE  /\ t \in Seq(Vols)
         /\ \A i \in 1 .. Len(t) : t[i] = v \/ (i \in 1 .. Len(s) /\ t[i] = s[i])
         /\ \A i, j \in 1 .. Len(t) : t[i] = t[j] => i = j
<1>1. CASE t = s
  BY <1>1
<1>2. CASE t = Append(s, v)
  <2>1. t \in Seq(Vols) /\ Len(t) = Len(s) + 1 /\ t[Len(s) + 1] = v /\ Len(s) \in Nat
    BY <1>2
  <2>2. \A i \in 1 .. Len(s) : t[i] = s[i]
    BY <1>2
  <2>3. \A i \in 1 .. Len(t) : i = Len(s) + 1 \/ i \in 1 .. Len(s)
    BY <2>1
  <2>4. \A i \in 1 .. Len(t) : (i = Len(s) + 1 /\ t[i] = v) \/ (i \in 1 .. Len(s) /\ t[i] = s[i])
    BY <2>1, <2>2, <2>3
  <2>5. \A i, j \in 1 .. Len(t) : t[i] = t[j] => i = j
    BY <2>4
  <2> QED BY <2>1, <2>4, <2>5
<1> QED BY <1>1, <1>2

LEMMA MountFailsStep ==
  ASSUME FilesInv, NEW family, NEW name, NEW v \in Vols, MountFails(family, name, v),
         installed' = installed
  PROVE  FilesInv'
<1>1. /\ ~vol[v].live /\ vol' = [vol EXCEPT ![v] = Freed(family, 0, {})]
      /\ UNCHANGED <<vfs_volumes, rootfs_nodes, rootfs_vol, devmgr_list, devfs_vol, failed, held>>
  BY DEF MountFails, tables
<1>2. VolumesInv /\ NodesInv /\ failed \in Nat /\ TablesInv /\ HeldInv /\ InstalledInv
  BY DEF FilesInv
<1>3. /\ vol' = [w \in Vols |-> vol'[w]] /\ vol'[v] = Freed(family, 0, {})
      /\ \A w \in Vols \ {v} : vol'[w] = vol[w]
      /\ \A w \in Vols : vol[w].live => w # v /\ vol'[w] = vol[w]
      /\ \A i \in 1 .. Len(vfs_volumes) : vfs_volumes[i] \in Vols /\ vfs_volumes[i] # v
  BY <1>1, <1>2, NewVolume
<1>4. VolumesInv'
  <2>1. ~vol'[v].live
    BY <1>3 DEF Freed, Object
  <2>2. \A w \in Vols : vol'[w].live => vol[w].live /\ vol'[w] = vol[w]
    BY <1>3, <2>1
  <2>3. \A w \in Vols : vol'[w].live => VolumeFit(w)'
    BY <1>1, <1>2, <2>2 DEF VolumesInv, VolumeFit, IsTarNode
  <2>4. \A i \in 1 .. Len(vfs_volumes) : vol'[vfs_volumes[i]].live
    BY <1>2, <1>3 DEF VolumesInv
  <2> QED BY <1>1, <1>2, <1>3, <2>3, <2>4 DEF VolumesInv
<1>5. NodesInv'
  BY <1>1, <1>2, NodesKept
<1>6. TablesInv'
  <2>1. \A i \in 1 .. Len(vfs_volumes) : vol'[vfs_volumes[i]] = vol[vfs_volumes[i]]
    BY <1>3
  <2> QED BY <1>1, <1>2, <2>1, TablesKept
<1>7. HeldInv'
  BY <1>1, <1>2, <1>3, HeldKept
<1>8. InstalledInv'
  BY <1>1, <1>2, InstalledKept
<1> QED BY <1>1, <1>2, <1>4, <1>5, <1>6, <1>7, <1>8 DEF FilesInv

\* The root of a new volume of tarfs
LEMMA TarRootIs ==
  ASSUME NEW v, NEW archive, NEW lost, NEW root \in TarRoots(v, archive, lost)
  PROVE  root \in {Null, Wild} \/ IsTarNode(root, v)
<1> DEFINE i == RootMember(Archives[archive], lost)
           t == Trees[archive][lost]
<1>1. root = Null \/ root = Wild \/ root = Node("tarfs", t[i].name, t[i].flags, v, i)
  BY DEF TarRoots
<1> HIDE DEF i, t
<1> QED BY <1>1 DEF IsTarNode, Node

LEMMA MountSucceedsStep ==
  ASSUME FilesInv, NEW family, NEW name, NEW v \in Vols, NEW archive, NEW lost,
         NEW unlisted \in BOOLEAN, NEW unregistered \in BOOLEAN,
         MountSucceeds(family, name, v, archive, lost, unlisted, unregistered),
         installed' = installed
  PROVE  FilesInv'
<1>1. /\ ~vol[v].live
      /\ family = "tarfs" \/ (family = "devfs" /\ devfs_vol = 0)
      /\ devfs_vol' = IF family = "devfs" THEN v ELSE devfs_vol
      /\ vfs_volumes' = IF unlisted THEN vfs_volumes ELSE Append(vfs_volumes, v)
      /\ UNCHANGED <<rootfs_vol, devmgr_list, held>>
  BY DEF MountSucceeds, Mountable
<1> DEFINE new == Node("rootfs", name, VN_FREGFILE, rootfs_vol, v)
<1>2. rootfs_nodes' = IF unregistered THEN rootfs_nodes ELSE Append(rootfs_nodes, new)
  BY DEF MountSucceeds, rootfs_register_volume
<1>3. PICK root \in IF family = "tarfs" THEN TarRoots(v, archive, lost) ELSE {devfs_rootdir} :
        vol' = [vol EXCEPT ![v] = Object(TRUE, name, family, root, archive, lost)]
  BY DEF MountSucceeds
<1>4. failed' \in Nat /\ (failed' = 0 => failed = 0 /\ ~unlisted /\ ~unregistered)
  <2> DEFINE a == IF unlisted THEN 1 ELSE 0
             b == IF unregistered THEN 1 ELSE 0
             c == IF lost # {} THEN 1 ELSE 0
  <2>1. failed' = failed + (a + b + c)
    BY DEF MountSucceeds, Ignores
  <2>2. a \in {0, 1} /\ b \in {0, 1} /\ c \in {0, 1} /\ (unlisted => a = 1) /\ (unregistered => b = 1)
    OBVIOUS
  <2>3. failed \in Nat
    BY DEF FilesInv
  <2> HIDE DEF a, b, c
  <2> QED BY <2>1, <2>2, <2>3
<1>5. VolumesInv /\ NodesInv /\ TablesInv /\ HeldInv /\ InstalledInv
  BY DEF FilesInv
<1> HIDE DEF new
<1>6. /\ vol' = [w \in Vols |-> vol'[w]] /\ vol'[v] = Object(TRUE, name, family, root, archive, lost)
      /\ \A w \in Vols \ {v} : vol'[w] = vol[w]
      /\ \A w \in Vols : vol[w].live => w # v /\ vol'[w] = vol[w]
      /\ \A i \in 1 .. Len(vfs_volumes) : vfs_volumes[i] \in Vols /\ vfs_volumes[i] # v
  BY <1>1, <1>3, <1>5, NewVolume
<1>7. /\ vol'[v].live /\ vol'[v].name = name /\ vol'[v].family = family /\ vol'[v].root = root
  BY <1>6 DEF Object
\* There is no volume of devfs in use when one is mounted.
<1>8. \A w \in Vols : vol[w].live => devfs_vol' = devfs_vol \/ vol[w].family # "devfs"
  BY <1>1, <1>5, VfsAssumption DEF VolumesInv, VolumeFit
<1>9. VolumesInv'
  <2>1. /\ vfs_volumes' \in Seq(Vols)
        /\ \A i \in 1 .. Len(vfs_volumes') :
             vfs_volumes'[i] = v \/ (i \in 1 .. Len(vfs_volumes) /\ vfs_volumes'[i] = vfs_volumes[i])
        /\ \A i, j \in 1 .. Len(vfs_volumes') : vfs_volumes'[i] = vfs_volumes'[j] => i = j
    <3>1. vfs_volumes' = vfs_volumes \/ vfs_volumes' = Append(vfs_volumes, v)
      BY <1>1
    <3> QED BY <1>5, <1>6, <3>1, ListVolume DEF VolumesInv
  <2>2. \A i \in 1 .. Len(vfs_volumes') : vol'[vfs_volumes'[i]].live
    <3>1. \A i \in 1 .. Len(vfs_volumes) : vol[vfs_volumes[i]].live
      BY <1>5 DEF VolumesInv
    <3>2. \A i \in 1 .. Len(vfs_volumes) : vol'[vfs_volumes[i]].live
      BY <1>6, <3>1
    <3> QED BY <1>7, <2>1, <3>2, Zenon
  <2>3. VolumeFit(v)'
    <3>1. CASE family = "tarfs"
      <4>1. root \in {Null, Wild} \/ IsTarNode(root, v)
        BY <1>3, <3>1, TarRootIs
      <4> QED BY <1>7, <3>1, <4>1 DEF VolumeFit, IsTarNode
    <3>2. CASE family = "devfs"
      <4>1. root = devfs_rootdir /\ devfs_vol' = v
        BY <1>1, <1>3, <3>2
      <4> QED BY <1>7, <3>2, <4>1 DEF VolumeFit
    <3> QED BY <1>1, <3>1, <3>2
  <2>4. ASSUME NEW w \in Vols, w # v, vol'[w].live PROVE VolumeFit(w)'
    <3>1. vol'[w] = vol[w] /\ vol[w].live /\ VolumeFit(w)
      BY <1>5, <1>6, <2>4 DEF VolumesInv
    <3>2. devfs_vol' = devfs_vol \/ vol[w].family # "devfs"
      BY <1>8, <3>1
    <3> QED BY <1>1, <3>1, <3>2 DEF VolumeFit, IsTarNode
  <2>5. devfs_vol' \in Vols \cup {0} /\ rootfs_vol' \in Vols
    BY <1>1, <1>5 DEF VolumesInv
  <2> QED BY <1>6, <2>1, <2>2, <2>3, <2>4, <2>5 DEF VolumesInv
<1>10. NodesInv'
  <2>1. IsSeq(rootfs_nodes') /\ \A i \in 1 .. Len(rootfs_nodes') : RootEntry(rootfs_nodes'[i])
    <3>1. RootEntry(new)
      BY DEF RootEntry, new, Node
    <3>2. CASE rootfs_nodes' = rootfs_nodes
      BY <1>5, <3>2 DEF NodesInv
    <3>3. CASE rootfs_nodes' = Append(rootfs_nodes, new)
      <4>1. /\ IsSeq(rootfs_nodes') /\ Len(rootfs_nodes') = Len(rootfs_nodes) + 1
            /\ rootfs_nodes'[Len(rootfs_nodes) + 1] = new
            /\ \A i \in 1 .. Len(rootfs_nodes) : rootfs_nodes'[i] = rootfs_nodes[i]
        BY <1>5, <3>3, AppendIs DEF NodesInv
      <4>2. Len(rootfs_nodes) \in Nat
        BY <1>5, SeqFacts DEF NodesInv
      <4>3. \A i \in 1 .. Len(rootfs_nodes') : i = Len(rootfs_nodes) + 1 \/ i \in 1 .. Len(rootfs_nodes)
        BY <4>1, <4>2
      <4> QED BY <1>5, <3>1, <4>1, <4>3 DEF NodesInv
    <3> QED BY <1>2, <3>2, <3>3
  <2>2. \A i \in 1 .. Len(devmgr_list) : DevEntry(devmgr_list[i])'
    BY <1>1, <1>5 DEF NodesInv, DevEntry
  <2>3. \A i \in 1 .. Len(rootfs_nodes') : RootEntry(rootfs_nodes[i])'
    BY <1>1, <2>1 DEF RootEntry
  <2> QED BY <1>1, <1>5, <2>1, <2>2, <2>3 DEF NodesInv
<1>11. TablesInv'
  <2> SUFFICES ASSUME failed' = 0
               PROVE  /\ Len(rootfs_nodes') = Len(vfs_volumes')
                      /\ \A i \in 1 .. Len(vfs_volumes') :
                           /\ rootfs_nodes'[i].name = vol'[vfs_volumes'[i]].name
                           /\ rootfs_nodes'[i].payload = vfs_volumes'[i]
    BY DEF TablesInv
  <2>1. failed = 0 /\ vfs_volumes' = Append(vfs_volumes, v) /\ rootfs_nodes' = Append(rootfs_nodes, new)
    BY <1>1, <1>2, <1>4
  <2>2. IsSeq(rootfs_nodes) /\ IsSeq(vfs_volumes)
    BY <1>5, SeqIs DEF NodesInv, VolumesInv
  <2>3. /\ Len(rootfs_nodes') = Len(rootfs_nodes) + 1 /\ rootfs_nodes'[Len(rootfs_nodes) + 1] = new
        /\ \A i \in 1 .. Len(rootfs_nodes) : rootfs_nodes'[i] = rootfs_nodes[i]
    BY <2>1, <2>2, AppendIs
  <2>4. /\ Len(vfs_volumes') = Len(vfs_volumes) + 1 /\ vfs_volumes'[Len(vfs_volumes) + 1] = v
        /\ \A i \in 1 .. Len(vfs_volumes) : vfs_volumes'[i] = vfs_volumes[i]
    BY <2>1, <2>2, AppendIs
  <2>5. /\ Len(rootfs_nodes) = Len(vfs_volumes)
        /\ \A i \in 1 .. Len(vfs_volumes) : /\ rootfs_nodes[i].name = vol[vfs_volumes[i]].name
                                            /\ rootfs_nodes[i].payload = vfs_volumes[i]
    BY <1>5, <2>1 DEF TablesInv
  <2>6. new.name = name /\ new.payload = v
    BY DEF new, Node
  <2>7. Len(vfs_volumes) \in Nat
    BY <2>2, SeqFacts
  <2>8. ASSUME NEW i \in 1 .. Len(vfs_volumes')
        PROVE  /\ rootfs_nodes'[i].name = vol'[vfs_volumes'[i]].name
               /\ rootfs_nodes'[i].payload = vfs_volumes'[i]
    <3>1. CASE i = Len(vfs_volumes) + 1
      BY <1>7, <2>3, <2>4, <2>5, <2>6, <3>1
    <3>2. CASE i # Len(vfs_volumes) + 1
      <4>1. i \in 1 .. Len(vfs_volumes)
        BY ONLY i \in 1 .. Len(vfs_volumes'), <2>4, <2>7, <3>2
      <4>2. rootfs_nodes'[i] = rootfs_nodes[i] /\ vfs_volumes'[i] = vfs_volumes[i]
        BY <2>3, <2>4, <2>5, <4>1
      <4>3. vol'[vfs_volumes[i]] = vol[vfs_volumes[i]]
        BY <1>6, <4>1
      <4> QED BY <2>5, <4>1, <4>2, <4>3
    <3> QED BY <3>1, <3>2
  <2> QED BY <2>3, <2>4, <2>5, <2>8
<1>12. HeldInv'
  BY <1>1, <1>5, <1>6, <1>8, HeldKept
<1>13. InstalledInv'
  BY <1>1, <1>4, <1>5, InstalledKept
<1> QED BY <1>4, <1>9, <1>10, <1>11, <1>12, <1>13 DEF FilesInv

----------------------------------------------------------------------------
(* Unmounting *)

\* rootfs_unregister_volume takes one entry away, or none; the one it takes is
\* the first with the name of the volume.
LEMMA UnregisterIs ==
  ASSUME NEW v, IsSeq(rootfs_nodes)
  PROVE  LET t == rootfs_unregister_volume(rootfs_nodes, v)
         IN  \/ t = rootfs_nodes /\ \A i \in 1 .. Len(rootfs_nodes) : rootfs_nodes[i].name # vol[v].name
             \/ \E k \in 1 .. Len(rootfs_nodes) :
                  /\ t = Without(rootfs_nodes, k) /\ rootfs_nodes[k].name = vol[v].name
                  /\ \A i \in 1 .. Len(rootfs_nodes) : rootfs_nodes[i].name = vol[v].name => k <= i
<1> DEFINE I == {k \in DOMAIN rootfs_nodes : rootfs_nodes[k].name = vol[v].name}
           m == First(I)
           t == rootfs_unregister_volume(rootfs_nodes, v)
<1>1. I \subseteq Nat \ {0} /\ I = {k \in 1 .. Len(rootfs_nodes) : rootfs_nodes[k].name = vol[v].name}
  BY SeqFacts
<1>2. t = IF m = 0 THEN rootfs_nodes ELSE Without(rootfs_nodes, m)
  BY DEF rootfs_unregister_volume
<1>3. \/ I = {} /\ m = 0
      \/ m \in I /\ m # 0 /\ \A j \in I : m <= j
  <2> HIDE DEF I
  <2> QED BY <1>1, FirstIs
<1> HIDE DEF m, t
<1>4. CASE I = {} /\ m = 0
  BY <1>1, <1>2, <1>4 DEF t
<1>5. CASE m \in I /\ m # 0 /\ \A j \in I : m <= j
  <2>1. m \in 1 .. Len(rootfs_nodes) /\ rootfs_nodes[m].name = vol[v].name
    BY <1>1, <1>5
  <2>2. \A i \in 1 .. Len(rootfs_nodes) : rootfs_nodes[i].name = vol[v].name => m <= i
    BY <1>1, <1>5
  <2>3. t = Without(rootfs_nodes, m)
    BY <1>2, <1>5
  <2> QED BY <2>1, <2>2, <2>3 DEF t
<1> QED BY <1>3, <1>4, <1>5

\* The place in s of an element of Without(s, k)
Skip(i, k) == IF i < k THEN i ELSE i + 1

LEMMA SkipIs ==
  ASSUME NEW s, IsSeq(s), NEW k \in 1 .. Len(s), NEW t, t = Without(s, k)
  PROVE  /\ IsSeq(t) /\ Len(t) = Len(s) - 1 /\ Len(t) \in Nat
         /\ \A i \in 1 .. Len(t) : t[i] = s[Skip(i, k)] /\ Skip(i, k) \in 1 .. Len(s) /\ Skip(i, k) # k
         /\ \A i, j \in 1 .. Len(t) : Skip(i, k) = Skip(j, k) => i = j
<1>1. /\ IsSeq(t) /\ Len(t) = Len(s) - 1
      /\ \A i \in 1 .. Len(t) : t[i] = s[Skip(i, k)]
  BY WithoutIs DEF Skip
<1>2. Len(s) \in Nat
  BY SeqFacts
<1>3. \A i \in 1 .. Len(t) : Skip(i, k) \in 1 .. Len(s) /\ Skip(i, k) # k
  BY <1>1, <1>2 DEF Skip
<1>4. \A i, j \in 1 .. Len(t) : Skip(i, k) = Skip(j, k) => i = j
  BY <1>1, <1>2 DEF Skip
<1> QED BY <1>1, <1>2, <1>3, <1>4

\* Every other element stays.
LEMMA SkipOnto ==
  ASSUME NEW s, IsSeq(s), NEW k \in 1 .. Len(s), NEW j \in 1 .. Len(s), j # k
  PROVE  \E i \in 1 .. Len(Without(s, k)) : Without(s, k)[i] = s[j]
<1> DEFINE i == IF j < k THEN j ELSE j - 1
           t == Without(s, k)
<1>1. Len(s) \in Nat
  BY SeqFacts
<1>2. Len(t) = Len(s) - 1 /\ \A x \in 1 .. Len(t) : t[x] = s[Skip(x, k)]
  BY SkipIs
<1> HIDE DEF t
<1>3. i \in 1 .. Len(t) /\ Skip(i, k) = j
  BY <1>1, <1>2 DEF Skip
<1> QED BY <1>2, <1>3 DEF t

LEMMA UmountStep ==
  ASSUME FilesInv, NEW name, vfs_umount(name), installed' = installed
  PROVE  FilesInv'
<1>1. VolumesInv /\ NodesInv /\ failed \in Nat /\ TablesInv /\ HeldInv /\ InstalledInv
  BY DEF FilesInv
<1> DEFINE v == find_mountpoint_by_name(name)
           f == Freed(vol[v].family, vol[v].archive, vol[v].lost)
<1>2. /\ v # 0
      /\ rootfs_nodes' = rootfs_unregister_volume(rootfs_nodes, v)
      /\ vfs_volumes' = list_delete(vfs_volumes, v)
      /\ vol' = [vol EXCEPT ![v] = f]
      /\ held' = IF held.via = v THEN Nothing ELSE held
      /\ UNCHANGED <<rootfs_vol, devmgr_list, devfs_vol, failed>>
  BY DEF vfs_umount
<1>3. v \in Vols /\ vol[v].live /\ vol[v].name = name
  BY <1>1, <1>2, MountpointLive
<1>4. PICK k \in 1 .. Len(vfs_volumes) :
        /\ v = vfs_volumes[k]
        /\ \A i \in 1 .. Len(vfs_volumes) : vol[vfs_volumes[i]].name = name => k <= i
  BY <1>1, <1>2, MountpointLive
<1>5. ~f.live
  BY DEF Freed, Object
<1> HIDE DEF v, f
<1>6. IsSeq(vfs_volumes) /\ IsSeq(rootfs_nodes) /\ Len(vfs_volumes) \in Nat
  BY <1>1, SeqIs, SeqFacts DEF VolumesInv, NodesInv
<1>7. vol' = [w \in Vols |-> vol'[w]] /\ ~vol'[v].live /\ \A w \in Vols : w # v => vol'[w] = vol[w]
  BY <1>1, <1>2, <1>3, <1>5 DEF VolumesInv
<1>8. vfs_volumes' = Without(vfs_volumes, k)
  <2>1. PICK j \in 1 .. Len(vfs_volumes) : vfs_volumes[j] = v /\ vfs_volumes' = Without(vfs_volumes, j)
    BY <1>2, <1>4, <1>6, ListDeleteIs
  <2>2. j = k
    BY <1>1, <1>4, <2>1 DEF VolumesInv
  <2> QED BY <2>1, <2>2
<1>9. /\ IsSeq(vfs_volumes') /\ Len(vfs_volumes') = Len(vfs_volumes) - 1 /\ Len(vfs_volumes') \in Nat
      /\ \A i \in 1 .. Len(vfs_volumes') : /\ vfs_volumes'[i] = vfs_volumes[Skip(i, k)]
                                           /\ Skip(i, k) \in 1 .. Len(vfs_volumes) /\ Skip(i, k) # k
      /\ \A i, j \in 1 .. Len(vfs_volumes') : Skip(i, k) = Skip(j, k) => i = j
  BY <1>6, <1>8, SkipIs
<1>10. \A i \in 1 .. Len(vfs_volumes') : /\ vfs_volumes'[i] \in Vols /\ vfs_volumes'[i] # v
                                         /\ vol'[vfs_volumes'[i]] = vol[vfs_volumes[Skip(i, k)]]
  <2>1. \A i \in 1 .. Len(vfs_volumes) : vfs_volumes[i] \in Vols /\ (i # k => vfs_volumes[i] # v)
    BY <1>1, <1>4 DEF VolumesInv
  <2>2. \A i \in 1 .. Len(vfs_volumes') : vfs_volumes'[i] \in Vols /\ vfs_volumes'[i] # v
    BY <1>9, <2>1
  <2> QED BY <1>7, <1>9, <2>2
<1>11. VolumesInv'
  <2>1. vfs_volumes' \in Seq(Vols)
    <3>1. DOMAIN vfs_volumes' = 1 .. Len(vfs_volumes')
      BY <1>9, SeqFacts
    <3>2. {vfs_volumes'[i] : i \in DOMAIN vfs_volumes'} \subseteq Vols
      BY <1>10, <3>1
    <3> QED BY <1>9, <3>2 DEF IsSeq
  <2>2. \A i \in 1 .. Len(vfs_volumes') : vol'[vfs_volumes'[i]].live
    <3>1. \A i \in 1 .. Len(vfs_volumes) : vol[vfs_volumes[i]].live
      BY <1>1 DEF VolumesInv
    <3> QED BY ONLY <1>9, <1>10, <3>1
  <2>3. \A i, j \in 1 .. Len(vfs_volumes') : vfs_volumes'[i] = vfs_volumes'[j] => i = j
    <3>1. \A i, j \in 1 .. Len(vfs_volumes) : vfs_volumes[i] = vfs_volumes[j] => i = j
      BY <1>1 DEF VolumesInv
    <3>2. ASSUME NEW i \in 1 .. Len(vfs_volumes'), NEW j \in 1 .. Len(vfs_volumes'),
                 vfs_volumes'[i] = vfs_volumes'[j]
          PROVE  i = j
      <4>1. vfs_volumes[Skip(i, k)] = vfs_volumes[Skip(j, k)]
        BY <1>9, <3>2, Zenon
      <4>2. Skip(i, k) = Skip(j, k)
        BY <1>9, <3>1, <4>1, Zenon
      <4> QED BY <1>9, <4>2, Zenon
    <3> QED BY ONLY <3>2
  <2>4. \A w \in Vols : vol'[w].live => VolumeFit(w)'
    <3>1. \A w \in Vols : vol'[w].live => vol'[w] = vol[w] /\ VolumeFit(w)
      BY <1>1, <1>7 DEF VolumesInv
    <3> QED BY ONLY <1>2, <3>1 DEF VolumeFit, IsTarNode
  <2> QED BY <1>1, <1>2, <1>7, <2>1, <2>2, <2>3, <2>4 DEF VolumesInv
<1>12. NodesInv'
  <2>1. IsSeq(rootfs_nodes') /\ \A i \in 1 .. Len(rootfs_nodes') : RootEntry(rootfs_nodes'[i])
    <3>1. \A i \in 1 .. Len(rootfs_nodes) : RootEntry(rootfs_nodes[i])
      BY <1>1 DEF NodesInv
    <3>2. \/ rootfs_nodes' = rootfs_nodes
          \/ \E j \in 1 .. Len(rootfs_nodes) : rootfs_nodes' = Without(rootfs_nodes, j)
      BY <1>2, <1>6, UnregisterIs
    <3>3. ASSUME NEW j \in 1 .. Len(rootfs_nodes), rootfs_nodes' = Without(rootfs_nodes, j)
          PROVE  IsSeq(rootfs_nodes') /\ \A i \in 1 .. Len(rootfs_nodes') : RootEntry(rootfs_nodes'[i])
      <4>1. /\ IsSeq(rootfs_nodes')
            /\ \A i \in 1 .. Len(rootfs_nodes') : /\ rootfs_nodes'[i] = rootfs_nodes[Skip(i, j)]
                                                  /\ Skip(i, j) \in 1 .. Len(rootfs_nodes)
        BY <1>6, <3>3, SkipIs
      <4> QED BY <3>1, <4>1
    <3> QED BY <1>6, <3>1, <3>2, <3>3
  <2>2. \A i \in 1 .. Len(rootfs_nodes') : RootEntry(rootfs_nodes[i])'
    BY <1>2, <2>1 DEF RootEntry
  <2>3. \A i \in 1 .. Len(devmgr_list) : DevEntry(devmgr_list[i])'
    BY <1>1, <1>2, Zenon DEF NodesInv, DevEntry
  <2> QED BY <1>1, <1>2, <2>1, <2>2, <2>3 DEF NodesInv
<1>13. TablesInv'
  <2> SUFFICES ASSUME failed = 0
               PROVE  /\ Len(rootfs_nodes') = Len(vfs_volumes')
                      /\ \A i \in 1 .. Len(vfs_volumes') :
                           /\ rootfs_nodes'[i].name = vol'[vfs_volumes'[i]].name
                           /\ rootfs_nodes'[i].payload = vfs_volumes'[i]
    BY <1>2 DEF TablesInv
  <2>1. /\ Len(rootfs_nodes) = Len(vfs_volumes)
        /\ \A i \in 1 .. Len(vfs_volumes) : /\ rootfs_nodes[i].name = vol[vfs_volumes[i]].name
                                            /\ rootfs_nodes[i].payload = vfs_volumes[i]
    BY <1>1 DEF TablesInv
  \* The same place in both lists
  <2>2. rootfs_nodes' = Without(rootfs_nodes, k)
    <3>1. rootfs_nodes[k].name = vol[v].name
      BY <1>4, <2>1
    <3>2. PICK j \in 1 .. Len(rootfs_nodes) :
            /\ rootfs_nodes' = Without(rootfs_nodes, j) /\ rootfs_nodes[j].name = vol[v].name
            /\ \A i \in 1 .. Len(rootfs_nodes) : rootfs_nodes[i].name = vol[v].name => j <= i
      <4>1. /\ IsSeq(rootfs_nodes) /\ k \in 1 .. Len(rootfs_nodes)
            /\ rootfs_nodes' = rootfs_unregister_volume(rootfs_nodes, v)
        BY <1>2, <1>4, <1>6, <2>1
      <4> QED BY ONLY <3>1, <4>1, UnregisterIs, Zenon
    <3>3. j <= k
      BY <2>1, <3>1, <3>2
    <3>4. k <= j
      <4>1. vol[vfs_volumes[j]].name = name
        BY <1>3, <2>1, <3>2
      <4> QED BY <1>4, <2>1, <4>1
    <3>5. j = k
      BY <3>3, <3>4
    <3> QED BY <3>2, <3>5
  <2>3. /\ Len(rootfs_nodes') = Len(rootfs_nodes) - 1
        /\ \A i \in 1 .. Len(rootfs_nodes') : rootfs_nodes'[i] = rootfs_nodes[Skip(i, k)]
    <3>1. k \in 1 .. Len(rootfs_nodes)
      BY <2>1
    <3> QED BY <1>6, <2>2, <3>1, SkipIs
  <2>4. ASSUME NEW i \in 1 .. Len(vfs_volumes')
        PROVE  /\ rootfs_nodes'[i].name = vol'[vfs_volumes'[i]].name
               /\ rootfs_nodes'[i].payload = vfs_volumes'[i]
    <3>1. Skip(i, k) \in 1 .. Len(vfs_volumes) /\ vfs_volumes'[i] = vfs_volumes[Skip(i, k)]
      BY <1>9
    <3>2. rootfs_nodes'[i] = rootfs_nodes[Skip(i, k)]
      BY <1>9, <2>1, <2>3
    <3>3. vol'[vfs_volumes'[i]] = vol[vfs_volumes[Skip(i, k)]]
      BY <1>10
    <3> QED BY <2>1, <3>1, <3>2, <3>3
  <2> QED BY <1>9, <2>1, <2>3, <2>4
<1>14. HeldInv'
  <2>1. CASE held.via = v
    <3>1. held' = Nothing
      BY <1>2, <2>1
    <3> QED BY <3>1 DEF HeldInv, Nothing
  <2>2. CASE held.via # v
    <3> DEFINE n == held.node
               u == held.via
    <3>1. HeldIn(held, vol, rootfs_vol, devfs_vol, devmgr_list) /\ held' = held
      BY <1>1, <1>2, <2>2, HeldNow
    <3>2. n \in {Null, Wild} \/ FromIn(n, u, vol', rootfs_vol, devfs_vol, devmgr_list)
      <4> SUFFICES ASSUME FromIn(n, u, vol, rootfs_vol, devfs_vol, devmgr_list)
                   PROVE  FromIn(n, u, vol', rootfs_vol, devfs_vol, devmgr_list)
        BY <3>1 DEF HeldIn
      <4>1. u \in Vols /\ vol[u].live
        BY DEF FromIn
      <4>2. vol'[u].live /\ vol'[u].family = vol[u].family
        BY <1>7, <2>2, <4>1
      <4> HIDE DEF n, u
      <4> QED BY <4>2, FromKept
    <3>3. HeldIn(held', vol', rootfs_vol', devfs_vol', devmgr_list')
      BY <1>2, <3>1, <3>2 DEF HeldIn
    <3> QED BY <3>3, HeldThen
  <2> QED BY <2>1, <2>2
<1>15. InstalledInv'
  BY <1>1, <1>2, InstalledKept
<1> QED BY <1>1, <1>2, <1>11, <1>12, <1>13, <1>14, <1>15 DEF FilesInv

----------------------------------------------------------------------------
(* Devices *)

\* devfs_finddir: the device with the name, which is the only one
LEMMA DeviceNamed ==
  ASSUME NodesInv, NEW name
  PROVE  \/ /\ FirstNamed(devmgr_list, name) = Null
            /\ \A i \in 1 .. Len(devmgr_list) : devmgr_list[i].name # name
         \/ /\ FirstNamed(devmgr_list, name) # Null
            /\ \E m \in 1 .. Len(devmgr_list) :
                 /\ FirstNamed(devmgr_list, name) = devmgr_list[m] /\ devmgr_list[m].name = name
                 /\ \A i \in 1 .. Len(devmgr_list) : devmgr_list[i].name = name => i = m
<1>1. IsSeq(devmgr_list)
  BY DEF NodesInv
<1>2. CASE /\ \A i \in 1 .. Len(devmgr_list) : devmgr_list[i].name # name
           /\ FirstNamed(devmgr_list, name) = Null
  BY <1>2
<1>3. CASE \E m \in 1 .. Len(devmgr_list) :
             devmgr_list[m].name = name /\ FirstNamed(devmgr_list, name) = devmgr_list[m]
  <2>1. PICK m \in 1 .. Len(devmgr_list) :
               devmgr_list[m].name = name /\ FirstNamed(devmgr_list, name) = devmgr_list[m]
    BY <1>3
  <2>2. devmgr_list[m] # Null
    <3>1. DevEntry(devmgr_list[m])
      BY DEF NodesInv
    <3>2. devmgr_list[m].of = "devfs"
      BY <3>1, NodeVolumes
    <3> QED BY <3>2, NodeVolumes
  <2>3. \A i \in 1 .. Len(devmgr_list) : devmgr_list[i].name = name => i = m
    BY <2>1 DEF NodesInv
  <2> QED BY <2>1, <2>2, <2>3
<1>4. \/ /\ \A i \in 1 .. Len(devmgr_list) : devmgr_list[i].name # name
         /\ FirstNamed(devmgr_list, name) = Null
      \/ \E m \in 1 .. Len(devmgr_list) :
           devmgr_list[m].name = name /\ FirstNamed(devmgr_list, name) = devmgr_list[m]
  <2> DEFINE at == NamedAt(devmgr_list, name)
  <2>1. \/ /\ \A i \in 1 .. Len(devmgr_list) : devmgr_list[i].name # name
           /\ FirstNamed(devmgr_list, name) = Null
        \/ /\ at \in 1 .. Len(devmgr_list)
           /\ devmgr_list[at].name = name /\ FirstNamed(devmgr_list, name) = devmgr_list[at]
    BY ONLY <1>1, FirstNamedIs
  <2> HIDE DEF at
  <2> QED BY ONLY <2>1
<1> QED BY ONLY <1>2, <1>3, <1>4, Zenon

LEMMA InstallStep ==
  ASSUME FilesInv, NEW d \in DOMAIN Devices, NEW name \in Names, NEW unlisted \in BOOLEAN,
         device_install(d, name, unlisted)
  PROVE  FilesInv'
<1>1. VolumesInv /\ NodesInv /\ failed \in Nat /\ TablesInv /\ HeldInv /\ InstalledInv
  BY DEF FilesInv
<1> DEFINE new == Node("devfs", name, Devices[d].flags, devfs_vol, d)
<1>2. /\ FirstNamed(devmgr_list, name) = Null
      /\ devmgr_list' = IF unlisted THEN devmgr_list ELSE Append(devmgr_list, new)
      /\ installed' = installed \cup {<<name, d>>}
      /\ UNCHANGED <<vol, vfs_volumes, rootfs_nodes, rootfs_vol, devfs_vol, held>>
  BY DEF device_install, NameTaken
<1>3. failed' \in Nat /\ (failed' = 0 => failed = 0 /\ ~unlisted /\ devfs_vol # 0)
  <2> DEFINE a == IF unlisted THEN 1 ELSE 0
             b == IF devfs_vol = 0 THEN 1 ELSE 0
  <2>1. failed' = failed + (a + b)
    BY DEF device_install, Ignores
  <2>2. a \in {0, 1} /\ b \in {0, 1} /\ (unlisted => a = 1) /\ (devfs_vol = 0 => b = 1)
    OBVIOUS
  <2> HIDE DEF a, b
  <2> QED BY <1>1, <2>1, <2>2
<1>4. \A i \in 1 .. Len(devmgr_list) : devmgr_list[i].name # name
  BY <1>1, <1>2, DeviceNamed
<1>5. /\ DevEntry(new) /\ new.name = name /\ new.payload = d /\ new.volume = devfs_vol
  BY DEF DevEntry, new, Node
<1> HIDE DEF new
<1>6. IsSeq(devmgr_list) /\ Len(devmgr_list) \in Nat
  BY <1>1, SeqFacts DEF NodesInv
<1>7. /\ IsSeq(devmgr_list') /\ Len(devmgr_list') \in Nat /\ Len(devmgr_list) <= Len(devmgr_list')
      /\ \A i \in 1 .. Len(devmgr_list) : devmgr_list'[i] = devmgr_list[i]
      /\ \A i \in 1 .. Len(devmgr_list') :
           i \in 1 .. Len(devmgr_list) \/ (i = Len(devmgr_list) + 1 /\ devmgr_list'[i] = new)
      /\ ~unlisted => Len(devmgr_list') = Len(devmgr_list) + 1 /\ devmgr_list'[Len(devmgr_list) + 1] = new
  <2>1. CASE unlisted
    BY <1>2, <1>6, <2>1
  <2>2. CASE ~unlisted
    <3>1. devmgr_list' = Append(devmgr_list, new)
      BY <1>2, <2>2
    <3>2. /\ IsSeq(devmgr_list') /\ Len(devmgr_list') = Len(devmgr_list) + 1
          /\ devmgr_list'[Len(devmgr_list) + 1] = new
          /\ \A i \in 1 .. Len(devmgr_list) : devmgr_list'[i] = devmgr_list[i]
      BY <1>6, <3>1, AppendIs
    <3>3. \A i \in 1 .. Len(devmgr_list') : i \in 1 .. Len(devmgr_list) \/ i = Len(devmgr_list) + 1
      BY <1>6, <3>2
    <3>4. Len(devmgr_list') \in Nat /\ Len(devmgr_list) <= Len(devmgr_list')
      BY <1>6, <3>2
    <3> QED BY <3>2, <3>3, <3>4
  <2> QED BY <2>1, <2>2
<1>8. VolumesInv'
  BY <1>1, <1>2, VolumesKept
<1>9. NodesInv'
  <2>1. \A i \in 1 .. Len(devmgr_list') : DevEntry(devmgr_list'[i])
    <3>1. \A i \in 1 .. Len(devmgr_list) : DevEntry(devmgr_list[i])
      BY <1>1 DEF NodesInv
    <3> QED BY <1>5, <1>7, <3>1, Zenon
  <2>2. \A i \in 1 .. Len(devmgr_list') : DevEntry(devmgr_list[i])'
    BY <1>2, <2>1, Zenon DEF DevEntry
  <2>3. \A i, j \in 1 .. Len(devmgr_list') : devmgr_list'[i].name = devmgr_list'[j].name => i = j
    <3>1. \A i, j \in 1 .. Len(devmgr_list) : devmgr_list[i].name = devmgr_list[j].name => i = j
      BY <1>1 DEF NodesInv
    <3>2. \A i \in 1 .. Len(devmgr_list') : \/ i \in 1 .. Len(devmgr_list) /\ devmgr_list'[i].name # name
                                            \/ i = Len(devmgr_list) + 1 /\ devmgr_list'[i].name = name
      BY <1>4, <1>5, <1>7
    <3> QED BY ONLY <1>7, <3>1, <3>2, Zenon
  <2>4. IsSeq(rootfs_nodes') /\ \A i \in 1 .. Len(rootfs_nodes') : RootEntry(rootfs_nodes[i])'
    BY <1>1, <1>2, EntriesKept
  <2> QED BY <1>7, <2>2, <2>3, <2>4, Zenon DEF NodesInv
<1>10. TablesInv'
  BY <1>1, <1>2, <1>3, TablesKept, Zenon
<1>11. HeldInv'
  <2> DEFINE n == held.node
             u == held.via
  <2>1. HeldIn(held, vol, rootfs_vol, devfs_vol, devmgr_list)
    BY <1>1, HeldNow
  <2>2. n \in Range(devmgr_list) => n \in Range(devmgr_list')
    <3>1. DOMAIN devmgr_list = 1 .. Len(devmgr_list) /\ DOMAIN devmgr_list' = 1 .. Len(devmgr_list')
      BY <1>6, <1>7, SeqFacts
    <3>2. \A i \in 1 .. Len(devmgr_list) : i \in 1 .. Len(devmgr_list')
      BY <1>6, <1>7
    <3> HIDE DEF n
    <3> QED BY <1>7, <3>1, <3>2, Zenon DEF Range
  <2>3. n \in {Null, Wild} \/ FromIn(n, u, vol, rootfs_vol, devfs_vol, devmgr_list')
    <3> SUFFICES ASSUME FromIn(n, u, vol, rootfs_vol, devfs_vol, devmgr_list)
                 PROVE  FromIn(n, u, vol, rootfs_vol, devfs_vol, devmgr_list')
      BY <2>1 DEF HeldIn
    <3> HIDE DEF n, u
    <3> QED BY <2>2 DEF FromIn
  <2>4. HeldIn(held', vol', rootfs_vol', devfs_vol', devmgr_list')
    BY <1>2, <2>1, <2>3 DEF HeldIn
  <2> QED BY <2>4, HeldThen
<1>12. InstalledInv'
  <2>1. \A x \in installed' : x[1] \in Names
    BY ONLY <1>1, <1>2 DEF InstalledInv
  <2>2. ASSUME failed' = 0
        PROVE  /\ \A i \in 1 .. Len(devmgr_list') : devmgr_list'[i].volume # 0
               /\ \A x \in installed' : \E i \in 1 .. Len(devmgr_list') :
                    devmgr_list'[i].name = x[1] /\ devmgr_list'[i].payload = x[2]
    <3>1. failed = 0 /\ ~unlisted /\ devfs_vol # 0
      BY <1>3, <2>2
    <3>2. /\ \A i \in 1 .. Len(devmgr_list) : devmgr_list[i].volume # 0
          /\ \A x \in installed : \E i \in 1 .. Len(devmgr_list) :
               devmgr_list[i].name = x[1] /\ devmgr_list[i].payload = x[2]
      BY <1>1, <3>1 DEF InstalledInv
    <3>3. \A i \in 1 .. Len(devmgr_list') : devmgr_list'[i].volume # 0
      BY <1>5, <1>7, <3>1, <3>2
    <3>4. \A i \in 1 .. Len(devmgr_list) : i \in 1 .. Len(devmgr_list')
      BY <1>6, <1>7
    <3>5. ASSUME NEW x \in installed
          PROVE  \E i \in 1 .. Len(devmgr_list') :
                    devmgr_list'[i].name = x[1] /\ devmgr_list'[i].payload = x[2]
      BY <1>7, <3>2, <3>4
    <3>6. ASSUME NEW x, x = <<name, d>>
          PROVE  \E i \in 1 .. Len(devmgr_list') :
                    devmgr_list'[i].name = x[1] /\ devmgr_list'[i].payload = x[2]
      <4>1. Len(devmgr_list) + 1 \in 1 .. Len(devmgr_list') /\ devmgr_list'[Len(devmgr_list) + 1] = new
        BY <1>6, <1>7, <3>1
      <4>2. x[1] = name /\ x[2] = d
        BY <3>6
      <4> QED BY <1>5, <4>1, <4>2
    <3> QED BY <1>2, <3>3, <3>5, <3>6
  <2> QED BY <2>1, <2>2 DEF InstalledInv
<1> QED BY <1>3, <1>8, <1>9, <1>10, <1>11, <1>12 DEF FilesInv

LEMMA RemoveStep ==
  ASSUME FilesInv, NEW name, device_remove(name)
  PROVE  FilesInv'
<1>1. VolumesInv /\ NodesInv /\ failed \in Nat /\ TablesInv /\ HeldInv /\ InstalledInv
  BY DEF FilesInv
<1> DEFINE n == FirstNamed(devmgr_list, name)
<1>2. /\ n # Null
      /\ devmgr_list' = list_delete(devmgr_list, n)
      /\ installed' = {x \in installed : x[1] # name}
      /\ held' = IF held.node = n THEN Nothing ELSE held
      /\ UNCHANGED <<vol, vfs_volumes, rootfs_nodes, rootfs_vol, devfs_vol, failed>>
  BY DEF device_remove
<1>3. PICK m \in 1 .. Len(devmgr_list) :
        /\ n = devmgr_list[m] /\ devmgr_list[m].name = name
        /\ \A i \in 1 .. Len(devmgr_list) : devmgr_list[i].name = name => i = m
  BY <1>1, <1>2, DeviceNamed, Zenon
<1> HIDE DEF n
<1>4. IsSeq(devmgr_list) /\ Len(devmgr_list) \in Nat
  BY <1>1, SeqFacts DEF NodesInv
<1>5. devmgr_list' = Without(devmgr_list, m)
  <2>1. PICK j \in 1 .. Len(devmgr_list) : devmgr_list[j] = n /\ devmgr_list' = Without(devmgr_list, j)
    BY <1>2, <1>3, <1>4, ListDeleteIs
  <2>2. j = m
    BY <1>3, <2>1
  <2> QED BY <2>1, <2>2
<1>6. /\ IsSeq(devmgr_list') /\ Len(devmgr_list') \in Nat
      /\ \A i \in 1 .. Len(devmgr_list') : /\ devmgr_list'[i] = devmgr_list[Skip(i, m)]
                                           /\ Skip(i, m) \in 1 .. Len(devmgr_list)
      /\ \A i, j \in 1 .. Len(devmgr_list') : Skip(i, m) = Skip(j, m) => i = j
  BY <1>4, <1>5, SkipIs
<1>7. \A j \in 1 .. Len(devmgr_list) : j # m => \E i \in 1 .. Len(devmgr_list') : devmgr_list'[i] = devmgr_list[j]
  BY <1>4, <1>5, SkipOnto
<1>8. VolumesInv'
  BY <1>1, <1>2, VolumesKept
<1>9. NodesInv'
  <2>1. \A i \in 1 .. Len(devmgr_list') : DevEntry(devmgr_list[i])'
    <3>1. \A i \in 1 .. Len(devmgr_list) : DevEntry(devmgr_list[i])
      BY <1>1 DEF NodesInv
    <3>2. \A i \in 1 .. Len(devmgr_list') : DevEntry(devmgr_list'[i])
      BY <1>6, <3>1, Zenon
    <3> QED BY <1>2, <3>2, Zenon DEF DevEntry
  <2>2. \A i, j \in 1 .. Len(devmgr_list') : devmgr_list'[i].name = devmgr_list'[j].name => i = j
    <3>1. \A i, j \in 1 .. Len(devmgr_list) : devmgr_list[i].name = devmgr_list[j].name => i = j
      BY <1>1 DEF NodesInv
    <3> QED BY <1>6, <3>1
  <2>3. IsSeq(rootfs_nodes') /\ \A i \in 1 .. Len(rootfs_nodes') : RootEntry(rootfs_nodes[i])'
    BY <1>1, <1>2, EntriesKept
  <2> QED BY <1>6, <2>1, <2>2, <2>3, Zenon DEF NodesInv
<1>10. TablesInv'
  BY <1>1, <1>2, TablesKept
<1>11. HeldInv'
  <2>1. CASE held.node = n
    <3>1. held' = Nothing
      BY <1>2, <2>1
    <3> QED BY <3>1 DEF HeldInv, Nothing
  <2>2. CASE held.node # n
    <3> DEFINE h == held.node
               u == held.via
    <3>1. HeldIn(held, vol, rootfs_vol, devfs_vol, devmgr_list) /\ held' = held
      BY <1>1, <1>2, <2>2, HeldNow
    <3>2. h \in Range(devmgr_list) => h \in Range(devmgr_list')
      <4>1. DOMAIN devmgr_list = 1 .. Len(devmgr_list) /\ DOMAIN devmgr_list' = 1 .. Len(devmgr_list')
        BY <1>4, <1>6, SeqFacts
      <4>2. h # devmgr_list[m]
        BY <1>3, <2>2
      <4> HIDE DEF h
      <4> QED BY <1>7, <4>1, <4>2 DEF Range
    <3>3. h \in {Null, Wild} \/ FromIn(h, u, vol, rootfs_vol, devfs_vol, devmgr_list')
      <4> SUFFICES ASSUME FromIn(h, u, vol, rootfs_vol, devfs_vol, devmgr_list)
                   PROVE  FromIn(h, u, vol, rootfs_vol, devfs_vol, devmgr_list')
        BY <3>1 DEF HeldIn
      <4> HIDE DEF h, u
      <4> QED BY <3>2 DEF FromIn
    <3>4. HeldIn(held', vol', rootfs_vol', devfs_vol', devmgr_list')
      BY <1>2, <3>1, <3>3 DEF HeldIn
    <3> QED BY <3>4, HeldThen
  <2> QED BY <2>1, <2>2
<1>12. InstalledInv'
  <2>1. \A x \in installed' : x \in installed /\ x[1] # name /\ x[1] \in Names
    BY <1>1, <1>2, Zenon DEF InstalledInv
  <2>2. ASSUME failed' = 0
        PROVE  /\ \A i \in 1 .. Len(devmgr_list') : devmgr_list'[i].volume # 0
               /\ \A x \in installed' : \E i \in 1 .. Len(devmgr_list') :
                    devmgr_list'[i].name = x[1] /\ devmgr_list'[i].payload = x[2]
    <3>1. /\ \A i \in 1 .. Len(devmgr_list) : devmgr_list[i].volume # 0
          /\ \A x \in installed : \E i \in 1 .. Len(devmgr_list) :
               devmgr_list[i].name = x[1] /\ devmgr_list[i].payload = x[2]
      <4>1. failed = 0
        BY <1>2, <2>2
      <4> QED BY <1>1, <4>1, Zenon DEF InstalledInv
    <3>2. \A i \in 1 .. Len(devmgr_list') : devmgr_list'[i].volume # 0
      BY <1>6, <3>1
    <3>3. ASSUME NEW x \in installed'
          PROVE  \E i \in 1 .. Len(devmgr_list') :
                    devmgr_list'[i].name = x[1] /\ devmgr_list'[i].payload = x[2]
      <4>1. PICK j \in 1 .. Len(devmgr_list) : devmgr_list[j].name = x[1] /\ devmgr_list[j].payload = x[2]
        BY <2>1, <3>1
      <4>2. j # m
        BY <1>3, <2>1, <4>1
      <4>3. PICK i \in 1 .. Len(devmgr_list') : devmgr_list'[i] = devmgr_list[j]
        BY <1>7, <4>2
      <4> QED BY <4>1, <4>3
    <3> QED BY <3>2, <3>3
  <2> QED BY <2>1, <2>2 DEF InstalledInv
<1> QED BY <1>1, <1>2, <1>8, <1>9, <1>10, <1>11, <1>12 DEF FilesInv

----------------------------------------------------------------------------
(* Every step *)

LEMMA FilesKept ==
  ASSUME FilesInv, UNCHANGED <<vol, tables, failed, held, installed>>
  PROVE  FilesInv'
<1>1. UNCHANGED <<vol, vfs_volumes, rootfs_nodes, rootfs_vol, devmgr_list, devfs_vol, failed, held, installed>>
  BY DEF tables
<1>2. VolumesInv'
  BY <1>1, VolumesKept DEF FilesInv
<1>3. NodesInv'
  BY <1>1, NodesKept DEF FilesInv
<1>4. TablesInv' /\ failed' \in Nat
  BY <1>1, TablesKept DEF FilesInv
<1>5. HeldInv'
  BY <1>1, HeldKept DEF FilesInv
<1>6. InstalledInv'
  BY <1>1, InstalledKept DEF FilesInv
<1> QED BY <1>2, <1>3, <1>4, <1>5, <1>6 DEF FilesInv

\* A client may hold any node of a volume in use.
LEMMA HoldStep ==
  ASSUME FilesInv, UNCHANGED <<vol, tables, failed, installed>>, NEW n, NEW v,
         held' = [node |-> n, via |-> v], n \in {Null, Wild} \/ From(n, v)
  PROVE  FilesInv'
<1>1. UNCHANGED <<vol, vfs_volumes, rootfs_nodes, rootfs_vol, devmgr_list, devfs_vol, failed, installed>>
  BY DEF tables
<1>2. VolumesInv'
  BY <1>1, VolumesKept DEF FilesInv
<1>3. NodesInv'
  BY <1>1, NodesKept DEF FilesInv
<1>4. TablesInv' /\ failed' \in Nat
  BY <1>1, TablesKept DEF FilesInv
<1>5. HeldInv'
  <2>1. n \in {Null, Wild} \/ FromIn(n, v, vol, rootfs_vol, devfs_vol, devmgr_list)
    BY DEF From, FromIn, vn_volume, VolumeIn
  <2>2. HeldIn(held', vol', rootfs_vol', devfs_vol', devmgr_list')
    BY <1>1, <2>1 DEF HeldIn
  <2> QED BY <2>2, HeldThen
<1>6. InstalledInv'
  BY <1>1, InstalledKept DEF FilesInv
<1> QED BY <1>2, <1>3, <1>4, <1>5, <1>6 DEF FilesInv

LEMMA ResolveStep ==
  ASSUME FilesInv, NEW path \in ClientPaths, Resolve(path)
  PROVE  FilesInv'
<1> DEFINE n == fs_resolve(path)
           v == find_mountpoint_by_name(strsep(path, ":").out)
<1>1. /\ UNCHANGED <<vol, tables, failed, installed>>
      /\ held' = [node |-> Null, via |-> 0] \/ held' = [node |-> n, via |-> v]
  BY DEF Resolve, Nothing
<1>2. IsSeq(path)
  BY VfsAssumption, SeqIs
<1>3. n \in {Null, Wild} \/ From(n, v)
  BY <1>2, ResolveFrom DEF FilesInv
<1> HIDE DEF n, v
<1>4. CASE held' = [node |-> n, via |-> v]
  BY <1>1, <1>3, <1>4, HoldStep
<1>5. CASE held' = [node |-> Null, via |-> 0]
  <2>1. Null \in {Null, Wild} \/ From(Null, 0)
    OBVIOUS
  <2> QED BY <1>1, <1>5, <2>1, HoldStep
<1> QED BY <1>1, <1>4, <1>5

LEMMA ReaddirStep ==
  ASSUME FilesInv, NEW index \in Nat, Readdir(index)
  PROVE  FilesInv'
<1> DEFINE h == held.node
           v == held.via
           n == fs_readdir(h, index)
<1>1. h # Wild /\ n # Null /\ UNCHANGED <<vol, tables, failed, installed>>
  BY DEF Readdir
<1>2. held' = [node |-> n, via |-> v]
  <2>1. held' = [held EXCEPT !.node = n]
    BY DEF Readdir
  <2>2. held = [node |-> h, via |-> v]
    BY DEF FilesInv, HeldInv
  <2> HIDE DEF h, v, n
  <2> QED BY <2>1, <2>2
<1>3. h # Null
  BY <1>1, NodeVolumes DEF fs_readdir
<1>4. From(h, v)
  BY <1>1, <1>3 DEF FilesInv, HeldInv
<1> HIDE DEF h, v
<1>5. n = Null \/ From(n, v)
  BY <1>4, ReaddirFrom DEF FilesInv
<1> HIDE DEF n
<1> QED BY <1>1, <1>2, <1>5, HoldStep

LEMMA MountStep ==
  ASSUME FilesInv, NEW family, NEW name, NEW archive, vfs_mount(family, name, archive),
         installed' = installed
  PROVE  FilesInv'
<1>1. CASE MountRefused(family, name)
  <2>1. UNCHANGED <<vol, tables, failed, held, installed>>
    BY <1>1 DEF MountRefused
  <2> QED BY <2>1, FilesKept
<1>2. CASE \E v \in Vols : MountFails(family, name, v)
  BY <1>2, MountFailsStep
<1>3. CASE \E v \in Vols : \E lost \in IF family = "tarfs" THEN Losses ELSE {{}},
             unlisted, unregistered \in BOOLEAN :
            MountSucceeds(family, name, v, archive, lost, unlisted, unregistered)
  BY <1>3, MountSucceedsStep
<1> QED BY <1>1, <1>2, <1>3 DEF vfs_mount

LEMMA VfsInit == Init => VfsInv
<1> SUFFICES ASSUME Init PROVE VfsInv
  OBVIOUS
<1>1. PICK v \in Vols :
        /\ vol = [w \in Vols |-> IF w # v THEN Unused
                                 ELSE Object(TRUE, <<"ROOT">>, "rootfs", rootfs_root, 0, {})]
        /\ vfs_volumes = <<v>> /\ rootfs_vol = v
        /\ rootfs_nodes = <<Node("rootfs", <<"ROOT">>, VN_FREGFILE, v, v)>>
  BY DEF Init
<1>2. devmgr_list = <<>> /\ devfs_vol = 0 /\ driver = 1 /\ failed = 0 /\ held = Nothing /\ installed = {}
  BY DEF Init
<1> DEFINE o == Object(TRUE, <<"ROOT">>, "rootfs", rootfs_root, 0, {})
           e == Node("rootfs", <<"ROOT">>, VN_FREGFILE, v, v)
<1>3. o.live /\ o.family = "rootfs" /\ o.root = rootfs_root /\ o.name = <<"ROOT">> /\ ~Unused.live
  BY DEF Object, Unused, Freed
<1>4. e.name = <<"ROOT">> /\ e.payload = v /\ RootEntry(e)
  BY <1>1 DEF RootEntry, Node
<1>5. vol[v] = o /\ (\A w \in Vols : w # v => vol[w] = Unused) /\ vol = [w \in Vols |-> vol[w]]
  BY <1>1
<1>6. rootfs_nodes = <<e>>
  BY <1>1
<1> HIDE DEF o, e
<1>7. VolumesInv
  <2>1. vfs_volumes \in Seq(Vols) /\ Len(vfs_volumes) = 1 /\ vfs_volumes[1] = v
    BY <1>1
  <2>2. \A i \in 1 .. Len(vfs_volumes) : i = 1
    BY <2>1
  <2>3. \A w \in Vols : vol[w].live => VolumeFit(w)
    BY <1>1, <1>3, <1>5, Zenon DEF VolumeFit
  <2>4. \A i \in 1 .. Len(vfs_volumes) : vol[vfs_volumes[i]].live
    BY <1>3, <1>5, <2>1, <2>2, Zenon
  <2>5. \A i, j \in 1 .. Len(vfs_volumes) : vfs_volumes[i] = vfs_volumes[j] => i = j
    BY <2>2, Zenon
  <2>6. rootfs_vol \in Vols /\ devfs_vol \in Vols \cup {0}
    BY <1>1, <1>2, Zenon
  <2> QED BY <1>5, <2>1, <2>3, <2>4, <2>5, <2>6, Zenon DEF VolumesInv
<1>8. NodesInv
  <2>1. IsSeq(rootfs_nodes) /\ Len(rootfs_nodes) = 1 /\ rootfs_nodes[1] = e
    BY <1>6 DEF IsSeq
  <2>2. \A i \in 1 .. Len(rootfs_nodes) : RootEntry(rootfs_nodes[i])
    BY <1>4, <2>1
  <2>3. IsSeq(devmgr_list) /\ Len(devmgr_list) = 0 /\ 1 .. Len(devmgr_list) = {}
    BY <1>2 DEF IsSeq
  <2> QED BY <2>1, <2>2, <2>3 DEF NodesInv
<1>9. TablesInv
  <2>1. Len(rootfs_nodes) = 1 /\ rootfs_nodes[1] = e /\ Len(vfs_volumes) = 1 /\ vfs_volumes[1] = v
    BY <1>1, <1>6
  <2>2. \A i \in 1 .. Len(vfs_volumes) : i = 1
    BY <2>1
  <2> QED BY <1>3, <1>4, <1>5, <2>1, <2>2 DEF TablesInv
<1>10. HeldInv
  BY <1>2 DEF HeldInv, Nothing
<1>11. InstalledInv
  <2>1. 1 .. Len(devmgr_list) = {}
    BY <1>2
  <2> QED BY <1>2, <2>1 DEF InstalledInv
<1>12. driver \in DOMAIN Drivers
  BY <1>2, DevicesAssumption
<1> QED BY <1>2, <1>7, <1>8, <1>9, <1>10, <1>11, <1>12 DEF VfsInv, FilesInv

LEMMA VfsStep == VfsInv /\ [Next]_vars => VfsInv'
<1> SUFFICES ASSUME VfsInv, [Next]_vars PROVE VfsInv'
  OBVIOUS
<1>0. FilesInv /\ driver \in DOMAIN Drivers
  BY DEF VfsInv
<1>1. CASE DeviceInit
  <2>1. vfs_mount("devfs", <<"DEV">>, 0) /\ driver' = driver /\ installed' = installed
    BY <1>1 DEF DeviceInit
  <2> QED BY <1>0, <2>1, MountStep DEF VfsInv
<1>2. CASE DriverInit
  <2> DEFINE d == Drivers[driver]
  <2>1. d \in DOMAIN Devices /\ Devices[d].name \in Names
    BY <1>0, DevicesAssumption DEF Names
  <2>2. driver' \in DOMAIN Drivers
    <3>1. Drivers \in Seq(DOMAIN Devices)
      BY DevicesAssumption
    <3>2. DOMAIN Drivers = 1 .. Len(Drivers) /\ Len(Drivers) \in Nat
      BY <3>1
    <3>3. driver' = driver \/ (driver < Len(Drivers) /\ driver' = driver + 1)
      BY <1>2 DEF DriverInit
    <3> QED BY <1>0, <3>2, <3>3
  <2>3. CASE InstallRefused(Devices[d].name)
    <3>1. UNCHANGED <<vol, tables, failed, held, installed>>
      BY <2>3 DEF InstallRefused
    <3>2. FilesInv'
      BY <1>0, <3>1, FilesKept
    <3> QED BY <2>2, <3>2 DEF VfsInv
  <2>4. CASE \E unlisted \in BOOLEAN : device_install(d, Devices[d].name, unlisted)
    <3> HIDE DEF d
    <3>1. FilesInv'
      BY <1>0, <2>1, <2>4, InstallStep
    <3> QED BY <2>2, <3>1 DEF VfsInv
  <2> QED BY <1>2, <2>3, <2>4 DEF DriverInit
<1>3. CASE \E mods \in Modules : ramdisk_init(mods)
  <2> PICK mods \in Modules : ramdisk_init(mods)
    BY <1>3
  <2>1. /\ \/ vfs_mount("tarfs", <<"INITRD">>, mods[1].archive)
           \/ UNCHANGED <<vol, tables, freed, failed, held>>
        /\ driver' = driver /\ installed' = installed
    BY Zenon DEF ramdisk_init
  <2>2. FilesInv'
    BY <1>0, <2>1, MountStep, FilesKept
  <2> QED BY <1>0, <2>1, <2>2 DEF VfsInv
<1>4. CASE \E c \in MountCalls : Mount(c.family, c.name, c.archive)
  <2> PICK c \in MountCalls : Mount(c.family, c.name, c.archive)
    BY <1>4
  <2>1. vfs_mount(c.family, c.name, c.archive) /\ driver' = driver /\ installed' = installed
    BY DEF Mount, Running
  <2> QED BY <1>0, <2>1, MountStep DEF VfsInv
<1>5. CASE \E name \in VolNames : Umount(name)
  <2> PICK name \in VolNames : Umount(name)
    BY <1>5
  <2>1. vfs_umount(name) /\ driver' = driver /\ installed' = installed
    BY DEF Umount, Running
  <2> QED BY <1>0, <2>1, UmountStep DEF VfsInv
<1>6. CASE \E d \in DOMAIN Devices, name \in DevNames, unlisted \in BOOLEAN : Install(d, name, unlisted)
  <2> PICK d \in DOMAIN Devices, name \in DevNames, unlisted \in BOOLEAN : Install(d, name, unlisted)
    BY <1>6
  <2>1. device_install(d, name, unlisted) /\ driver' = driver /\ name \in Names
    BY DEF Install, Running, Names
  <2> QED BY <1>0, <2>1, InstallStep DEF VfsInv
<1>7. CASE \E name \in DevNames : Uninstall(name)
  <2> PICK name \in DevNames : Uninstall(name)
    BY <1>7
  <2>1. device_remove(name) /\ driver' = driver
    BY DEF Uninstall, Running
  <2> QED BY <1>0, <2>1, RemoveStep DEF VfsInv
<1>8. CASE \E path \in ClientPaths : Resolve(path)
  <2> PICK path \in ClientPaths : Resolve(path)
    BY <1>8
  <2>1. driver' = driver
    BY DEF Resolve, Running
  <2> QED BY <1>0, <2>1, ResolveStep DEF VfsInv
<1>9. CASE \E index \in {0, 1} : Readdir(index)
  <2> PICK index \in {0, 1} : Readdir(index)
    BY <1>9
  <2>1. driver' = driver /\ index \in Nat
    BY DEF Readdir, Running
  <2> QED BY <1>0, <2>1, ReaddirStep DEF VfsInv
<1>10. CASE UNCHANGED vars
  <2>1. UNCHANGED <<vol, tables, failed, held, installed>> /\ driver' = driver
    BY <1>10 DEF vars
  <2> QED BY <1>0, <2>1, FilesKept DEF VfsInv
<1> QED BY <1>1, <1>2, <1>3, <1>4, <1>5, <1>6, <1>7, <1>8, <1>9, <1>10 DEF Next

LEMMA VfsInvariant == Spec => []VfsInv
  BY VfsInit, VfsStep, PTL DEF Spec

----------------------------------------------------------------------------
(* What the invariant says *)

\* The root directory lists exactly the mounted volumes, in the order in which
\* they were mounted, and every listed volume is in use, as long as no failed
\* list_append was ignored: vfs_umount takes the same place out of both lists,
\* because the first entry with a name stands for the first volume with it.
THEOREM FilesTablesAgree == Spec => []TablesAgree
<1>1. VfsInv => TablesAgree
  <2> SUFFICES ASSUME VfsInv, failed = 0
               PROVE  /\ NamesOf(rootfs_nodes) = [i \in DOMAIN vfs_volumes |-> vol[vfs_volumes[i]].name]
                      /\ \A i \in DOMAIN vfs_volumes :
                           rootfs_nodes[i].payload = vfs_volumes[i] /\ vol[vfs_volumes[i]].live
    BY DEF TablesAgree
  <2>1. /\ Len(rootfs_nodes) = Len(vfs_volumes)
        /\ \A i \in 1 .. Len(vfs_volumes) : /\ rootfs_nodes[i].name = vol[vfs_volumes[i]].name
                                            /\ rootfs_nodes[i].payload = vfs_volumes[i]
    BY Zenon DEF VfsInv, FilesInv, TablesInv
  <2>2. DOMAIN rootfs_nodes = 1 .. Len(rootfs_nodes) /\ DOMAIN vfs_volumes = 1 .. Len(vfs_volumes)
    BY SeqFacts DEF VfsInv, FilesInv, NodesInv, VolumesInv
  <2>3. \A i \in 1 .. Len(vfs_volumes) : vol[vfs_volumes[i]].live
    BY DEF VfsInv, FilesInv, VolumesInv
  <2> QED BY <2>1, <2>2, <2>3, Zenon DEF NamesOf
<1> QED BY <1>1, VfsInvariant, PTL

\* fs_resolve never returns a node of a volume that was freed, and every call on
\* the node it returns is refused or reaches the file system, and for a device
\* the device, that the node stands for: whatever was mounted, unmounted,
\* installed and removed before, and whichever allocations failed.
THEOREM FilesResolvedIsSafe == Spec => []ResolvedIsSafe
<1>1. VfsInv => ResolvedIsSafe
  <2> SUFFICES ASSUME VfsInv, NEW path \in Paths, fs_resolve(path) \notin {Null, Wild}
               PROVE  Safe(fs_resolve(path))
    BY DEF ResolvedIsSafe
  <2> DEFINE n == fs_resolve(path)
             v == find_mountpoint_by_name(strsep(path, ":").out)
  <2>1. VolumesInv /\ NodesInv /\ IsSeq(path)
    BY VfsAssumption, SeqIs DEF VfsInv, FilesInv
  <2>2. From(n, v)
    BY <2>1, ResolveFrom
  <2> HIDE DEF n, v
  <2>3. Safe(n)
    BY <2>1, <2>2, SafeFrom
  <2> QED BY <2>3 DEF n
<1> QED BY <1>1, VfsInvariant, PTL

\* A node that a client has looked up stays good until its volume is unmounted or
\* its device removed: no vfs_mount, device_install or removal of something else
\* voids it, although malloc gives the memory of freed volumes out again.
THEOREM FilesHeldIsSafe == Spec => []HeldIsSafe
<1>1. VfsInv => HeldIsSafe
  <2> SUFFICES ASSUME VfsInv, held.node \notin {Null, Wild}
               PROVE  /\ Safe(held.node)
                      /\ held.node.of = "devfs" /\ held.node # devfs_rootdir =>
                           held.node \in Range(devmgr_list)
    BY DEF HeldIsSafe
  <2> DEFINE n == held.node
             v == held.via
  <2>1. VolumesInv /\ From(n, v)
    BY DEF VfsInv, FilesInv, HeldInv
  <2> HIDE DEF n, v
  <2>2. Safe(n)
    BY <2>1, SafeFrom
  <2>3. n.of = "devfs" /\ n # devfs_rootdir => n \in Range(devmgr_list)
    BY <2>1 DEF From
  <2> QED BY <2>2, <2>3 DEF n
<1> QED BY <1>1, VfsInvariant, PTL
=============================================================================
