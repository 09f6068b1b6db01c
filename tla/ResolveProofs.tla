--------------------------- MODULE ResolveProofs ----------------------------
(***************************************************************************)
(* What a path leads to, for every archive, every list of devices, every   *)
(* path and whichever allocations fail: an installed device is found under *)
(* its name, and a path into an archive finds what the archive has.        *)
(***************************************************************************)
EXTENDS VfsProofs, FiniteSetTheorems

----------------------------------------------------------------------------
(* Paths of devices *)

\* A path of one component is found in one turn.
LEMMA FollowOne ==
  ASSUME NEW root, NEW path, Len(path) \in Nat \ {0}, path # NoString, Positions(path, "/") = {}
  PROVE  fs_follow_path(root, path) = fs_finddir(root, path)
<1>1. PICK turn :
        /\ fs_follow_path(root, path) = turn[Len(path) + 1].node
        /\ turn[0] = [node |-> root, path |-> path]
        /\ \A i \in 1 .. Len(path) + 1 :
             turn[i] = IF turn[i - 1].path = NoString THEN turn[i - 1] ELSE Follow(turn[i - 1])
  BY FollowTurns
<1> DEFINE N == Len(path) + 1
           r == [node |-> fs_finddir(root, path), path |-> NoString]
<1>2. Follow([node |-> root, path |-> path]) = r
  <2>1. strsep(path, "/") = [out |-> path, rest |-> NoString]
    BY Zenon DEF strsep
  <2> QED BY <2>1 DEF Follow
<1>3. r.path = NoString /\ r.node = fs_finddir(root, path)
  OBVIOUS
<1> HIDE DEF r
<1>4. turn[1] = r
  <2> DEFINE z == 0
  <2>1. turn[z + 1] = IF turn[z].path = NoString THEN turn[z] ELSE Follow(turn[z])
    <3>1. z + 1 \in 1 .. Len(path) + 1 /\ (z + 1) - 1 = z
      OBVIOUS
    <3> HIDE DEF z
    <3> QED BY <1>1, <3>1
  <2>2. turn[z] = [node |-> root, path |-> path] /\ turn[z].path # NoString
    BY <1>1
  <2>3. turn[z + 1] = r
    BY <1>2, <2>1, <2>2
  <2> QED BY <2>3
<1> DEFINE S == {i \in Nat : i \in 1 .. N => turn[i] = r}
<1>5. S = Nat
  <2>1. 0 \in S
    OBVIOUS
  <2>2. ASSUME NEW n \in S PROVE n + 1 \in S
    <3> SUFFICES ASSUME n + 1 \in 1 .. N PROVE turn[n + 1] = r
      OBVIOUS
    <3>1. CASE n = 0
      BY <1>4, <3>1
    <3>2. CASE n # 0
      <4>1. n \in 1 .. N /\ turn[n] = r
        BY <3>2
      <4>2. turn[n + 1] = IF turn[n].path = NoString THEN turn[n] ELSE Follow(turn[n])
        <5>1. n + 1 \in 1 .. Len(path) + 1 /\ (n + 1) - 1 = n
          OBVIOUS
        <5> QED BY <1>1, <5>1, Zenon
      <4> QED BY <1>3, <4>1, <4>2
    <3> QED BY <3>1, <3>2
  <2>3. S \subseteq Nat
    OBVIOUS
  <2> HIDE DEF S
  <2> QED BY <2>1, <2>2, <2>3, InductionSet
<1>6. turn[N] = r
  <2>1. N \in S /\ N \in 1 .. N
    BY <1>5
  <2> QED BY <2>1
<1> QED BY <1>1, <1>3, <1>6

LEMMA HeadOf ==
  ASSUME NEW A, NEW s \in Seq(A), Len(s) >= 1
  PROVE  SubSeq(s, 1, 1) = <<s[1]>>
<1> DEFINE t == SubSeq(s, 1, 1)
           u == <<s[1]>>
<1>1. t \in Seq(A) /\ Len(t) = 1 /\ t[1] = s[1]
  OBVIOUS
<1>2. s[1] \in A
  OBVIOUS
<1>3. u \in Seq(A) /\ Len(u) = 1 /\ u[1] = s[1]
  BY <1>2
<1> HIDE DEF t, u
<1>4. \A i \in 1 .. 1 : t[i] = u[i]
  BY <1>1, <1>3
<1>5. t = u
  BY <1>1, <1>3, <1>4
<1> QED BY <1>5 DEF t, u

\* How fs_resolve takes a path of the volume DEV apart
LEMMA DevPath ==
  ASSUME NEW name, name \in Seq(STRING \ {"NULL", "/"}), name # <<>>
  PROVE  LET path == <<"DEV", ":", "/">> \o name
         IN  fs_resolve(path) =
               LET root == vfs_get_volume(<<"DEV">>)
               IN  IF root = Null \/ root = Wild THEN root ELSE fs_follow_path(root, name)
<1> DEFINE head == <<"DEV", ":", "/">>
           path == head \o name
           L == Len(name)
           A == {name[i] : i \in DOMAIN name} \cup {"DEV", ":", "/"}
<1>1. L \in Nat \ {0} /\ name \in Seq(A) /\ head \in Seq(A)
  OBVIOUS
<1>2. Len(head) = 3 /\ head[1] = "DEV" /\ head[2] = ":" /\ head[3] = "/"
  OBVIOUS
<1> HIDE DEF head, A, L
<1>3. /\ path \in Seq(A) /\ Len(path) = L + 3
      /\ path[1] = "DEV" /\ path[2] = ":" /\ path[3] = "/"
      /\ \A i \in 1 .. L : path[i + 3] = name[i]
  <2>1. /\ path \in Seq(A) /\ Len(path) = 3 + Len(name)
        /\ \A i \in 1 .. 3 : path[i] = head[i]
        /\ \A i \in 1 .. Len(name) : path[i + 3] = name[i]
    <3>1. /\ path \in Seq(A) /\ Len(path) = Len(head) + Len(name)
          /\ \A i \in 1 .. Len(head) : path[i] = head[i]
          /\ \A i \in 1 .. Len(name) : path[i + Len(head)] = name[i]
      BY <1>1, ConcatAt
    <3> HIDE DEF path
    <3> QED BY <1>2, <3>1
  <2> HIDE DEF path
  <2>2. path[1] = "DEV" /\ path[2] = ":" /\ path[3] = "/"
    BY <1>2, <2>1
  <2> QED BY <1>1, <2>1, <2>2 DEF L
<1> HIDE DEF path
<1>4. Min(Positions(path, ":")) = 2 /\ Positions(path, ":") # {}
  <2> DEFINE I == Positions(path, ":")
  <2>1. 2 \in I /\ I \subseteq Nat /\ \A i \in I : i >= 2
    BY <1>1, <1>3 DEF Positions
  <2> HIDE DEF I
  <2>2. Min(I) \in I /\ \A j \in I : Min(I) <= j
    BY <2>1, MinIs
  <2> DEFINE k == Min(I)
  <2> HIDE DEF k
  <2>3. k \in I /\ k <= 2
    BY <2>1, <2>2 DEF k
  <2>4. k = 2
    BY <2>1, <2>3
  <2> QED BY <2>1, <2>4 DEF I, k
<1> DEFINE rest == SubSeq(path, 3, Len(path))
<1>5. strsep(path, ":") = [out |-> SubSeq(path, 1, 1), rest |-> rest]
  <2> DEFINE k == Min(Positions(path, ":"))
  <2>1. strsep(path, ":") = [out |-> SubSeq(path, 1, k - 1), rest |-> SubSeq(path, k + 1, Len(path))]
    BY <1>4 DEF strsep
  <2>2. k = 2
    BY <1>4
  <2> HIDE DEF k
  <2>3. k - 1 = 1 /\ k + 1 = 3
    BY <2>2
  <2> QED BY <2>1, <2>3
<1>6. SubSeq(path, 1, 1) = <<"DEV">>
  BY <1>1, <1>3, HeadOf
<1>7. rest \in Seq(A) /\ Len(rest) = L + 1 /\ \A i \in 1 .. L + 1 : rest[i] = path[i + 2]
  BY <1>1, <1>3
<1> HIDE DEF rest
<1>8. Len(rest) # 1 /\ rest # NoString /\ rest[1] = "/"
  <2>1. Len(rest) # 1 /\ Len(NoString) = 1
    BY <1>1, <1>7 DEF NoString
  <2>2. rest[1] = path[1 + 2]
    BY <1>1, <1>7
  <2> QED BY <1>3, <2>1, <2>2
<1>9. Begins(rest, <<"/">>)
  <2>1. SubSeq(rest, 1, 1) = <<"/">> /\ Len(rest) >= 1
    BY <1>1, <1>7, <1>8, HeadOf
  <2>2. Len(<<"/">>) = 1
    OBVIOUS
  <2> QED BY <2>1, <2>2 DEF Begins
<1>10. Tail(rest) = name
  <2>1. Tail(rest) \in Seq(A) /\ Len(Tail(rest)) = L /\ \A i \in 1 .. L : Tail(rest)[i] = rest[i + 1]
    BY <1>1, <1>7
  <2>2. \A i \in 1 .. L : rest[i + 1] = path[i + 3]
    <3> TAKE i \in 1 .. L
    <3>1. i + 1 \in 1 .. L + 1 /\ (i + 1) + 2 = i + 3
      BY <1>1
    <3>2. rest[i + 1] = path[(i + 1) + 2]
      BY <1>7, <3>1
    <3> QED BY <3>1, <3>2
  <2>3. \A i \in 1 .. L : Tail(rest)[i] = name[i]
    BY <1>3, <2>1, <2>2
  <2>4. Len(name) = L
    BY DEF L
  <2> QED BY <1>1, <2>1, <2>3, <2>4
<1>11. fs_resolve(path) =
         LET root == vfs_get_volume(<<"DEV">>)
         IN  IF root = Null \/ root = Wild THEN root ELSE fs_follow_path(root, name)
  <2> DEFINE cut == strsep(path, ":")
             root == vfs_get_volume(<<"DEV">>)
  <2>1. cut.rest = rest /\ cut.out = <<"DEV">>
    <3>1. cut = [out |-> SubSeq(path, 1, 1), rest |-> rest]
      BY <1>5
    <3> HIDE DEF cut
    <3> QED BY <1>6, <3>1
  <2>2. fs_resolve(path) =
          LET r == IF cut.rest = NoString THEN Null ELSE vfs_get_volume(cut.out)
          IN  IF r = Null \/ r = Wild \/ ~Begins(cut.rest, <<"/">>) \/ Len(cut.rest) = 1 THEN r
              ELSE fs_follow_path(r, Tail(cut.rest))
    BY Zenon DEF fs_resolve
  <2> HIDE DEF cut
  <2>3. fs_resolve(path) =
          IF root = Null \/ root = Wild \/ ~Begins(rest, <<"/">>) \/ Len(rest) = 1 THEN root
          ELSE fs_follow_path(root, Tail(rest))
    BY <1>8, <2>1, <2>2, Zenon
  <2> QED BY <1>8, <1>9, <1>10, <2>3
<1> QED BY <1>11 DEF path, head

\* Every device that device_install accepted and nobody removed is found under
\* its name while DEV is mounted, and opening it opens that very device, as long
\* as no failed allocation was ignored.
THEOREM FilesInstalledIsFound == Spec => []InstalledIsFound
<1>1. VfsInv => InstalledIsFound
  <2> DEFINE dev == find_mountpoint_by_name(<<"DEV">>)
  <2> SUFFICES ASSUME VfsInv, failed = 0, dev # 0, vol[dev].family = "devfs", NEW x \in installed
               PROVE  Dispatch(fs_resolve(<<"DEV", ":", "/">> \o x[1]), "open") = <<"devfs", x[2], "open">>
    BY DEF InstalledIsFound
  <2>1. VolumesInv /\ NodesInv /\ InstalledInv
    BY DEF VfsInv, FilesInv
  <2>2. dev \in Vols /\ vol[dev].live
    BY <2>1, MountpointLive
  <2>3. VolumeFit(dev)
    BY <2>1, <2>2 DEF VolumesInv
  <2>4. dev = devfs_vol /\ vol[dev].root = devfs_rootdir
    BY <2>3 DEF VolumeFit
  <2> DEFINE name == x[1]
             path == <<"DEV", ":", "/">> \o name
             n == FirstNamed(devmgr_list, name)
  <2>5. name \in Names
    BY <2>1 DEF InstalledInv
  <2>6. name \in Seq(STRING \ {"NULL", "/"}) /\ name # <<>>
    BY <2>5, DevicesAssumption DEF Names
  <2>7. vfs_get_volume(<<"DEV">>) = devfs_rootdir
    BY <2>4 DEF vfs_get_volume
  <2>8. devfs_rootdir # Null /\ devfs_rootdir # Wild
    BY NodeVolumes
  <2>9. fs_resolve(path) = fs_follow_path(devfs_rootdir, name)
    <3> HIDE DEF name
    <3> QED BY <2>6, <2>7, <2>8, DevPath
  <2>10. Len(name) \in Nat \ {0} /\ name # NoString /\ Positions(name, "/") = {}
    <3> HIDE DEF name
    <3>1. Len(name) \in Nat /\ Len(name) # 0 /\ \A i \in 1 .. Len(name) : name[i] \notin {"NULL", "/"}
      BY <2>6
    <3>2. name # NoString
      <4>1. Len(NoString) = 1 /\ NoString[1] = "NULL"
        BY DEF NoString
      <4> QED BY <3>1, <4>1
    <3>3. Positions(name, "/") = {}
      BY <3>1 DEF Positions
    <3> QED BY <3>1, <3>2, <3>3
  <2>11. fs_follow_path(devfs_rootdir, name) = fs_finddir(devfs_rootdir, name)
    <3> HIDE DEF name
    <3> QED BY <2>10, FollowOne
  <2>12. fs_finddir(devfs_rootdir, name) = n
    <3>1. NODE_OPS(devfs_rootdir) = "devfs"
      BY <2>4, <2>8, NodeVolumes, Zenon DEF NODE_OPS
    <3> QED BY <3>1, NodeVolumes DEF fs_finddir
  <2>13. PICK i \in 1 .. Len(devmgr_list) : devmgr_list[i].name = name /\ devmgr_list[i].payload = x[2]
    BY <2>1 DEF InstalledInv
  <2>14. devmgr_list[i].volume # 0
    BY <2>1 DEF InstalledInv
  <2>15. n = devmgr_list[i] /\ n # Null
    <3> HIDE DEF name, path
    <3>1. \/ \A j \in 1 .. Len(devmgr_list) : devmgr_list[j].name # name
          \/ /\ n # Null
             /\ \E m \in 1 .. Len(devmgr_list) :
                  n = devmgr_list[m] /\ \A j \in 1 .. Len(devmgr_list) : devmgr_list[j].name = name => j = m
      BY <2>1, DeviceNamed
    <3> HIDE DEF n
    <3> QED BY <2>13, <3>1, Zenon
  <2>16. Dispatch(devmgr_list[i], "open") = <<"devfs", x[2], "open">>
    <3> DEFINE e == devmgr_list[i]
    <3>1. DevEntry(e) /\ e # Null /\ e.payload = x[2] /\ e.volume # 0
      BY <2>1, <2>13, <2>14, <2>15, Zenon DEF NodesInv
    <3> HIDE DEF e
    <3>2. e.payload \in DOMAIN Devices /\ e.flags = Devices[e.payload].flags /\ e.volume = devfs_vol
      BY <3>1 DEF DevEntry, Node
    <3>3. vn_volume(e) = devfs_vol /\ devfs_vol # 0
      BY <3>1, <3>2, NodeVolumes, Zenon
    <3>4. NODE_OPS(e) = "devfs"
      BY <2>4, <3>1, <3>3 DEF NODE_OPS
    <3>5. e.flags \in {VN_FCHARDEV, VN_FBLOCKDEV} /\ "open" \in Devices[e.payload].ops
      <4> DEFINE D == [name : Seq(STRING), flags : {VN_FCHARDEV, VN_FBLOCKDEV}, ops : SUBSET STRING]
                 d == e.payload
      <4>1. Devices \in Seq(D) /\ d \in DOMAIN Devices
        BY <3>2, DevicesAssumption
      <4>2. Devices[d] \in D
        <5> HIDE DEF D, d
        <5> QED BY <4>1
      <4>3. Devices[d].flags \in {VN_FCHARDEV, VN_FBLOCKDEV}
        BY <4>2
      <4> QED BY <3>2, <4>3, DevicesAssumption
    <3>6. e.payload # 0
      BY <3>2, DeviceNumbers
    <3>7. "open" \in FsOps[NODE_OPS(e)]
      BY <3>4 DEF FsOps
    <3>8. Dispatch(e, "open") = devfs_call(e, "open")
      BY <3>4, <3>5, <3>7 DEF Dispatch
    <3>9. devfs_call(e, "open") = <<"devfs", e.payload, "open">>
      BY <3>5, <3>6 DEF devfs_call
    <3> QED BY <3>1, <3>8, <3>9 DEF e
  <2> QED BY <2>9, <2>11, <2>12, <2>15, <2>16
<1> QED BY <1>1, VfsInvariant, PTL

----------------------------------------------------------------------------
(* Paths in an archive *)

\* A volume of tarfs that has the whole of an archive
TarVolume(v, archive) ==
  /\ v # 0 /\ vol[v].family = "tarfs"
  /\ Tree(v) = init_nodes(archive, {})
  /\ Proper(archive)

LEMMA MemberNumbers ==
  ASSUME NEW archive, Proper(archive)
  PROVE  DOMAIN archive \subseteq Nat \ {0}
<1>1. DOMAIN archive = 1 .. Len(archive) /\ Len(archive) \in Nat
  BY DEF Proper, Stated
<1> QED BY ONLY <1>1

\* The node of a member
LEMMA TarNodeIs ==
  ASSUME NEW v, NEW archive, TarVolume(v, archive), NEW i \in DOMAIN archive
  PROVE  LET n == TarNode(v, i)
         IN  /\ n # Null /\ n.of = "tarfs" /\ n.payload = i /\ n.flags = FlagsOf(archive[i].type)
             /\ vn_volume(n) = v /\ NODE_OPS(n) = "tarfs"
<1> DEFINE n == TarNode(v, i)
           t == Tree(v)[i]
<1>1. i # 0
  BY MemberNumbers DEF TarVolume
<1>2. n = Node("tarfs", t.name, t.flags, v, i)
  BY <1>1 DEF TarNode
<1>3. t.flags = FlagsOf(archive[i].type)
  <2>1. Proper(archive) /\ Tree(v) = init_nodes(archive, {})
    BY Zenon DEF TarVolume
  <2>2. init_nodes(archive, {})[i].flags = FlagsOf(archive[i].type)
    BY <2>1, NodesIs, Zenon
  <2>3. t = init_nodes(archive, {})[i]
    BY ONLY <2>1
  <2> HIDE DEF t
  <2> QED BY ONLY <2>2, <2>3
<1> HIDE DEF n, t
<1>4. n.of = "tarfs" /\ n.payload = i /\ n.flags = FlagsOf(archive[i].type) /\ IsTarNode(n, v)
  BY <1>2, <1>3 DEF Node, IsTarNode
<1>5. n # Null
  BY <1>4, NodeVolumes
<1>6. vn_volume(n) = v
  BY <1>4, NodeVolumes
<1>7. NODE_OPS(n) = "tarfs"
  BY <1>5, <1>6 DEF NODE_OPS, TarVolume
<1> QED BY ONLY <1>4, <1>5, <1>6, <1>7 DEF n

\* fs_finddir in a member
LEMMA TarFind ==
  ASSUME NEW v, NEW archive, TarVolume(v, archive), NEW m \in DOMAIN archive, NEW name
  PROVE  LET t == init_nodes(archive, {})
         IN  fs_finddir(TarNode(v, m), name)
               = IF archive[m].type = "5"
                 THEN TarNode(v, First({i \in DOMAIN t : t[i].parent = m /\ t[i].name = name}))
                 ELSE Null
<1> DEFINE n == TarNode(v, m)
           t == init_nodes(archive, {})
           found == {i \in Children(n) : Tree(vn_volume(n))[i].name = name}
           I == {i \in DOMAIN t : t[i].parent = m /\ t[i].name = name}
<1>1. /\ n # Null /\ n.of = "tarfs" /\ n.payload = m /\ n.flags = FlagsOf(archive[m].type)
      /\ vn_volume(n) = v /\ NODE_OPS(n) = "tarfs"
  BY TarNodeIs
<1>2. Tree(v) = t
  BY DEF TarVolume
<1>3. (n.flags = VN_FDIR) <=> (archive[m].type = "5")
  BY ONLY <1>1, FlagsAre
<1>4. fs_finddir(n, name) = IF n.flags # VN_FDIR THEN Null ELSE tarfs_finddir(n, name)
  BY ONLY <1>1 DEF fs_finddir
<1>5. tarfs_finddir(n, name) = IF found = {} THEN Null ELSE TarNode(v, Min(found))
  BY ONLY <1>1 DEF tarfs_finddir
<1>6. found = I
  <2> HIDE DEF n, t
  <2>1. Children(n) = {i \in DOMAIN t : t[i].parent = m}
    BY ONLY <1>1, <1>2 DEF Children
  <2> QED BY ONLY <1>1, <1>2, <2>1
<1> HIDE DEF found, I
<1>7. TarNode(v, First(I)) = IF I = {} THEN Null ELSE TarNode(v, Min(I))
  <2>1. CASE I = {}
    BY ONLY <2>1 DEF First, TarNode
  <2>2. CASE I # {}
    BY ONLY <2>2 DEF First
  <2> QED BY ONLY <2>1, <2>2
<1>8. fs_finddir(n, name) = IF archive[m].type = "5" THEN TarNode(v, First(I)) ELSE Null
  BY ONLY <1>3, <1>4, <1>5, <1>6, <1>7
<1> QED BY ONLY <1>8 DEF n, t, I

LEMMA DirectoryIs ==
  ASSUME NEW archive, NEW path
  PROVE  IsDirectory(archive, path) <=> At(archive, path) # 0 /\ archive[At(archive, path)].type = "5"
  BY DEF IsDirectory, At

LEMMA NamedIs ==
  ASSUME NEW archive, NEW path
  PROVE  Named(archive, path) =
           IF /\ IsDirectory(archive, <<>>)
              /\ \A i \in Positions(path, "/") : IsDirectory(archive, SubSeq(path, 1, i - 1))
           THEN At(archive, path) ELSE 0
  BY DEF Named, At

\* How far fs_follow_path is after a number of turns: it has stopped at the member
\* that the path names, or is in the directory that comes before position k of the
\* path, and everything above is a directory.
Under(archive, q, k) ==
  k # 0 => /\ IsDirectory(archive, <<>>)
           /\ \A i \in Positions(q, "/") : i <= k => IsDirectory(archive, SubSeq(q, 1, i - 1))

Underway(v, archive, q, at, k) ==
  /\ k \in 0 .. Len(q) /\ k # 1 /\ (k # 0 => q[k] = "/")
  /\ at.path = SubSeq(q, k + 1, Len(q))
  /\ At(archive, Pre(q, k)) # 0 /\ at.node = TarNode(v, At(archive, Pre(q, k)))
  /\ Under(archive, q, k)

Stopped(v, archive, q, at) == at.path = NoString /\ at.node = TarNode(v, Named(archive, q))

\* What is left of a path is not taken for the end of one.
LEMMA PathLeft ==
  ASSUME NEW q \in Seq(STRING \ {"NULL"}), NEW k \in 0 .. Len(q)
  PROVE  SubSeq(q, k + 1, Len(q)) # NoString
<1> DEFINE s == SubSeq(q, k + 1, Len(q))
<1>1. Len(q) \in Nat
  OBVIOUS
<1>2. k + 1 \in Nat /\ 1 <= k + 1 /\ k + 1 <= Len(q) + 1 /\ Len(q) \in Int /\ Len(q) <= Len(q)
  BY ONLY <1>1, k \in 0 .. Len(q)
<1>3. s \in Seq(STRING \ {"NULL"})
  BY ONLY <1>2, q \in Seq(STRING \ {"NULL"}), SubSeqIs
<1> HIDE DEF s
<1>4. \A i \in 1 .. Len(s) : s[i] # "NULL"
  BY ONLY <1>3
<1>5. Len(NoString) = 1 /\ NoString[1] = "NULL"
  BY DEF NoString
<1>6. s # NoString
  BY ONLY <1>4, <1>5
<1> QED BY ONLY <1>6 DEF s

\* Nothing in an archive has a path that begins with a slash.
LEMMA SlashFirst ==
  ASSUME NEW archive, Proper(archive), NEW q \in Seq(STRING), q # <<>>, q[1] = "/"
  PROVE  Named(archive, q) = 0
<1>1. ASSUME NEW i \in DOMAIN archive PROVE Normal(archive[i].name) # q
  <2>1. Positions(Normal(archive[i].name), "/") \cap {1, Len(Normal(archive[i].name))} = {}
    BY DEF Proper
  <2>2. Len(q) \in Nat /\ Len(q) # 0
    OBVIOUS
  <2>3. 1 \in 1 .. Len(q)
    BY ONLY <2>2
  <2>4. 1 \in Positions(q, "/")
    BY <2>3 DEF Positions
  <2> QED BY ONLY <2>1, <2>4
<1>2. At(archive, q) = 0
  BY <1>1, MemberNumbers, AtIs
<1> QED BY ONLY <1>2, NamedIs

\* One component: the walk stops, or is in the next directory.
LEMMA WalkStep ==
  ASSUME NEW v, NEW archive, TarVolume(v, archive),
         NEW q \in Seq(STRING \ {"NULL"}), q # <<>>,
         NEW at, NEW k, Underway(v, archive, q, at, k)
  PROVE  \/ Stopped(v, archive, q, Follow(at))
         \/ \E k2 : Underway(v, archive, q, Follow(at), k2) /\ k < k2
<1> DEFINE N == Len(q)
           m == At(archive, Pre(q, k))
           rem == SubSeq(q, k + 1, N)
<1>0. N \in Nat /\ N # 0 /\ k \in 0 .. N /\ k # 1 /\ (k # 0 => q[k] = "/")
  BY DEF Underway
<1>1. at.path = rem /\ m # 0 /\ at.node = TarNode(v, m) /\ Under(archive, q, k)
  BY DEF Underway
<1>2. Proper(archive)
  BY DEF TarVolume
<1>3. m \in DOMAIN archive
  BY ONLY <1>1, <1>2, MemberNumbers, AtIs
<1>4. q \in Seq(STRING)
  OBVIOUS
<1>5. PICK k2 : /\ Component(q, k, k2)
                /\ strsep(rem, "/") = [out |-> SubSeq(q, k + 1, k2 - 1),
                                       rest |-> IF k2 = N + 1 THEN NoString ELSE SubSeq(q, k2 + 1, N)]
  BY ONLY <1>0, <1>4, NextComponent
<1> DEFINE c == SubSeq(q, k + 1, k2 - 1)
           rest == IF k2 = N + 1 THEN NoString ELSE SubSeq(q, k2 + 1, N)
           node == fs_finddir(at.node, c)
           r == SubSeq(q, 1, k2 - 1)
           f == Follow(at)
<1>6. /\ k2 \in Nat /\ k < k2 /\ k2 <= N + 1 /\ k \in Nat /\ k <= N
      /\ \A j \in k + 1 .. k2 - 1 : q[j] # "/"
      /\ k2 = N + 1 \/ q[k2] = "/"
  BY ONLY <1>0, <1>5 DEF Component
<1>7. strsep(at.path, "/").out = c /\ strsep(at.path, "/").rest = rest
  <2>1. strsep(at.path, "/") = [out |-> c, rest |-> rest]
    BY ONLY <1>1, <1>5
  <2> HIDE DEF c, rest
  <2> QED BY ONLY <2>1
<1>8. f = IF rest # NoString /\ (node = Null \/ (node.flags \div 2) % 2 = 0)
          THEN [node |-> Null, path |-> NoString] ELSE [node |-> node, path |-> rest]
  <2> HIDE DEF c, rest
  <2> QED BY ONLY <1>7 DEF Follow
<1>9. rest = NoString <=> k2 = N + 1
  <2>1. CASE k2 = N + 1
    BY ONLY <2>1
  <2>2. CASE k2 # N + 1
    <3>1. rest = SubSeq(q, k2 + 1, N) /\ k2 \in 0 .. N
      BY ONLY <1>0, <1>6, <2>2
    <3>5. rest # NoString
      BY ONLY <3>1, q \in Seq(STRING \ {"NULL"}), PathLeft
    <3> QED BY ONLY <2>2, <3>5
  <2> QED BY ONLY <2>1, <2>2
<1>10. node = IF archive[m].type = "5"
              THEN TarNode(v, First({i \in DOMAIN archive : /\ Normal(archive[i].name) # <<>>
                                                            /\ Normal(archive[i].name) = r}))
              ELSE Null
  <2> DEFINE t == init_nodes(archive, {})
             I == {i \in DOMAIN t : t[i].parent = m /\ t[i].name = c}
             J == {i \in DOMAIN archive : Normal(archive[i].name) # <<>> /\ Normal(archive[i].name) = r}
  <2>1. fs_finddir(TarNode(v, m), c) = IF archive[m].type = "5" THEN TarNode(v, First(I)) ELSE Null
    <3> HIDE DEF m, c
    <3> QED BY ONLY TarVolume(v, archive), <1>3, TarFind, Zenon
  <2>2. I = J
    <3>1. k \in 0 .. Len(q) /\ Component(q, k, k2) /\ At(archive, Pre(q, k)) # 0
      BY ONLY <1>0, <1>1, <1>5
    <3> QED BY ONLY <1>0, <1>2, <1>4, <3>1, FoundIs
  <2> HIDE DEF I, J, m, c
  <2>3. node = IF archive[m].type = "5" THEN TarNode(v, First(J)) ELSE Null
    BY ONLY <1>1, <2>1, <2>2
  <2> QED BY ONLY <2>3 DEF J
<1>11. TarNode(v, 0) = Null
  BY DEF TarNode
\* What is found nowhere, or below something else than a directory
<1>12. ASSUME f = [node |-> Null, path |-> NoString], Named(archive, q) = 0
       PROVE  Stopped(v, archive, q, f)
  BY ONLY <1>11, <1>12 DEF Stopped
<1> HIDE DEF N, m, rem, c, rest, node, r, f
<1>13. CASE archive[m].type # "5"
  <2>1. node = Null
    BY ONLY <1>10, <1>13
  <2>2. f = [node |-> Null, path |-> NoString]
    BY ONLY <1>8, <2>1
  <2>3. ~IsDirectory(archive, Pre(q, k))
    BY ONLY <1>13, DirectoryIs DEF m
  <2>4. Named(archive, q) = 0
    <3>1. CASE k = 0
      BY ONLY <2>3, <3>1, NamedIs DEF Pre
    <3>2. CASE k # 0
      <4>1. k \in Positions(q, "/")
        BY ONLY <1>0, <3>2 DEF Positions, N
      <4>2. Pre(q, k) = SubSeq(q, 1, k - 1)
        BY ONLY <3>2 DEF Pre
      <4> QED BY ONLY <2>3, <4>1, <4>2, NamedIs
    <3> QED BY ONLY <3>1, <3>2
  <2> QED BY ONLY <1>12, <2>2, <2>4 DEF f
<1>14. CASE archive[m].type = "5" /\ k2 = 1
  <2>1. r = <<>>
    BY ONLY <1>14 DEF r
  <2>2. node = Null
    <3>1. {i \in DOMAIN archive : Normal(archive[i].name) # <<>> /\ Normal(archive[i].name) = r} = {}
      BY ONLY <2>1
    <3>2. First({}) = 0
      BY DEF First
    <3> QED BY ONLY <1>10, <1>11, <1>14, <3>1, <3>2
  <2>3. q[1] = "/" /\ k2 # N + 1
    BY ONLY <1>0, <1>6, <1>14
  <2>4. f = [node |-> Null, path |-> NoString]
    BY ONLY <1>8, <2>2
  <2>5. Named(archive, q) = 0
    BY ONLY <1>2, <1>4, <2>3, q # <<>>, SlashFirst
  <2> QED BY ONLY <1>12, <2>4, <2>5 DEF f
<1>15. CASE archive[m].type = "5" /\ k2 # 1
  <2>1. r \in Seq(STRING) /\ Len(r) = k2 - 1
    <3>1. k2 - 1 \in Int /\ 1 <= (k2 - 1) + 1 /\ k2 - 1 <= N /\ 1 <= 1 /\ 1 \in Nat /\ (k2 - 1) - 1 + 1 = k2 - 1
      BY ONLY <1>0, <1>6
    <3>2. r \in Seq(STRING) /\ Len(r) = (k2 - 1) - 1 + 1
      BY ONLY <1>4, <3>1, SubSeqIs DEF r, N
    <3> QED BY ONLY <3>1, <3>2
  <2>2. r # <<>>
    <3>1. Len(r) # 0
      BY ONLY <1>6, <1>15, <2>1
    <3> QED BY ONLY <3>1
  <2>3. node = TarNode(v, At(archive, r))
    <3>1. {i \in DOMAIN archive : Normal(archive[i].name) # <<>> /\ Normal(archive[i].name) = r}
            = {i \in DOMAIN archive : Normal(archive[i].name) = r}
      BY ONLY <2>2
    <3> QED BY ONLY <1>10, <1>15, <3>1 DEF At
  \* Everything above the component is a directory.
  <2>4. /\ IsDirectory(archive, <<>>)
        /\ \A i \in Positions(q, "/") : i < k2 => IsDirectory(archive, SubSeq(q, 1, i - 1))
    <3>1. IsDirectory(archive, Pre(q, k))
      BY ONLY <1>1, <1>15, DirectoryIs DEF m
    <3>2. ASSUME NEW i \in Positions(q, "/"), i < k2 PROVE i <= k /\ k # 0 /\ i \in Nat
      <4>1. i \in 1 .. N /\ q[i] = "/"
        BY ONLY <3>2 DEF Positions, N
      <4>2. ~(i \in k + 1 .. k2 - 1)
        BY ONLY <1>6, <4>1
      <4> QED BY ONLY <1>0, <1>6, <3>2, <4>1, <4>2
    <3>3. CASE k = 0
      BY ONLY <3>1, <3>2, <3>3 DEF Pre
    <3>4. CASE k # 0
      BY ONLY <1>1, <3>2, <3>4 DEF Under
    <3> QED BY ONLY <3>3, <3>4
  <2>5. CASE k2 = N + 1
    <3>1. r = q
      <4>1. (N + 1) - 1 = N
        BY ONLY <1>0
      <4>2. SubSeq(q, 1, N) = q
        BY <1>4 DEF N
      <4> QED BY ONLY <2>5, <4>1, <4>2 DEF r
    <3>2. f = [node |-> TarNode(v, At(archive, q)), path |-> NoString]
      BY ONLY <1>8, <1>9, <2>3, <2>5, <3>1
    <3>3. \A i \in Positions(q, "/") : i < k2
      BY ONLY <1>0, <2>5 DEF Positions, N
    <3>4. Named(archive, q) = At(archive, q)
      BY ONLY <2>4, <3>3, NamedIs
    <3>5. Stopped(v, archive, q, f)
      BY ONLY <3>2, <3>4 DEF Stopped
    <3> QED BY ONLY <3>5 DEF f
  <2>6. CASE k2 # N + 1 /\ ~IsDirectory(archive, r)
    <3>1. node = Null \/ (node.flags \div 2) % 2 = 0
      <4>1. CASE At(archive, r) = 0
        BY ONLY <1>11, <2>3, <4>1
      <4>2. CASE At(archive, r) # 0
        <5>1. At(archive, r) \in DOMAIN archive
          BY ONLY <1>2, <4>2, MemberNumbers, AtIs
        <5>2. archive[At(archive, r)].type # "5"
          BY ONLY <2>6, <4>2, DirectoryIs
        <5>3. node.flags = FlagsOf(archive[At(archive, r)].type)
          BY ONLY <2>3, <5>1, TarVolume(v, archive), TarNodeIs
        <5> QED BY ONLY <5>2, <5>3, FlagsAre
      <4> QED BY ONLY <4>1, <4>2
    <3>2. f = [node |-> Null, path |-> NoString]
      BY ONLY <1>8, <1>9, <2>6, <3>1
    <3>3. k2 \in Positions(q, "/")
      BY ONLY <1>0, <1>6, <2>6 DEF Positions, N
    <3>4. Named(archive, q) = 0
      BY ONLY <2>6, <3>3, NamedIs DEF r
    <3> QED BY ONLY <1>12, <3>2, <3>4 DEF f
  <2>7. CASE k2 # N + 1 /\ IsDirectory(archive, r)
    <3>1. At(archive, r) # 0 /\ archive[At(archive, r)].type = "5"
      BY ONLY <2>7, DirectoryIs
    <3>2. At(archive, r) \in DOMAIN archive
      BY ONLY <1>2, <3>1, MemberNumbers, AtIs
    <3>3. node # Null /\ node.flags = FlagsOf(archive[At(archive, r)].type)
      BY ONLY <2>3, <3>2, TarVolume(v, archive), TarNodeIs
    <3>4. ~((node.flags \div 2) % 2 = 0)
      BY ONLY <3>1, <3>3, FlagsAre
    <3>5. f = [node |-> node, path |-> rest]
      BY ONLY <1>8, <3>3, <3>4
    <3>6. rest = SubSeq(q, k2 + 1, N)
      BY ONLY <2>7 DEF rest
    <3>7. Pre(q, k2) = r
      BY ONLY <1>6 DEF Pre, r
    <3>8. Under(archive, q, k2)
      <4>1. ASSUME NEW i \in Positions(q, "/"), i <= k2 PROVE i < k2 \/ i = k2
        <5>1. i \in 1 .. N
          BY ONLY <4>1 DEF Positions, N
        <5> QED BY ONLY <1>6, <4>1, <5>1
      <4> QED BY ONLY <2>4, <2>7, <4>1 DEF Under, r
    <3>9. k2 \in 0 .. N /\ k2 # 1 /\ q[k2] = "/"
      BY ONLY <1>0, <1>6, <1>15, <2>7
    <3>10. f.path = SubSeq(q, k2 + 1, N) /\ f.node = TarNode(v, At(archive, Pre(q, k2)))
      BY ONLY <2>3, <3>5, <3>6, <3>7
    <3>11. Underway(v, archive, q, f, k2)
      BY ONLY <3>1, <3>7, <3>8, <3>9, <3>10 DEF Underway, N
    <3> QED BY ONLY <1>6, <3>11 DEF f
  <2> QED BY ONLY <2>5, <2>6, <2>7
<1> QED BY ONLY <1>13, <1>14, <1>15

\* fs_follow_path stops, and at the member that the path names.
LEMMA WalkIs ==
  ASSUME NEW v, NEW archive, TarVolume(v, archive), At(archive, <<>>) # 0,
         NEW q \in Seq(STRING \ {"NULL"}), q # <<>>
  PROVE  fs_follow_path(TarNode(v, At(archive, <<>>)), q) = TarNode(v, Named(archive, q))
<1> DEFINE N == Len(q)
           root == TarNode(v, At(archive, <<>>))
           Far(at, i) == \/ Stopped(v, archive, q, at)
                         \/ \E k : Underway(v, archive, q, at, k) /\ i <= k
<1>0. N \in Nat
  OBVIOUS
<1>1. PICK turn :
        /\ fs_follow_path(root, q) = turn[N + 1].node
        /\ turn[0] = [node |-> root, path |-> q]
        /\ \A i \in 1 .. N + 1 :
             turn[i] = IF turn[i - 1].path = NoString THEN turn[i - 1] ELSE Follow(turn[i - 1])
  BY ONLY <1>0, FollowTurns
<1>2. Underway(v, archive, q, turn[0], 0)
  <2>1. Pre(q, 0) = <<>> /\ SubSeq(q, 1, N) = q /\ 0 + 1 = 1 /\ 0 \in 0 .. N
    BY DEF Pre
  <2>2. turn[0].node = root /\ turn[0].path = q
    BY ONLY <1>1
  <2>3. At(archive, <<>>) # 0
    OBVIOUS
  <2>4. Under(archive, q, 0)
    BY DEF Under
  <2> QED BY ONLY <2>1, <2>2, <2>3, <2>4 DEF Underway
<1> DEFINE P == {i \in Nat : i <= N + 1 => Far(turn[i], i)}
<1>3. 0 \in P
  BY ONLY <1>2
<1>4. ASSUME NEW i \in Nat, i \in P PROVE i + 1 \in P
  <2> SUFFICES ASSUME i + 1 <= N + 1 PROVE Far(turn[i + 1], i + 1)
    OBVIOUS
  <2>1. i + 1 \in 1 .. N + 1 /\ (i + 1) - 1 = i /\ i <= N + 1
    BY ONLY <1>0, i \in Nat, i + 1 <= N + 1
  <2>2. turn[i + 1] = IF turn[i].path = NoString THEN turn[i] ELSE Follow(turn[i])
    BY ONLY <1>1, <2>1
  <2>3. Far(turn[i], i)
    BY ONLY <1>4, <2>1
  <2>4. CASE Stopped(v, archive, q, turn[i])
    <3>1. turn[i + 1] = turn[i]
      BY ONLY <2>2, <2>4 DEF Stopped
    <3> QED BY ONLY <2>4, <3>1
  <2>5. CASE ~Stopped(v, archive, q, turn[i])
    <3>1. PICK k : Underway(v, archive, q, turn[i], k) /\ i <= k
      BY ONLY <2>3, <2>5
    <3> DEFINE at == turn[i]
    <3>2. \/ Stopped(v, archive, q, Follow(at))
          \/ \E k2 : Underway(v, archive, q, Follow(at), k2) /\ k < k2
      <4> HIDE DEF at
      <4>1. Underway(v, archive, q, at, k)
        BY ONLY <3>1 DEF at
      <4> QED BY ONLY <4>1, TarVolume(v, archive), q \in Seq(STRING \ {"NULL"}), q # <<>>, WalkStep
    <3>3. k \in Nat
      BY ONLY <1>0, <3>1 DEF Underway
    <3>4. at.path # NoString
      <4>1. at.path = SubSeq(q, k + 1, N) /\ k \in 0 .. N
        BY ONLY <3>1 DEF Underway
      <4> QED BY ONLY <4>1, q \in Seq(STRING \ {"NULL"}), PathLeft
    <3>5. turn[i + 1] = Follow(at)
      BY ONLY <2>2, <3>4
    <3>6. ASSUME NEW k2, Underway(v, archive, q, Follow(at), k2), k < k2 PROVE i + 1 <= k2
      <4>1. k2 \in Nat
        BY ONLY <1>0, <3>6 DEF Underway
      <4> QED BY ONLY <3>1, <3>3, <3>6, <4>1, i \in Nat
    <3> QED BY ONLY <3>2, <3>5, <3>6
  <2> QED BY ONLY <2>4, <2>5
<1> HIDE DEF Far
<1>5. Far(turn[N + 1], N + 1)
  <2>1. Nat \subseteq P
    <3> HIDE DEF P
    <3> QED BY ONLY <1>3, <1>4, InductionSet
  <2>2. N + 1 \in Nat /\ N + 1 <= N + 1
    BY ONLY <1>0
  <2> QED BY ONLY <2>1, <2>2
<1>6. ~\E k : Underway(v, archive, q, turn[N + 1], k) /\ N + 1 <= k
  BY ONLY <1>0 DEF Underway
<1>7. Stopped(v, archive, q, turn[N + 1])
  BY ONLY <1>5, <1>6 DEF Far
<1> QED BY ONLY <1>1, <1>7 DEF Stopped

----------------------------------------------------------------------------
(* The volumes of tarfs *)

\* The root that tarfs_mount finds
RootOf(v, archive, lost) ==
  LET i == RootMember(Archives[archive], lost)
      t == Trees[archive][lost]
  IN  IF i = 0 THEN Null ELSE Node("tarfs", t[i].name, t[i].flags, v, i)

\* What a volume of tarfs in use is
TarFit(o, v) ==
  o.live /\ o.family = "tarfs" =>
    /\ o.archive \in DOMAIN Archives /\ o.lost \in Losses
    /\ o.root \in {Wild, RootOf(v, o.archive, o.lost)}

TarInv == \A v \in Vols : TarFit(vol[v], v)

LEMMA TarReplaced ==
  ASSUME VolumesInv, TarInv, NEW v, NEW o, vol' = [vol EXCEPT ![v] = o], TarFit(o, v)
  PROVE  TarInv'
<1>1. vol = [w \in Vols |-> vol[w]]
  BY DEF VolumesInv
<1>2. ASSUME NEW w \in Vols PROVE vol'[w] = IF w = v THEN o ELSE vol[w]
  BY <1>1
<1>3. ASSUME NEW w \in Vols PROVE TarFit(vol'[w], w)
  BY <1>2 DEF TarInv
<1> QED BY <1>3 DEF TarInv

LEMMA TarMount ==
  ASSUME VolumesInv, TarInv, NEW family, NEW name, NEW archive, vfs_mount(family, name, archive),
         family = "tarfs" => archive \in DOMAIN Archives
  PROVE  TarInv'
<1>1. CASE MountRefused(family, name)
  BY <1>1 DEF MountRefused, TarInv
<1>2. ASSUME NEW v \in Vols, MountFails(family, name, v) PROVE TarInv'
  <2> DEFINE o == Freed(family, 0, {})
  <2>1. vol' = [vol EXCEPT ![v] = o]
    BY <1>2 DEF MountFails
  <2>2. TarFit(o, v)
    BY DEF Freed, Object, TarFit
  <2> HIDE DEF o
  <2> QED BY <2>1, <2>2, TarReplaced
<1>3. ASSUME NEW v \in Vols, NEW lost \in IF family = "tarfs" THEN Losses ELSE {{}},
             NEW unlisted \in BOOLEAN, NEW unregistered \in BOOLEAN,
             MountSucceeds(family, name, v, archive, lost, unlisted, unregistered)
      PROVE  TarInv'
  <2>1. PICK root \in IF family = "tarfs" THEN TarRoots(v, archive, lost) ELSE {devfs_rootdir} :
          vol' = [vol EXCEPT ![v] = Object(TRUE, name, family, root, archive, lost)]
    BY <1>3 DEF MountSucceeds
  <2> DEFINE o == Object(TRUE, name, family, root, archive, lost)
  <2>2. o.family = family /\ o.root = root /\ o.archive = archive /\ o.lost = lost
    BY DEF Object
  <2>3. CASE family # "tarfs"
    <3>1. TarFit(o, v)
      BY <2>2, <2>3 DEF TarFit
    <3>2. vol' = [vol EXCEPT ![v] = o]
      BY ONLY <2>1
    <3> HIDE DEF o
    <3> QED BY ONLY VolumesInv, TarInv, <3>1, <3>2, TarReplaced
  <2>4. CASE family = "tarfs"
    <3>1. root \in {Wild, RootOf(v, archive, lost)}
      BY <2>4 DEF TarRoots, RootOf
    <3>2. archive \in DOMAIN Archives /\ lost \in Losses
      BY <1>3, <2>4
    <3>3. vol' = [vol EXCEPT ![v] = o]
      BY ONLY <2>1
    <3> HIDE DEF o
    <3>4. TarFit(o, v)
      BY <2>2, <3>1, <3>2 DEF TarFit
    <3> QED BY ONLY VolumesInv, TarInv, <3>3, <3>4, TarReplaced
  <2> QED BY <2>3, <2>4
<1> QED BY <1>1, <1>2, <1>3 DEF vfs_mount

LEMMA TarInit == Init => TarInv
<1> SUFFICES ASSUME Init PROVE TarInv
  OBVIOUS
<1> DEFINE o == Object(TRUE, <<"ROOT">>, "rootfs", rootfs_root, 0, {})
<1>1. PICK v \in Vols : vol = [w \in Vols |-> IF w # v THEN Unused ELSE o]
  BY DEF Init
<1>2. \A w : TarFit(Unused, w) /\ TarFit(o, w)
  BY DEF Unused, Freed, Object, TarFit
<1> HIDE DEF o
<1> QED BY <1>1, <1>2 DEF TarInv

LEMMA TarStep == VfsInv /\ TarInv /\ [Next]_vars => TarInv'
<1> SUFFICES ASSUME VfsInv, TarInv, [Next]_vars PROVE TarInv'
  OBVIOUS
<1>0. VolumesInv
  BY DEF VfsInv, FilesInv
<1>1. ASSUME vol' = vol PROVE TarInv'
  BY <1>1 DEF TarInv
<1>2. CASE DeviceInit
  BY <1>0, <1>2, TarMount DEF DeviceInit
<1>3. CASE \E mods \in Modules : ramdisk_init(mods)
  <2> PICK mods \in Modules : ramdisk_init(mods)
    BY <1>3
  <2>1. \/ mods # <<>> /\ vfs_mount("tarfs", <<"INITRD">>, mods[1].archive)
        \/ vol' = vol
    BY DEF ramdisk_init
  <2>2. mods # <<>> => mods[1].archive \in DOMAIN Archives
    BY ArchivesAssumption
  <2> QED BY <1>0, <1>1, <2>1, <2>2, TarMount
<1>4. CASE \E c \in MountCalls : Mount(c.family, c.name, c.archive)
  <2> PICK c \in MountCalls : Mount(c.family, c.name, c.archive)
    BY <1>4
  <2>1. vfs_mount(c.family, c.name, c.archive)
    BY DEF Mount
  <2>2. c.family = "tarfs" => c.archive \in DOMAIN Archives
    BY ArchivesAssumption
  <2> QED BY <1>0, <2>1, <2>2, TarMount
<1>5. CASE \E name \in VolNames : Umount(name)
  <2> PICK name \in VolNames : Umount(name)
    BY <1>5
  <2> DEFINE v == find_mountpoint_by_name(name)
             o == Freed(vol[v].family, vol[v].archive, vol[v].lost)
  <2>1. vol' = [vol EXCEPT ![v] = o]
    BY DEF Umount, vfs_umount
  <2>2. TarFit(o, v)
    BY DEF Freed, Object, TarFit
  <2> HIDE DEF v, o
  <2> QED BY <1>0, <2>1, <2>2, TarReplaced
<1>6. CASE DriverInit
  BY <1>1, <1>6 DEF DriverInit, InstallRefused, device_install
<1>7. CASE \E d \in DOMAIN Devices, name \in DevNames, unlisted \in BOOLEAN : Install(d, name, unlisted)
  BY <1>1, <1>7 DEF Install, device_install
<1>8. CASE \E name \in DevNames : Uninstall(name)
  BY <1>1, <1>8 DEF Uninstall, device_remove
<1>9. CASE \E path \in ClientPaths : Resolve(path)
  BY <1>1, <1>9 DEF Resolve
<1>10. CASE \E index \in {0, 1} : Readdir(index)
  BY <1>1, <1>10 DEF Readdir
<1>11. CASE UNCHANGED vars
  BY <1>1, <1>11 DEF vars
<1> QED BY <1>2, <1>3, <1>4, <1>5, <1>6, <1>7, <1>8, <1>9, <1>10, <1>11 DEF Next

LEMMA TarInvariant == Spec => [](VfsInv /\ TarInv)
<1>1. VfsInv /\ TarInv /\ [Next]_vars => VfsInv' /\ TarInv'
  BY VfsStep, TarStep
<1> QED BY <1>1, VfsInit, TarInit, PTL DEF Spec

\* The archives are as tar writes them.
LEMMA ArchiveProper ==
  ASSUME NEW a \in DOMAIN Archives
  PROVE  Proper(Archives[a])
<1> DEFINE M == [name : Seq(STRING), type : STRING, length : Nat, size : Seq(0 .. 7)]
           A == Archives[a]
<1>1. Archives \in Seq(Seq(M))
  BY ArchivesAssumption
<1>2. \A i \in DOMAIN A :
        LET path == Normal(A[i].name)
        IN  /\ octal2int(A[i].size) = A[i].length
            /\ Positions(path, "/") \cap {1, Len(path)} = {}
  BY ArchivesAssumption
<1>3. A \in Seq(M)
  <2> HIDE DEF M
  <2> QED BY <1>1
<1> HIDE DEF A
<1>4. DOMAIN A = 1 .. Len(A) /\ Len(A) \in Nat /\ \A i \in DOMAIN A : A[i] \in M
  <2> HIDE DEF M
  <2> QED BY ONLY <1>3
<1>5. \A i \in DOMAIN A : A[i].name \in Seq(STRING) /\ A[i].length \in Nat
  BY ONLY <1>4
<1>6. \A i \in DOMAIN A : Normal(A[i].name) \in Seq(STRING)
  BY ONLY <1>5, NormalIs
<1>7. Stated(A)
  BY ONLY <1>2, <1>4, <1>5 DEF Stated
<1>8. Proper(A)
  BY ONLY <1>2, <1>4, <1>6, <1>7 DEF Proper
<1> QED BY ONLY <1>8 DEF A

\* tarfs_read copies the bytes that there are.
LEMMA ReadIs ==
  ASSUME NEW size \in Nat, NEW offt \in Nat, NEW len \in Nat
  PROVE  tarfs_read(size, offt, len) = Cardinality({i \in offt .. offt + len - 1 : i < size})
<1> DEFINE I == {i \in offt .. offt + len - 1 : i < size}
           b == IF offt + len <= size THEN offt + len - 1 ELSE size - 1
<1>1. I = offt .. b
  OBVIOUS
<1>2. b \in Int /\ offt \in Int
  OBVIOUS
<1>3. Cardinality(offt .. b) = IF offt > b THEN 0 ELSE b - offt + 1
  <2> HIDE DEF b
  <2> QED BY ONLY <1>2, FS_Interval
<1>4. tarfs_read(size, offt, len) = IF offt > b THEN 0 ELSE b - offt + 1
  BY DEF tarfs_read
<1> QED BY ONLY <1>1, <1>3, <1>4

\* strsep leaves a part of the string.
LEMMA StrsepTyped ==
  ASSUME NEW S, NEW s \in Seq(S), NEW d, strsep(s, d).rest # NoString
  PROVE  strsep(s, d).rest \in Seq(S)
<1> DEFINE I == Positions(s, d)
           i == Min(I)
<1>1. I # {}
  BY DEF strsep
<1>2. I \subseteq Nat /\ \A j \in I : j \in 1 .. Len(s)
  BY DEF Positions
<1>3. strsep(s, d).rest = SubSeq(s, i + 1, Len(s))
  BY <1>1 DEF strsep
<1> HIDE DEF I
<1>4. i \in 1 .. Len(s)
  BY <1>1, <1>2, MinIs
<1> HIDE DEF i
<1>5. SubSeq(s, i + 1, Len(s)) \in Seq(S)
  BY <1>4
<1> QED BY <1>3, <1>5

\* The volume that a path names, and what comes after the colon and the slash
MountOf(path) == find_mountpoint_by_name(strsep(path, ":").out)
RestOf(path) == strsep(path, ":").rest
Below(path) == SubSeq(RestOf(path), 2, Len(RestOf(path)))
ArchiveOf(path) == Archives[vol[MountOf(path)].archive]

\* A path into a volume of tarfs that has the whole of its archive and knows its root
TarPath(path) ==
  LET v == MountOf(path)
      rest == RestOf(path)
  IN  /\ rest # NoString /\ v # 0 /\ Len(rest) > 1 /\ rest[1] = "/"
      /\ vol[v].family = "tarfs" /\ vol[v].lost = {} /\ vol[v].root # Wild

\* A path in a mounted archive is found exactly when the archive has it: the first
\* member with that path, if everything above it is a directory.
LEMMA TarResolve ==
  ASSUME VfsInv, TarInv, NEW path \in Paths, TarPath(path)
  PROVE  /\ fs_resolve(path) = TarNode(MountOf(path), Named(ArchiveOf(path), Below(path)))
         /\ TarVolume(MountOf(path), ArchiveOf(path))
<1> DEFINE v == MountOf(path)
           rest == RestOf(path)
           archive == ArchiveOf(path)
           q == Below(path)
<1>0. /\ rest # NoString /\ v # 0 /\ Len(rest) > 1 /\ rest[1] = "/"
      /\ vol[v].family = "tarfs" /\ vol[v].lost = {} /\ vol[v].root # Wild
      /\ archive = Archives[vol[v].archive] /\ q = SubSeq(rest, 2, Len(rest))
      /\ v = find_mountpoint_by_name(strsep(path, ":").out) /\ rest = strsep(path, ":").rest
  BY DEF TarPath, MountOf, RestOf, ArchiveOf, Below
<1> HIDE DEF v, rest, archive, q
<1>1. VolumesInv
  BY DEF VfsInv, FilesInv
<1>2. v \in Vols /\ vol[v].live
  BY <1>0, <1>1, MountpointLive
<1>3. /\ vol[v].archive \in DOMAIN Archives
      /\ vol[v].root = RootOf(v, vol[v].archive, {})
  BY <1>0, <1>2 DEF TarInv, TarFit
<1>4. Proper(archive)
  BY <1>0, <1>3, ArchiveProper
<1>5. Tree(v) = init_nodes(archive, {}) /\ Trees[vol[v].archive][{}] = init_nodes(archive, {})
  BY <1>0, <1>3, VfsAssumption DEF Tree, Trees
<1>6. TarVolume(v, archive)
  BY <1>0, <1>4, <1>5 DEF TarVolume
<1> DEFINE i == At(archive, <<>>)
<1>7. vol[v].root = TarNode(v, i)
  <2>1. RootMember(archive, {}) = i
    BY ONLY <1>4, NodesIs, Zenon
  <2> HIDE DEF i
  <2> QED BY <1>0, <1>3, <1>5, <2>1, Zenon DEF RootOf, TarNode
<1>8. fs_resolve(path) =
        IF vol[v].root = Null \/ vol[v].root = Wild \/ ~Begins(rest, <<"/">>) \/ Len(rest) = 1 THEN vol[v].root
        ELSE fs_follow_path(vol[v].root, Tail(rest))
  BY <1>0 DEF fs_resolve, vfs_get_volume
<1>9. rest \in Seq(STRING \ {"NULL"})
  BY <1>0, VfsAssumption, StrsepTyped
<1>10. Len(rest) \in Nat /\ Len(rest) > 1 /\ Len(rest) # 1 /\ rest[1] = "/"
  <2>1. Len(rest) \in Nat
    BY ONLY <1>9
  <2>2. Len(rest) > 1 /\ rest[1] = "/"
    BY ONLY <1>0
  <2>3. \A x \in Nat : x > 1 => x # 1
    OBVIOUS
  <2> QED BY ONLY <2>1, <2>2, <2>3, Zenon
<1>11. Begins(rest, <<"/">>)
  <2>1. SubSeq(rest, 1, 1) = <<"/">>
    BY ONLY <1>9, <1>10, HeadOf
  <2>2. Len(<<"/">>) = 1
    OBVIOUS
  <2> QED BY ONLY <1>10, <2>1, <2>2 DEF Begins
<1>12. Tail(rest) = q /\ q \in Seq(STRING \ {"NULL"}) /\ q # <<>>
  <2>1. q \in Seq(STRING \ {"NULL"}) /\ Len(q) = Len(rest) - 1 /\ \A j \in 1 .. Len(rest) - 1 : q[j] = rest[j + 1]
    BY ONLY <1>0, <1>9, <1>10
  <2>2. /\ Tail(rest) \in Seq(STRING \ {"NULL"}) /\ Len(Tail(rest)) = Len(rest) - 1
        /\ \A j \in 1 .. Len(rest) - 1 : Tail(rest)[j] = rest[j + 1]
    BY ONLY <1>9, <1>10
  <2>3. Tail(rest) = q
    BY ONLY <2>1, <2>2, SameSeq
  <2>4. Len(q) # 0
    BY ONLY <1>10, <2>1
  <2>5. q # <<>>
    BY ONLY <2>4
  <2> QED BY ONLY <2>1, <2>3, <2>5
<1>13. CASE i = 0
  <2>1. ~IsDirectory(archive, <<>>)
    BY ONLY <1>13, DirectoryIs
  <2>2. Named(archive, q) = 0
    BY ONLY <2>1, NamedIs
  <2>3. vol[v].root = Null
    BY ONLY <1>7, <1>13 DEF TarNode
  <2>4. fs_resolve(path) = TarNode(v, 0)
    BY ONLY <1>8, <2>3 DEF TarNode
  <2> QED BY ONLY <1>6, <2>2, <2>4 DEF v, archive, q
<1>14. CASE i # 0
  <2>1. i \in DOMAIN archive
    BY ONLY <1>4, <1>14, MemberNumbers, AtIs
  <2>2. vol[v].root # Null
    BY ONLY <1>6, <1>7, <2>1, TarNodeIs
  <2>3. fs_resolve(path) = fs_follow_path(TarNode(v, i), q)
    BY ONLY <1>0, <1>7, <1>8, <1>10, <1>11, <1>12, <2>2
  <2>4. fs_follow_path(TarNode(v, i), q) = TarNode(v, Named(archive, q))
    BY ONLY <1>6, <1>12, <1>14, WalkIs
  <2> QED BY ONLY <1>6, <2>3, <2>4 DEF v, archive, q
<1> QED BY ONLY <1>13, <1>14

\* fs_resolve finds a path in a mounted archive exactly when the archive has it,
\* wherever in the archive the directories are and whatever the sizes of the members
\* before, and reading the file gives as many bytes as it has from there on: for
\* every archive as tar writes them and every path, except on a volume whose root
\* tar_superblock left to the recycled memory it was given (Wild).
THEOREM FilesResolveAgrees == Spec => []ResolveAgrees
<1>1. VfsInv /\ TarInv => ResolveAgrees
  <2> SUFFICES ASSUME VfsInv, TarInv, NEW path \in Paths
               PROVE  LET v == find_mountpoint_by_name(strsep(path, ":").out)
                          rest == strsep(path, ":").rest
                          n == fs_resolve(path)
                          archive == Archives[vol[v].archive]
                          m == Named(archive, SubSeq(rest, 2, Len(rest)))
                      IN  rest # NoString /\ v # 0 /\ Len(rest) > 1 /\ rest[1] = "/" =>
                            (vol[v].family = "tarfs" /\ vol[v].lost = {} /\ vol[v].root # Wild =>
                               /\ (n = Null) = (m = 0)
                               /\ m # 0 =>
                                    /\ Tree(v)[n.payload].member = m
                                    /\ \A offt \in BLOCK - 1 .. BLOCK + 1, len \in 0 .. 2 :
                                         tarfs_read(octal2int(archive[m].size), offt, len)
                                           = Cardinality({i \in offt .. offt + len - 1 : i < archive[m].length}))
    BY DEF ResolveAgrees
  <2> DEFINE v == MountOf(path)
             n == fs_resolve(path)
             archive == ArchiveOf(path)
             q == Below(path)
             m == Named(archive, q)
  <2> SUFFICES ASSUME TarPath(path)
               PROVE  /\ (n = Null) = (m = 0)
                      /\ m # 0 =>
                           /\ Tree(v)[n.payload].member = m
                           /\ \A offt \in BLOCK - 1 .. BLOCK + 1, len \in 0 .. 2 :
                                tarfs_read(octal2int(archive[m].size), offt, len)
                                  = Cardinality({i \in offt .. offt + len - 1 : i < archive[m].length})
    BY DEF TarPath, MountOf, RestOf, ArchiveOf, Below
  <2>1. n = TarNode(v, m) /\ TarVolume(v, archive)
    BY TarResolve
  <2> HIDE DEF v, n, archive, q, m
  <2>2. Proper(archive) /\ Tree(v) = init_nodes(archive, {})
    BY ONLY <2>1 DEF TarVolume
  <2>3. CASE m = 0
    <3>1. n = Null
      BY ONLY <2>1, <2>3 DEF TarNode
    <3> QED BY ONLY <2>3, <3>1
  <2>4. CASE m # 0
    <3>1. m \in DOMAIN archive
      <4>1. m = At(archive, q)
        BY ONLY <2>4, NamedIs DEF m
      <4> QED BY ONLY <2>2, <2>4, <4>1, MemberNumbers, AtIs
    <3>2. n # Null /\ n.payload = m
      BY ONLY <2>1, <3>1, TarNodeIs
    <3>3. Tree(v)[m].member = m
      <4>1. init_nodes(archive, {})[m].member = m
        BY ONLY <2>2, <3>1, NodesIs, Zenon
      <4> QED BY ONLY <2>2, <4>1, Zenon
    <3>4. octal2int(archive[m].size) = archive[m].length /\ archive[m].length \in Nat
      <4>1. Stated(archive)
        BY ONLY <2>2 DEF Proper
      <4> QED BY ONLY <3>1, <4>1 DEF Stated
    <3>5. ASSUME NEW offt \in BLOCK - 1 .. BLOCK + 1, NEW len \in 0 .. 2
          PROVE  tarfs_read(octal2int(archive[m].size), offt, len)
                   = Cardinality({i \in offt .. offt + len - 1 : i < archive[m].length})
      <4>1. offt \in Nat /\ len \in Nat
        BY ONLY <3>5 DEF BLOCK
      <4> QED BY ONLY <3>4, <4>1, ReadIs
    <3> QED BY ONLY <2>4, <3>2, <3>3, <3>5
  <2> QED BY ONLY <2>3, <2>4
<1> QED BY <1>1, TarInvariant, PTL
=============================================================================
