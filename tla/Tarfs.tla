------------------------------- MODULE Tarfs -------------------------------
(***************************************************************************)
(* Strings, and the tree that the tar file system (kernel/fs/tarfs/tar.c)  *)
(* makes of an archive.                                                    *)
(*                                                                         *)
(* A string is a sequence of tokens: the separators ":", "/", "." and the  *)
(* words between them.  An archive is a sequence of members, each with the *)
(* fields of its header and its true length.                               *)
(***************************************************************************)
EXTENDS Integers, Sequences, FiniteSetsExt

\* No string, or the end of one: a token that no path has
NoString == <<"NULL">>

\* The first of some positions, 0 if there is none
First(S) == IF S = {} THEN 0 ELSE Min(S)

Begins(s, with) == Len(with) <= Len(s) /\ SubSeq(s, 1, Len(with)) = with

Positions(s, d) == {i \in 1 .. Len(s) : s[i] = d}

\* strsep: the part before the delimiter and what *stringp becomes.
strsep(s, d) ==
  IF Positions(s, d) = {} THEN [out |-> s, rest |-> NoString]
  ELSE LET i == Min(Positions(s, d))
       IN  [out |-> SubSeq(s, 1, i - 1), rest |-> SubSeq(s, i + 1, Len(s))]

octal2int(digits) ==
  LET value[i \in 0 .. Len(digits)] == IF i = 0 THEN 0 ELSE value[i - 1] * 8 + digits[i]
  IN  value[Len(digits)]

\* s after its first token, if it begins with the prefix
Past(s, prefix) == IF Begins(s, prefix) THEN Tail(s) ELSE s

Unslashed(s) == IF s # <<>> /\ s[Len(s)] = "/" THEN SubSeq(s, 1, Len(s) - 1) ELSE s

\* lookup_vnode and reassemble_nodes: the name without "./" or "/" before it and
\* without "/" after it
Normal(name) == Unslashed(Past(Past(name, <<".", "/">>), <<"/">>))

split_basename(path) ==
  IF Positions(path, "/") = {} THEN [dirname |-> <<>>, basename |-> path]
  ELSE LET i == Max(Positions(path, "/"))
       IN  [dirname |-> SubSeq(path, 1, i - 1), basename |-> SubSeq(path, i + 1, Len(path))]

BLOCK == 512
END == -1
DATA == 0

\* The blocks of an archive: the header of each member (its number), its data,
\* and a block of zeros.
Image(archive) ==
  LET upto[i \in 0 .. Len(archive)] ==
        IF i = 0 THEN <<>>
        ELSE upto[i - 1] \o <<i>>
             \o [b \in 1 .. (archive[i].length + BLOCK - 1) \div BLOCK |-> DATA]
  IN  upto[Len(archive)] \o <<END>>

\* What a block says when it is read as a header
Header(archive, h) ==
  IF h = DATA THEN [name |-> <<"data">>, type |-> "?", size |-> <<>>, length |-> 0] ELSE archive[h]

\* init_nodes: the blocks from one header to the next
Stride(size) == (size \div BLOCK) + 1 + (IF size % BLOCK # 0 THEN 1 ELSE 0)

\* The headers that the first loop of init_nodes decodes, in order; for those in
\* lost decode_block finds no memory.  The loop takes any block of the image that
\* does not begin with a zero for a header, and ends at the end of the memory at
\* the latest.
Headers(archive, image, lost) ==
  LET turn[i \in 0 .. Len(image)] ==
        IF i = 0 THEN [bx |-> 1, nodes |-> <<>>]
        ELSE LET s == turn[i - 1]
             IN  IF s.bx > Len(image) \/ image[s.bx] = END THEN s
                 ELSE [bx |-> s.bx + Stride(octal2int(Header(archive, image[s.bx]).size)),
                       nodes |-> IF image[s.bx] \in lost THEN s.nodes ELSE Append(s.nodes, image[s.bx])]
  IN  turn[Len(image)].nodes

VN_FREGFILE == 1
VN_FDIR == 2
VN_FCHARDEV == 3
VN_FBLOCKDEV == 4

\* lookup_vnode: the first member with that path, 0 if there is none.
lookup_vnode(headers, archive, path) ==
  First({i \in DOMAIN headers : Normal(Header(archive, headers[i]).name) = path})

\* Mutant: the parent is looked up among the members that came before.
reassemble_nodes_Earlier(headers, archive, i) ==
  LET h == Header(archive, headers[i])
      path == Normal(h.name)
      parts == split_basename(path)
  IN  [name |-> parts.basename,
       parent |-> IF path = <<>> THEN 0
                  ELSE lookup_vnode(SubSeq(headers, 1, i), archive, parts.dirname),
       flags |-> CASE h.type = "0" -> VN_FREGFILE [] h.type = "5" -> VN_FDIR [] OTHER -> 0,
       member |-> headers[i]]

\* The node of a member.  Parents are reassembled before their children,
\* wherever they are in the archive.
reassemble_nodes(headers, archive, i) ==
  LET h == Header(archive, headers[i])
      path == Normal(h.name)
      parts == split_basename(path)
  IN  [name |-> parts.basename,
       parent |-> IF path = <<>> THEN 0 ELSE lookup_vnode(headers, archive, parts.dirname),
       flags |-> CASE h.type = "0" -> VN_FREGFILE [] h.type = "5" -> VN_FDIR [] OTHER -> 0,
       member |-> headers[i]]

\* init_nodes, when the members in lost find no memory for their tarfs_node
init_nodes(archive, lost) ==
  LET headers == Headers(archive, Image(archive), lost)
  IN  [i \in 1 .. Len(headers) |-> reassemble_nodes(headers, archive, i)]

\* payload->root: the first member with an empty path, 0 if there is none.
RootMember(archive, lost) ==
  lookup_vnode(Headers(archive, Image(archive), lost), archive, <<>>)

\* The bytes that tarfs_read copies from offset offt of the data
tarfs_read(size, offt, len) ==
  IF offt >= size THEN 0 ELSE IF len < size - offt THEN len ELSE size - offt
=============================================================================
