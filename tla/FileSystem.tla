----------------------------- MODULE FileSystem -----------------------------
(***************************************************************************)
(* The uv_fs_* requests of src/fs.cpp as operators on an abstract disk:    *)
(* what each asks of the file system and what it answers.  A disk is a     *)
(* record of the tree (which node each path names), the contents of the    *)
(* files, the open file descriptions and the descriptor table.  Paths are  *)
(* sequences of names, and a link leads to a path that is not a link.      *)
(* Modes, owners and times are left out.  An operator returns the set of   *)
(* the possible outcomes: the disk after the request, the error, and the   *)
(* value the finish function stores.                                       *)
(***************************************************************************)
EXTENDS Integers, FiniteSets, SequencesExt

CONSTANT Descriptors    \* the descriptors of the process, positive numbers

ASSUME DescriptorsAssumption == Descriptors \subseteq Nat \ {0}

\* The values: a number, a truth value, a sequence (data or names).
Num(n) == [num |-> n]
Flag(b) == [flag |-> b]
Text(s) == [text |-> s]

Ok(d, v) == {[disk |-> d, err |-> "none", val |-> v]}
Err(d, e) == {[disk |-> d, err |-> e, val |-> Num(0)]}

-----------------------------------------------------------------------------
(* Paths (external: path resolution of the system) *)

Node(d, q) == IF q \in DOMAIN d.tree THEN d.tree[q][1] ELSE "none"

Follow(d, q) == IF Node(d, q) = "link" THEN d.tree[q][2] ELSE q

\* The directory that holds the last name of a path, and that name in it.
Parent(d, p) == FoldLeft(LAMBDA q, name : Follow(d, Append(q, name)), <<>>, Front(p))
Entry(d, p) == IF p = <<>> THEN p ELSE Append(Parent(d, p), Last(p))
Real(d, p) == Follow(d, Entry(d, p))

\* Why a path does not name anything.
Missing(d, p) ==
    IF Node(d, Parent(d, p)) = "file"
    THEN "ENOTDIR" ELSE "ENOENT"

Below(d, q) == {r \in DOMAIN d.tree : IsStrictPrefix(q, r)}
Children(d, q) == {r \in Below(d, q) : Len(r) = Len(q) + 1}

Put(d, q, node) ==
    [d EXCEPT !.tree = [r \in DOMAIN @ \cup {q} |-> IF r = q THEN node ELSE @[r]]]
Drop(d, Q) == [d EXCEPT !.tree = [r \in DOMAIN @ \ Q |-> @[r]]]

Contents(d, q) == d.data[d.tree[q][2]]

\* A new, empty file, or new contents of one.
Create(d, q) ==
    Put([d EXCEPT !.data = Append(@, <<>>)], q, <<"file", Len(d.data) + 1>>)
SetData(d, ino, s) == [d EXCEPT !.data[ino] = s]

-----------------------------------------------------------------------------
(* Requests on paths *)

StatNode(d, p, q) ==
    IF Node(d, q) = "none" THEN Err(d, Missing(d, p))
    ELSE Ok(d, [dir |-> Node(d, q) = "dir",
                size |-> IF Node(d, q) = "file" THEN Len(Contents(d, q)) ELSE 0])

StatPath(d, p) == StatNode(d, p, Real(d, p))
LstatPath(d, p) == StatNode(d, p, Entry(d, p))

\* A new entry needs a directory and a free name.
MayCreate(d, p, next) ==
    CASE Node(d, Entry(d, p)) # "none" -> Err(d, "EEXIST")
      [] Node(d, Parent(d, p)) # "dir" -> Err(d, Missing(d, p))
      [] OTHER -> next

MkdirPath(d, p) == MayCreate(d, p, Ok(Put(d, Entry(d, p), <<"dir">>), Num(0)))

RmdirPath(d, p) ==
    LET q == Entry(d, p)
    IN  CASE Node(d, q) = "none" -> Err(d, Missing(d, p))
          [] Node(d, q) # "dir" -> Err(d, "ENOTDIR")
          [] Below(d, q) # {} -> Err(d, "ENOTEMPTY")
          [] OTHER -> Ok(Drop(d, {q}), Num(0))

UnlinkPath(d, p) ==
    LET q == Entry(d, p)
    IN  CASE Node(d, q) = "none" -> Err(d, Missing(d, p))
          [] Node(d, q) = "dir" -> Err(d, "EISDIR")
          [] OTHER -> Ok(Drop(d, {q}), Num(0))

\* The entry moves with everything below it, and replaces what it may replace.
RenamePath(d, p, np) ==
    LET q == Entry(d, p)
        nq == Entry(d, np)
        moved == {q} \cup Below(d, q)
        rest == DOMAIN d.tree \ (moved \cup {nq})
        To(r) == nq \o SubSeq(r, Len(q) + 1, Len(r))
        From(r) == q \o SubSeq(r, Len(nq) + 1, Len(r))
    IN  CASE Node(d, q) = "none" -> Err(d, Missing(d, p))
          [] Node(d, Parent(d, np)) # "dir" -> Err(d, Missing(d, np))
          [] q = nq -> Ok(d, Num(0))
          [] IsStrictPrefix(q, nq) -> Err(d, "EINVAL")
          [] Node(d, nq) = "dir" /\ Node(d, q) # "dir" -> Err(d, "EISDIR")
          [] Node(d, nq) \in {"file", "link"} /\ Node(d, q) = "dir" -> Err(d, "ENOTDIR")
          [] Below(d, nq) # {} -> Err(d, "ENOTEMPTY")
          [] OTHER ->
                Ok([d EXCEPT !.tree = [r \in rest \cup {To(m) : m \in moved} |->
                        IF r \in rest THEN @[r] ELSE @[From(r)]]], Num(0))

CopyFilePath(d, p, np, exclusive) ==
    LET q == Real(d, p)
        nq == Real(d, np)
        made == IF Node(d, nq) = "none" THEN Create(d, nq) ELSE d
    IN  CASE Node(d, q) = "none" -> Err(d, Missing(d, p))
          [] Node(d, q) = "dir" \/ Node(d, nq) = "dir" -> Err(d, "EISDIR")
          [] Node(d, nq) # "none" /\ exclusive -> Err(d, "EEXIST")
          [] Node(d, Parent(d, np)) # "dir" -> Err(d, Missing(d, np))
          [] OTHER -> Ok(SetData(made, made.tree[nq][2], Contents(d, q)), Num(0))

LinkPath(d, p, np) ==
    LET q == Entry(d, p)
    IN  CASE Node(d, q) = "none" -> Err(d, Missing(d, p))
          [] Node(d, q) = "dir" -> Err(d, "EPERM")
          [] OTHER -> MayCreate(d, np, Ok(Put(d, Entry(d, np), d.tree[q]), Num(0)))

SymlinkPath(d, p, np) == MayCreate(d, np, Ok(Put(d, Entry(d, np), <<"link", p>>), Num(0)))

ReadlinkPath(d, p) ==
    LET q == Entry(d, p)
    IN  CASE Node(d, q) = "none" -> Err(d, Missing(d, p))
          [] Node(d, q) # "link" -> Err(d, "EINVAL")
          [] OTHER -> Ok(d, Text(d.tree[q][2]))

RealpathPath(d, p) ==
    IF Node(d, Real(d, p)) = "none" THEN Err(d, Missing(d, p)) ELSE Ok(d, Text(Real(d, p)))

ChmodPath(d, p) ==
    IF Node(d, Real(d, p)) = "none" THEN Err(d, Missing(d, p)) ELSE Ok(d, Num(0))

\* The names in a directory, in some order, without "." and "..".
ScandirSync(d, p) ==
    LET q == Real(d, p)
    IN  CASE Node(d, q) = "none" -> Err(d, Missing(d, p))
          [] Node(d, q) # "dir" -> Err(d, "ENOTDIR")
          [] OTHER -> Ok(d, Text(SetToSeq({Last(r) : r \in Children(d, q)})))

-----------------------------------------------------------------------------
(* Requests on descriptors *)

OpenDescriptors(d) == {n \in Descriptors : d.fds[n] # 0}
Free(d) == Descriptors \ OpenDescriptors(d)
Lowest(S) == CHOOSE n \in S : \A m \in S : n <= m

\* The file and the position of an open descriptor.
Desc(d, fd) == d.descs[d.fds[fd]]
Ino(d, fd) == Desc(d, fd).ino

\* A descriptor for a file: the lowest free one, with a new description.
Install(d, ino) ==
    IF Free(d) = {} THEN Err(d, "EMFILE")
    ELSE Ok([d EXCEPT !.descs = Append(@, [ino |-> ino, pos |-> 0]),
                      !.fds[Lowest(Free(d))] = Len(d.descs) + 1], Num(Lowest(Free(d))))

\* uv_fs_open with flags from {"creat", "trunc", "write"}.
OpenFile(d, p, flags) ==
    LET q == Real(d, p)
    IN  CASE Node(d, q) = "dir" -> Err(d, "EISDIR")
          [] Node(d, q) = "file" /\ "trunc" \in flags ->
                Install(SetData(d, d.tree[q][2], <<>>), d.tree[q][2])
          [] Node(d, q) = "file" -> Install(d, d.tree[q][2])
          [] "creat" \notin flags \/ Node(d, Parent(d, p)) # "dir" -> Err(d, Missing(d, p))
          [] OTHER -> Install(Create(d, q), Len(d.data) + 1)

\* dup(): another descriptor of the same description.
DuplicateFileDescriptor(d, fd) ==
    CASE d.fds[fd] = 0 -> Err(d, "EBADF")
      [] Free(d) = {} -> Err(d, "EMFILE")
      [] OTHER -> Ok([d EXCEPT !.fds[Lowest(Free(d))] = d.fds[fd]], Num(Lowest(Free(d))))

CloseFile(d, fd) ==
    IF d.fds[fd] = 0 THEN Err(d, "EBADF") ELSE Ok([d EXCEPT !.fds[fd] = 0], Num(0))

\* A read takes some of what is asked for, and nothing at the end only.
Taken(s, off, n) ==
    {SubSeq(s, off + 1, k) : k \in {m \in 0..Len(s) :
        m <= off + n /\ (m > off \/ (off >= Len(s) /\ m = Len(s)))}}

ReadFile(d, fd, off, n) ==
    IF d.fds[fd] = 0 THEN Err(d, "EBADF")
    ELSE UNION {Ok(d, Text(s)) : s \in Taken(d.data[Ino(d, fd)], off, n)}

\* data written over s at off, which may be past the end.
Overwrite(s, off, data) ==
    [i \in 1..(IF off + Len(data) > Len(s) THEN off + Len(data) ELSE Len(s)) |->
        CASE i > off /\ i <= off + Len(data) -> data[i - off]
          [] i <= Len(s) /\ ~(i > off /\ i <= off + Len(data)) -> s[i]
          [] OTHER -> 0]

\* A write may be short.
WriteFile(d, fd, off, data) ==
    IF d.fds[fd] = 0 THEN Err(d, "EBADF")
    ELSE UNION {Ok(SetData(d, Ino(d, fd),
                           Overwrite(d.data[Ino(d, fd)], off, SubSeq(data, 1, k))), Num(k))
                    : k \in 1..Len(data)}

FtruncateFile(d, fd, size) ==
    IF d.fds[fd] = 0 THEN Err(d, "EBADF")
    ELSE Ok(SetData(d, Ino(d, fd),
                    [i \in 1..size |-> IF i <= Len(d.data[Ino(d, fd)])
                                       THEN d.data[Ino(d, fd)][i] ELSE 0]), Num(0))

\* lseek() of the target, by which sendfile says where it writes.
SeekFileDescriptor(d, fd, off) ==
    IF d.fds[fd] = 0 THEN Err(d, "EBADF") ELSE Ok([d EXCEPT !.descs[d.fds[fd]].pos = off], Num(0))

Sendfile(d, out, in, off, n) ==
    IF d.fds[out] = 0 \/ d.fds[in] = 0 THEN Err(d, "EBADF")
    ELSE UNION {LET w == SetData(d, Ino(d, out),
                                 Overwrite(d.data[Ino(d, out)], Desc(d, out).pos, s))
                IN  Ok([w EXCEPT !.descs[d.fds[out]].pos = @ + Len(s)], Num(Len(s)))
                    : s \in Taken(d.data[Ino(d, in)], off, n)}

=============================================================================
