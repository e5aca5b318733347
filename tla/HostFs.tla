------------------------------- MODULE HostFs -------------------------------
(***************************************************************************)
(* The host's file system as proc17_repository_fs.c sees it through        *)
(* openat2, fstat, readdir, renameat2, unlinkat and fsync, and what other  *)
(* processes of the same user may do to it between two of those calls.     *)
(* External code: modelled from how the provider uses it.                  *)
(*                                                                         *)
(* An inode has a kind, the data of a regular file or the entries of a     *)
(* directory, and a stamp: every change of the inode, of its links or of   *)
(* its entries gives it a stamp never used before (st_ctime, which         *)
(* same_file_version compares; the clock is taken to be fine enough).      *)
(* An unlinked inode that no descriptor holds open may be given out again  *)
(* under the same number: born tells two lives of one number apart, and    *)
(* nothing the provider can read does.                                     *)
(*                                                                         *)
(* safe is what a machine crash is sure to leave of a directory, synced    *)
(* whether the data of a file would survive one whole.                     *)
(***************************************************************************)
EXTENDS Naturals, Sequences

CONSTANTS
  Inodes,       \* inode numbers
  Host,         \* the directory that holds the project base; never moved
  Names,        \* names of directory entries
  Sites,        \* the places others change: <<path of the directory, name>>
  KindsAt,      \* KindsAt[site]: the kinds of objects others put there
  NewAt,        \* NewAt[site]: the kinds others create there
  Contents,     \* the contents others write
  Trees0,       \* the nodes in the beginning
  Reach,        \* the relative paths at which something can lie
  MaxTampers    \* bound: changes by others

VARIABLES
  nodes,        \* nodes[i]: the inode of number i
  clock,        \* the last stamp given
  tampers       \* how many changes others have made

host == <<nodes, clock, tampers>>

None == 0
NoEntries == [n \in Names |-> None]
\* A removed directory that is still open is "gone": nothing is in it and
\* nothing can be made in it.  "new" is a number never given out.
Kinds == {"dir", "gone", "regular", "other", "new"}

NodeFields == {"kind", "data", "ents", "safe", "synced", "stamp", "born"}

ASSUME HostAssumption ==
  /\ None \notin Inodes
  /\ \A ns \in Trees0 :
       DOMAIN ns = Inodes /\ \A i \in Inodes : DOMAIN ns[i] = NodeFields

IsKind(i, kind) == i \in Inodes /\ nodes[i].kind = kind

Lookup(i, n) == IF IsKind(i, "dir") THEN nodes[i].ents[n] ELSE None

\* The inode a path names from directory i, None if there is none.
Walk(i, path) ==
  LET at[k \in 0..Len(path)] == IF k = 0 THEN i ELSE Lookup(at[k - 1], path[k])
  IN  at[Len(path)]

\* What fstat tells of an inode.
Stat(i) == [inode |-> i, kind |-> nodes[i].kind, stamp |-> nodes[i].stamp]

Thing(i) == [kind |-> nodes[i].kind, data |-> nodes[i].data]

\* Everything below directory i, by relative path.
ViewOf(i) == [p \in {q \in Reach : Walk(i, q) # None} |-> Thing(Walk(i, p))]

Linked(i) == \E j \in Inodes, n \in Names : Lookup(j, n) = i

\* Numbers a new inode may get: any one used before and free again, or the
\* next one never used; held are the inodes open descriptors pin.
Unused(held) ==
  {i \in Inodes \ held :
     /\ nodes[i].kind # "dir"
     /\ ~Linked(i)
     /\ nodes[i].kind = "new" => \A j \in 1..(i - 1) : nodes[j].kind # "new"}

NewNode(kind, data, ended) ==
  [kind |-> kind, data |-> data, ents |-> NoEntries, safe |-> NoEntries,
   synced |-> ended, stamp |-> clock + 1, born |-> clock + 1]

\* ns after entry n of directory dir is set to i, durably or not.
Bind(ns, dir, n, i, durable) ==
  [ns EXCEPT ![dir] = [ns[dir] EXCEPT !.ents = [ns[dir].ents EXCEPT ![n] = i],
                                      !.safe = IF durable THEN [ns[dir].safe EXCEPT ![n] = i]
                                                          ELSE ns[dir].safe,
                                      !.stamp = clock + 1]]

Restamp(ns, i) == [ns EXCEPT ![i] = [ns[i] EXCEPT !.stamp = clock + 1]]

Below(i) == {i} \cup ({Walk(i, p) : p \in Reach} \ {None})

InitHost ==
  /\ nodes \in Trees0
  /\ clock = 0
  /\ tampers = 0

Tamper ==
  /\ tampers < MaxTampers
  /\ tampers' = tampers + 1
  /\ clock' = clock + 1

DirAt(site) == Walk(Host, site[1])
At(site) == Lookup(DirAt(site), site[2])

Objects(site) ==
  {<<kind, <<>>>> : kind \in NewAt[site] \ {"regular"}}
    \cup {<<kind, data>> : kind \in NewAt[site] \cap {"regular"}, data \in Contents}

\* Others create an object, remove one (a directory with all it holds),
\* rewrite a file in place, or rename an object.
Appear(site, held) ==
  /\ Tamper
  /\ IsKind(DirAt(site), "dir")
  /\ At(site) = None
  /\ \E object \in Objects(site), i \in Unused(held) :
       nodes' = Bind([nodes EXCEPT ![i] = NewNode(object[1], object[2], TRUE)],
                     DirAt(site), site[2], i, TRUE)

Vanish(site) ==
  /\ Tamper
  /\ At(site) # None
  /\ nodes' = Bind([j \in Inodes |->
                      IF j \in Below(At(site))
                      THEN [nodes[j] EXCEPT !.kind = IF nodes[j].kind = "dir" THEN "gone"
                                                     ELSE nodes[j].kind,
                                            !.ents = NoEntries, !.safe = NoEntries,
                                            !.stamp = clock + 1]
                      ELSE nodes[j]],
                   DirAt(site), site[2], None, TRUE)

Rewrite(site, data) ==
  /\ Tamper
  /\ IsKind(At(site), "regular")
  /\ nodes' = [nodes EXCEPT ![At(site)] =
                 [nodes[At(site)] EXCEPT !.data = data, !.stamp = clock + 1]]

Move(site, to) ==
  /\ Tamper
  /\ At(site) # None
  /\ IsKind(DirAt(to), "dir")
  /\ At(to) = None
  /\ nodes[At(site)].kind \in KindsAt[to]
  /\ DirAt(to) \notin Below(At(site))
  /\ nodes' = Restamp(Bind(Bind(nodes, DirAt(site), site[2], None, TRUE),
                           DirAt(to), to[2], At(site), TRUE), At(site))

Others(held) ==
  \/ \E site \in Sites : Appear(site, held)
  \/ \E site \in Sites : Vanish(site)
  \/ \E site \in Sites, data \in Contents : Rewrite(site, data)
  \/ \E site, to \in Sites : Move(site, to)

=============================================================================
