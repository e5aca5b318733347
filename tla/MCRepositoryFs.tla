--------------------------- MODULE MCRepositoryFs ---------------------------
(***************************************************************************)
(* A project base with one repository, in it a directory d and a file f    *)
(* beside it or in it.                                                     *)
(***************************************************************************)
EXTENDS RepositoryFs

MCInodes == 1..7
MCNames == {"d", "f", "t", "x"}
MCBase == <<"d">>
MCRoot == <<"d", "d">>
MCParent == <<"d">>
MCSub == MCRoot \o MCParent
MCContent == <<"n", "n">>
MCContents == {<<"a", "a">>, <<"b">>}
MCSites == {<<<<>>, "d">>, <<MCBase, "d">>, <<MCRoot, "d">>, <<MCRoot, "f">>,
            <<MCSub, "f">>, <<<<>>, "x">>}
MCKindsAt == [s \in MCSites |->
  CASE s[2] = "f" -> {"regular", "other"} [] s[2] = "d" -> {"dir"} [] OTHER -> Kinds]
MCNewAt == [s \in MCSites |->
  CASE s[2] = "x" -> {} [] s = <<MCRoot, "f">> -> {"regular"} [] OTHER -> MCKindsAt[s]]
MCReach == {<<"d">>, <<"f">>, <<"d", "d">>, <<"d", "f">>, <<"d", "t">>, <<"d", "d", "f">>}
MCBounds == [entries |-> 3, depth |-> 2, file |-> 2, total |-> 3]

MCNode(kind, data, ents) ==
  [kind |-> kind, data |-> data, ents |-> ents, safe |-> ents, synced |-> TRUE,
   stamp |-> 0, born |-> 0]
MCDir(child) == MCNode("dir", <<>>, [NoEntries EXCEPT !["d"] = child])
MCFree == MCNode("new", <<>>, NoEntries)
MCFile(content) == MCNode("regular", content, NoEntries)
MCBesides == <<MCDir(2), MCDir(3),
               MCNode("dir", <<>>, [NoEntries EXCEPT !["d"] = 4, !["f"] = 5]),
               MCDir(0), MCFile(<<"a", "a">>), MCFree, MCFree>>
MCThere == <<MCDir(2), MCDir(3), MCDir(4),
             MCNode("dir", <<>>, [NoEntries EXCEPT !["f"] = 5]),
             MCFile(<<"a", "a">>), MCFree, MCFree>>
MCTrees0 == {MCBesides, MCThere}

=============================================================================
