------------------------------ MODULE Topology ------------------------------
(***************************************************************************)
(* core/topology.lua: the ten ProcessLang operators and the adjacency      *)
(* relation every same-life movement has to respect.  Glyphs are written   *)
(* by their canonical names (FLOW is the down triangle, MANIFEST the up    *)
(* triangle).                                                              *)
(***************************************************************************)

Operators == {"FLOW", "CONNECT", "DISSOLVE", "ENCODE", "CHOOSE",
              "OBSERVE", "CYCLE", "LOGIC", "RUNTIME", "MANIFEST"}

\* topology.operators[...].adjacent, symmetric in the source's table.
Adjacent ==
  [o \in Operators |->
     CASE o = "FLOW"     -> {"CONNECT", "DISSOLVE", "OBSERVE"}
       [] o = "CONNECT"  -> {"FLOW", "DISSOLVE", "OBSERVE", "ENCODE"}
       [] o = "DISSOLVE" -> {"FLOW", "CONNECT", "OBSERVE", "CHOOSE"}
       [] o = "ENCODE"   -> {"CONNECT", "OBSERVE", "RUNTIME", "CHOOSE", "CYCLE"}
       [] o = "CHOOSE"   -> {"DISSOLVE", "OBSERVE", "RUNTIME", "ENCODE", "LOGIC"}
       [] o = "OBSERVE"  -> {"FLOW", "CONNECT", "DISSOLVE", "ENCODE", "CHOOSE",
                             "RUNTIME"}
       [] o = "CYCLE"    -> {"ENCODE", "LOGIC", "MANIFEST", "RUNTIME"}
       [] o = "LOGIC"    -> {"CHOOSE", "CYCLE", "RUNTIME", "MANIFEST"}
       [] o = "RUNTIME"  -> {"OBSERVE", "MANIFEST", "ENCODE", "CHOOSE", "LOGIC",
                             "CYCLE"}
       [] o = "MANIFEST" -> {"RUNTIME", "CYCLE", "LOGIC"}]

\* Mutation: adjacency is not consulted.
SuccessorsAnywhere(from) == Operators \ {"FLOW"}

\* The same-life successors commit_transition admits: adjacent, never back
\* to FLOW, and none at all from MANIFEST.
Successors(from) ==
  IF from = "MANIFEST" THEN {} ELSE Adjacent[from] \ {"FLOW"}

=============================================================================
