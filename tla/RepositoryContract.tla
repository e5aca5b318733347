------------------------- MODULE RepositoryContract -------------------------
(***************************************************************************)
(* What a repository provider promises its caller                          *)
(* (runtime/repository_provider.lua names it                               *)
(* repository.provider.create_readback.v0), without saying how: while a    *)
(* call runs the repository changes at will, and the call's answer must be *)
(* true of some instant of the call.                                       *)
(***************************************************************************)
EXTENDS Naturals, Sequences

CONSTANTS
  Target,       \* the path that create and read are asked about
  Content,      \* the content create is to give it
  MaxRead,      \* how much of a file a read returns
  Temps         \* the reserved names of temporary files

VARIABLES
  tree,         \* [bound, view]: whether the repository path still names
                \* the repository opened, and what that repository holds
  call,         \* the operation running, "none" between calls
  seen,         \* the trees that held since the call began
  effect,       \* "published" once the running create has made its file
  doubt,        \* a create has answered that its effect is unknown
  answer        \* the last answer: [outcome, what]

vars == <<tree, call, seen, effect, doubt, answer>>

\* The part of a view a read reports.
Only(view) ==
  [p \in {Target} \cap DOMAIN view |->
     [view[p] EXCEPT !.data = SubSeq(view[p].data, 1,
        IF Len(view[p].data) < MaxRead THEN Len(view[p].data) ELSE MaxRead)]]

Litter(view) == {p \in DOMAIN view : p[Len(p)] \in Temps}

\* An answer that rests on the root names a root that was in its place.
Rooted == \E t \in seen : t.bound

Truthful(a) ==
  /\ a.outcome \in {"valid", "observed", "stable", "unstable", "bound_exceeded"} => Rooted
  /\ a.outcome = "observed" => \E t \in seen : a.what = Only(t.view)
  /\ a.outcome = "stable" => \E t \in seen : a.what = t.view
  /\ a.outcome = "created" => effect = "published"
  /\ a.outcome \in {"world", "contract"} => effect = "none"

Init ==
  /\ tree \in [bound : {FALSE}, view : {<<>>}]
  /\ call = "none"
  /\ seen = {}
  /\ effect = "none"
  /\ doubt = FALSE
  /\ answer = [outcome |-> "none", what |-> <<>>]

Begin ==
  /\ call = "none"
  /\ call' # "none"
  /\ seen' = {tree'}
  /\ effect' = "none"
  /\ UNCHANGED <<tree, doubt, answer>>

\* Anything may happen to the repository, the provider's own temporary
\* files included.
Change ==
  /\ seen' = IF call = "none" THEN {} ELSE seen \cup {tree'}
  /\ UNCHANGED <<call, effect, doubt, answer>>

\* A create makes its file once, whole, and where there was none; the
\* directory it makes it in may have been taken out of the repository.
Publish ==
  /\ call = "create"
  /\ effect = "none"
  /\ effect' = "published"
  /\ \/ tree' = tree
     \/ /\ Target \notin DOMAIN tree.view
        /\ Target \in DOMAIN tree'.view
        /\ tree'.view[Target] = [kind |-> "regular", data |-> Content]
  /\ seen' = seen \cup {tree'}
  /\ UNCHANGED <<call, doubt, answer>>

\* Opening a repository changes which one is looked at, closing likewise.
Answer ==
  /\ call' = "none"
  /\ call \in {"none", "open"} \/ tree' = tree
  /\ Truthful(answer')
  /\ call = "none" => answer'.outcome \in {"contract", "closed", "world"}
  /\ doubt' = (doubt \/ answer'.outcome = "ambiguous")
  /\ ~doubt' /\ call = "create" => Litter(tree.view) = {}
  /\ seen' = {}
  /\ effect' = "none"

Next == Begin \/ Change \/ Publish \/ Answer

Spec == Init /\ [][Next]_vars

=============================================================================
