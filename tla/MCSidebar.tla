----------------------------- MODULE MCSidebar -----------------------------
\* Instances of Sidebar for TLC: two projects in two workspaces, one of them a
\* git repository, and sessions to be made in both.
EXTENDS Sidebar

MCSessions == {"a1", "a2", "b1"}
MCStarted == <<"a1", "a2">>
MCProjectOf == [s \in MCSessions |-> IF s = "b1" THEN "b" ELSE "a"]
MCProjectOrder == <<"a", "b", "made">>
MCWorkspaceOf == [p \in {"a", "b", "made"} |-> IF p = "b" THEN "work" ELSE "default"]
MCWorkspaces == <<"default", "work">>
\* Nothing tells one status from another.
MCStatuses == Permutations(Statuses)
=============================================================================
