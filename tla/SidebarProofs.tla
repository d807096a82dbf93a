---------------------------- MODULE SidebarProofs ----------------------------
(***************************************************************************)
(* Proofs about module Sidebar and the palette it is composed with, for    *)
(* any sessions, projects, workspaces, statuses and bounds: what the list  *)
(* is, the types, the cursor over a list made anew, the palette's          *)
(* parameters, and the way of a session that was made into view.           *)
(***************************************************************************)
EXTENDS Sidebar, Lists

-----------------------------------------------------------------------------
(* What is kept of a sequence *)

\* The function of which Kept(q, S) is the last value.
Keeps(f, q, S) ==
    f = [n \in 0 .. Len(q) |->
            IF n = 0 THEN <<>> ELSE IF q[n] \in S THEN Append(f[n - 1], q[n]) ELSE f[n - 1]]

\* Its values, step by step.
KeepsIn(f, q, S, E) ==
    /\ f \in [0 .. Len(q) -> Seq(E)] /\ f[0] = <<>> /\ Kept(q, S) = f[Len(q)]
    /\ \A n \in 1 .. Len(q) : f[n] = IF q[n] \in S THEN Append(f[n - 1], q[n]) ELSE f[n - 1]

LEMMA KeptSteps ==
    ASSUME NEW E, NEW q \in Seq(E), NEW S
    PROVE  \E f : KeepsIn(f, q, S, E)
<1> DEFINE N == Len(q)
           V == Seq(E)
           step == [x \in (1 .. N) \X V |-> IF q[x[1]] \in S THEN Append(x[2], q[x[1]]) ELSE x[2]]
<1>1. N \in Nat /\ <<>> \in V /\ \A n \in 1 .. N : q[n] \in E
  BY ElementOfSeq, LenProperties, EmptySeq
<1>2. step \in [(1 .. N) \X V -> V]
  <2> SUFFICES ASSUME NEW x \in (1 .. N) \X V
               PROVE  (IF q[x[1]] \in S THEN Append(x[2], q[x[1]]) ELSE x[2]) \in V
    OBVIOUS
  <2>1. x[1] \in 1 .. N /\ x[2] \in V
    OBVIOUS
  <2>2. q[x[1]] \in E
    BY <1>1, <2>1
  <2> QED  BY <2>1, <2>2
<1>3. PICK f \in [0 .. N -> V] : Iterates(f, <<>>, step, N)
  <2> HIDE DEF V, N, step
  <2> QED  BY <1>1, <1>2, Recursion
<1>4. ASSUME NEW n \in 1 .. N
      PROVE  f[n] = IF q[n] \in S THEN Append(f[n - 1], q[n]) ELSE f[n - 1]
  <2>1. n - 1 \in 0 .. N
    BY <1>1
  <2>2. <<n, f[n - 1]>> \in (1 .. N) \X V /\ <<n, f[n - 1]>>[1] = n /\ <<n, f[n - 1]>>[2] = f[n - 1]
    BY <2>1
  <2>3. f[n] = step[<<n, f[n - 1]>>]
    BY <1>3 DEF Iterates
  <2> QED  BY <2>2, <2>3
<1>5. Keeps(f, q, S)
  <2> DEFINE g == [n \in 0 .. N |-> IF n = 0 THEN <<>>
                      ELSE IF q[n] \in S THEN Append(f[n - 1], q[n]) ELSE f[n - 1]]
  <2>1. ASSUME NEW n \in 0 .. N
        PROVE  g[n] = f[n]
    <3>1. CASE n = 0
      BY <1>3, <3>1 DEF Iterates
    <3>2. CASE n # 0
      <4>1. n \in 1 .. N
        BY <1>1, <3>2
      <4> QED  BY <1>4, <3>2, <4>1
    <3> QED  BY <3>1, <3>2
  <2>2. f = g
    BY <2>1
  <2> QED  BY <2>2 DEF Keeps
<1> DEFINE h == CHOOSE h : Keeps(h, q, S)
<1>6. Keeps(h, q, S)
  BY <1>5, Zenon
<1>7. Kept(q, S) = h[N]
  BY DEF Kept, Keeps
<1>8. h[N] = f[N]
  <2> HIDE DEF h, V
  <2>1. h[0] = f[0]
    BY <1>1, <1>3, <1>6 DEF Keeps, Iterates
  <2>2. ASSUME NEW n \in 1 .. N, h[n - 1] = f[n - 1]
        PROVE  h[n] = f[n]
    <3>1. n \in 0 .. N /\ n # 0
      BY <1>1
    <3>2. h[n] = IF q[n] \in S THEN Append(h[n - 1], q[n]) ELSE h[n - 1]
      BY <1>6, <3>1 DEF Keeps
    <3> QED  BY <1>4, <2>2, <3>2
  <2>3. \A n \in 0 .. N : h[n] = f[n]
    BY <1>1, <2>1, <2>2, RecursionUnique
  <2> QED  BY <1>1, <2>3
<1>9. f \in [0 .. N -> Seq(E)] /\ f[0] = <<>> /\ Kept(q, S) = f[N]
  BY <1>3, <1>7, <1>8 DEF Iterates
<1>10. KeepsIn(f, q, S, E)
  BY <1>4, <1>9 DEF KeepsIn
<1> QED  BY <1>10

LEMMA KeptIs ==
    ASSUME NEW E, NEW q \in Seq(E), NEW S
    PROVE  Kept(q, S) \in Seq(E) /\ ToSet(Kept(q, S)) = ToSet(q) \cap S
<1> DEFINE N == Len(q)
           First_(n) == {q[i] : i \in 1 .. n}
<1>1. N \in Nat /\ DOMAIN q = 1 .. N /\ \A n \in 1 .. N : q[n] \in E
  BY ElementOfSeq, LenProperties
<1>2. PICK f \in [0 .. N -> Seq(E)] :
          /\ f[0] = <<>> /\ Kept(q, S) = f[N]
          /\ \A n \in 1 .. N : f[n] = IF q[n] \in S THEN Append(f[n - 1], q[n]) ELSE f[n - 1]
  <2>1. \E f : KeepsIn(f, q, S, E)
    BY KeptSteps
  <2> QED  BY <2>1, Zenon DEF KeepsIn
<1> DEFINE T == {n \in Nat : n <= N => ToSet(f[n]) = First_(n) \cap S}
<1>3. 0 \in T
  <2>1. ToSet(f[0]) = {} /\ First_(0) = {}
    BY <1>2 DEF ToSet
  <2> QED  BY <2>1
<1>4. ASSUME NEW n \in Nat, n \in T
      PROVE  n + 1 \in T
  <2> SUFFICES ASSUME n + 1 <= N
               PROVE  ToSet(f[n + 1]) = First_(n + 1) \cap S
    OBVIOUS
  <2>1. /\ n + 1 \in 1 .. N /\ n \in 0 .. N /\ (n + 1) - 1 = n /\ f[n] \in Seq(E)
        /\ ToSet(f[n]) = First_(n) \cap S /\ q[n + 1] \in E
    <3>1. n <= N => ToSet(f[n]) = First_(n) \cap S
      BY <1>4
    <3> HIDE DEF T, First_
    <3>2. n + 1 \in 1 .. N /\ n \in 0 .. N /\ (n + 1) - 1 = n /\ n <= N
      BY <1>1
    <3>3. f[n] \in Seq(E) /\ q[n + 1] \in E
      BY <1>1, <1>2, <3>2
    <3> QED  BY <3>1, <3>2, <3>3
  <2>2. First_(n + 1) = First_(n) \cup {q[n + 1]}
    <3>1. 1 .. n + 1 = (1 .. n) \cup {n + 1}
      OBVIOUS
    <3> QED  BY <3>1
  <2>3. f[n + 1] = IF q[n + 1] \in S THEN Append(f[n], q[n + 1]) ELSE f[n]
    BY <1>2, <2>1
  <2>4. ToSet(Append(f[n], q[n + 1])) = ToSet(f[n]) \cup {q[n + 1]}
    BY <2>1, AppendSet
  <2> HIDE DEF First_
  <2> QED  BY <2>1, <2>2, <2>3, <2>4
<1>5. Nat \subseteq T
  <2> HIDE DEF T
  <2> QED  BY <1>3, <1>4, Induction
<1>6. N \in T /\ First_(N) = ToSet(q) /\ N \in 0 .. N
  BY <1>1, <1>5 DEF ToSet
<1> QED  BY <1>1, <1>2, <1>6

-----------------------------------------------------------------------------
(* The list of the items *)

NamesOfProjects == ToSet(ProjectOrder)
ItemsOf(B) == [project : NamesOfProjects, session : B \cup {NoSession}]
AllStatuses == Statuses \cup {"new", "gone"}
\* A table with sessions of B.
TablesOf(B) == [order : Seq(B), status : [Sessions -> AllStatuses]]
\* Session s is in the table, and shown by a filter that lets all through.
Listed(tbl, s) == s \in ToSet(tbl.order) /\ tbl.status[s] \in Statuses

LEMMA GroupIs ==
    ASSUME NEW B, B \subseteq Sessions, NEW p \in NamesOfProjects, NEW shown \in Seq(B), NEW fld,
           \A s \in ToSet(shown) : ProjectOf[s] = p
    PROVE  /\ Group(p, shown, fld) \in Seq(ItemsOf(B))
           /\ p \notin fld => \A s \in ToSet(shown) :
                                  \E x \in ToSet(Group(p, shown, fld)) : x.session = s
<1>1. CASE shown = <<>>
  BY <1>1 DEF Group, ToSet
<1>2. CASE shown # <<>>
  <2> DEFINE cards == [i \in DOMAIN shown |-> Card(shown[i])]
             rest == IF p \in fld THEN <<>> ELSE cards
  <2>1. Group(p, shown, fld) = <<Header(p)>> \o rest
    BY <1>2 DEF Group
  <2>2. Header(p) \in ItemsOf(B)
    BY DEF Header, ItemsOf
  <2>3. DOMAIN shown = 1 .. Len(shown) /\ Len(shown) \in Nat
    BY LenProperties
  <2>4. ASSUME NEW i \in DOMAIN shown
        PROVE  shown[i] \in B /\ shown[i] \in ToSet(shown) /\ Card(shown[i]) \in ItemsOf(B)
               /\ Card(shown[i]).session = shown[i]
    <3>1. shown[i] \in B /\ shown[i] \in ToSet(shown)
      BY <2>3, ElementOfSeq DEF ToSet
    <3> QED  BY <3>1 DEF Card, ItemsOf
  <2>5. cards \in Seq(ItemsOf(B))
    BY <2>3, <2>4, IsASeq
  <2>6. rest \in Seq(ItemsOf(B)) /\ <<Header(p)>> \in Seq(ItemsOf(B))
    <3> HIDE DEF cards
    <3>1. <<>> \in Seq(ItemsOf(B))
      BY EmptySeq
    <3> QED  BY <2>2, <2>5, <3>1
  <2>7. <<Header(p)>> \o rest \in Seq(ItemsOf(B)) /\ ToSet(rest) \subseteq ToSet(<<Header(p)>> \o rest)
    <3> DEFINE head == <<Header(p)>>
               E == ItemsOf(B)
    <3>1. head \in Seq(E) /\ rest \in Seq(E)
      BY <2>6
    <3> HIDE DEF rest, head, E
    <3>2. head \o rest \in Seq(E)
      BY <3>1, ConcatProperties
    <3>3. ToSet(head \o rest) = ToSet(head) \cup ToSet(rest)
      BY <3>1, ConcatSet
    <3> QED  BY <3>2, <3>3 DEF head, E
  <2>8. ASSUME p \notin fld, NEW s \in ToSet(shown)
        PROVE  \E x \in ToSet(Group(p, shown, fld)) : x.session = s
    <3>1. PICK i \in DOMAIN shown : shown[i] = s
      BY DEF ToSet
    <3>2. Card(shown[i]) \in ToSet(cards)
      BY <3>1 DEF ToSet
    <3>3. Card(shown[i]) \in ToSet(Group(p, shown, fld))
      BY <2>1, <2>7, <2>8, <3>2
    <3> QED  BY <2>4, <3>1, <3>3
  <2> QED  BY <2>1, <2>7, <2>8
<1> QED  BY <1>1, <1>2

LEMMA ShownIs ==
    ASSUME NEW B, B \subseteq Sessions, NEW tbl \in TablesOf(B), NEW flt, NEW w, NEW p
    PROVE  /\ Shown(tbl, flt, w, p) \in Seq(B)
           /\ \A s : s \in ToSet(Shown(tbl, flt, w, p)) <=>
                        /\ s \in ToSet(tbl.order) /\ ProjectOf[s] = p
                        /\ WorkspaceOf[p] = w /\ tbl.status[s] \in flt
<1> DEFINE S == {s \in Sessions : ProjectOf[s] = p /\ WorkspaceOf[p] = w /\ tbl.status[s] \in flt}
<1>1. tbl.order \in Seq(B)
  BY DEF TablesOf
<1>2. Kept(tbl.order, S) \in Seq(B) /\ ToSet(Kept(tbl.order, S)) = ToSet(tbl.order) \cap S
  <2> HIDE DEF S
  <2> QED  BY <1>1, KeptIs
<1>3. ToSet(tbl.order) \subseteq Sessions
  <2>1. \A i \in DOMAIN tbl.order : tbl.order[i] \in B
    BY <1>1, ElementOfSeq, LenProperties
  <2> QED  BY <2>1 DEF ToSet
<1> QED  BY <1>2, <1>3 DEF Shown

LEMMA ItemsAre ==
    ASSUME NEW B, B \subseteq Sessions, NEW tbl \in TablesOf(B), NEW flt, NEW fld, NEW w
    PROVE  /\ Items(tbl, flt, fld, w) \in Seq(ItemsOf(B))
           /\ \A s \in ToSet(tbl.order) :
                 tbl.status[s] \in flt /\ ProjectOf[s] \notin fld /\ w = WorkspaceOf[ProjectOf[s]]
                    => \E i \in DOMAIN Items(tbl, flt, fld, w) : Items(tbl, flt, fld, w)[i].session = s
<1> DEFINE G(p) == Group(p, Shown(tbl, flt, w, p), fld)
           q == [i \in DOMAIN ProjectOrder |-> G(ProjectOrder[i])]
           E == ItemsOf(B)
<1>1. /\ DOMAIN ProjectOrder = 1 .. Len(ProjectOrder) /\ Len(ProjectOrder) \in Nat
      /\ \A i \in DOMAIN ProjectOrder : ProjectOrder[i] \in NamesOfProjects
  BY SidebarAssumption, LenProperties DEF NamesOfProjects, ToSet
<1>2. ASSUME NEW p \in NamesOfProjects
      PROVE  /\ G(p) \in Seq(E)
             /\ p \notin fld => \A s \in ToSet(Shown(tbl, flt, w, p)) : \E x \in ToSet(G(p)) : x.session = s
  <2>1. /\ Shown(tbl, flt, w, p) \in Seq(B)
        /\ \A s \in ToSet(Shown(tbl, flt, w, p)) : ProjectOf[s] = p
    BY ShownIs
  <2> QED  BY <2>1, GroupIs
<1>3. q \in Seq(Seq(E))
  <2> HIDE DEF G, E
  <2> QED  BY <1>1, <1>2, IsASeq
<1>4. Items(tbl, flt, fld, w) = FlattenSeq(q)
  BY DEF Items
<1>5. /\ FlattenSeq(q) \in Seq(E)
      /\ \A x : x \in ToSet(FlattenSeq(q)) <=> \E i \in DOMAIN q : x \in ToSet(q[i])
  <2> HIDE DEF q, E
  <2> QED  BY <1>3, FlattenElements
<1>6. ASSUME NEW s \in ToSet(tbl.order), tbl.status[s] \in flt, ProjectOf[s] \notin fld,
             w = WorkspaceOf[ProjectOf[s]]
      PROVE  \E i \in DOMAIN Items(tbl, flt, fld, w) : Items(tbl, flt, fld, w)[i].session = s
  <2>1. s \in Sessions
    <3>1. tbl.order \in Seq(B)
      BY DEF TablesOf
    <3>2. \A i \in DOMAIN tbl.order : tbl.order[i] \in B
      BY <3>1, ElementOfSeq, LenProperties
    <3> QED  BY <3>2 DEF ToSet
  <2>2. ProjectOf[s] \in NamesOfProjects
    BY <2>1, SidebarAssumption DEF NamesOfProjects
  <2>3. PICK j \in DOMAIN ProjectOrder : ProjectOrder[j] = ProjectOf[s]
    BY <2>2 DEF NamesOfProjects, ToSet
  <2>4. s \in ToSet(Shown(tbl, flt, w, ProjectOf[s]))
    BY <1>6, ShownIs
  <2>5. PICK x \in ToSet(G(ProjectOf[s])) : x.session = s
    BY <1>2, <1>6, <2>2, <2>4
  <2>6. x \in ToSet(q[j]) /\ j \in DOMAIN q
    BY <2>3, <2>5
  <2>7. x \in ToSet(FlattenSeq(q))
    <3> HIDE DEF q
    <3> QED  BY <1>5, <2>6
  <2>8. x \in ToSet(Items(tbl, flt, fld, w))
    BY <1>4, <2>7
  <2> QED  BY <2>5, <2>8 DEF ToSet
<1> QED  BY <1>4, <1>5, <1>6

-----------------------------------------------------------------------------
(* Places in the list *)

LEMMA FirstIs ==
    ASSUME NEW N \in Nat, NEW at, at \subseteq 1 .. N
    PROVE  /\ First(at) \in 0 .. N
           /\ First(at) # 0 => First(at) \in at
           /\ at # {} => First(at) # 0
<1>1. CASE at = {}
  BY <1>1 DEF First
<1>2. CASE at # {}
  <2>1. at \subseteq Nat /\ \A i \in at : i \in 1 .. N
    OBVIOUS
  <2>2. PICK i \in at : \A j \in at : ~ (j < i)
    BY <1>2, <2>1, Least
  <2>3. \E k \in at : \A j \in at : k <= j
    BY <2>1, <2>2
  <2>4. First(at) \in at
    BY <1>2, <2>3 DEF First
  <2>5. First(at) \in 1 .. N
    BY <2>1, <2>4
  <2>6. First(at) \in 0 .. N /\ First(at) # 0
    BY <2>5
  <2> QED  BY <2>4, <2>6
<1> QED  BY <1>1, <1>2

\* A session of which the list has an item is found, at an item of its own.
LEMMA CursorOfIs ==
    ASSUME NEW E, NEW list \in Seq(E), NEW s
    PROVE  /\ CursorOf(list, s) \in 0 .. Len(list)
           /\ CursorOf(list, s) # 0 => At(list, CursorOf(list, s)).session = s
           /\ s # NoSession /\ (\E i \in DOMAIN list : list[i].session = s) => CursorOf(list, s) # 0
           /\ CursorOf(list, s) # 0 => s # NoSession
<1> DEFINE at == {i \in DOMAIN list : list[i].session = s}
<1>1. DOMAIN list = 1 .. Len(list) /\ Len(list) \in Nat
  BY LenProperties
<1>2. at \subseteq 1 .. Len(list)
  BY <1>1
<1>3. /\ First(at) \in 0 .. Len(list)
      /\ First(at) # 0 => First(at) \in at
      /\ at # {} => First(at) # 0
  <2> HIDE DEF at
  <2> QED  BY <1>1, <1>2, FirstIs
<1>4. CursorOf(list, s) = IF s = NoSession THEN 0 ELSE First(at)
  BY DEF CursorOf
<1>5. CASE s = NoSession
  BY <1>1, <1>4, <1>5
<1>6. CASE s # NoSession
  <2>1. CursorOf(list, s) = First(at)
    BY <1>4, <1>6
  <2>2. First(at) # 0 => At(list, First(at)).session = s
    <3> SUFFICES ASSUME First(at) # 0 PROVE At(list, First(at)).session = s
      OBVIOUS
    <3> DEFINE n == First(at)
    <3>1. n \in at
      BY <1>3
    <3> HIDE DEF n
    <3>2. n \in DOMAIN list /\ list[n].session = s
      BY <3>1
    <3> QED  BY <3>2 DEF At, n
  <2> QED  BY <1>3, <1>6, <2>1, <2>2
<1> QED  BY <1>5, <1>6

\* Where restoreCursor leaves the cursor.
LEMMA RestoreCursorIs ==
    ASSUME NEW E, NEW list \in Seq(E), NEW prev, cursor \in Nat
    PROVE  /\ RestoreCursor(prev, list) \in 0 .. Len(list)
           /\ CursorOf(list, prev.session) # 0
                 => At(list, RestoreCursor(prev, list)).session = prev.session
<1> DEFINE same    == CursorOf(list, prev.session)
           project == First({i \in DOMAIN list : prev.project # "" /\ list[i].project = prev.project})
           header  == First({i \in DOMAIN list : IsHeader(list[i]) /\ list[i].project = prev.project})
<1>1. DOMAIN list = 1 .. Len(list) /\ Len(list) \in Nat
  BY LenProperties
<1>2. project \in 0 .. Len(list) /\ header \in 0 .. Len(list)
  <2>1. \A at : at \subseteq 1 .. Len(list) => First(at) \in 0 .. Len(list)
    BY <1>1, FirstIs
  <2> QED  BY <1>1, <2>1
<1>3. same \in 0 .. Len(list) /\ (same # 0 => At(list, same).session = prev.session)
  BY CursorOfIs
<1>4. RestoreCursor(prev, list) =
          IF same # 0 THEN same
          ELSE IF prev.session # NoSession /\ project # 0 THEN project
          ELSE IF IsHeader(prev) /\ header # 0 THEN header
          ELSE IF cursor > Len(list) THEN Len(list) ELSE cursor
  BY DEF RestoreCursor
<1> HIDE DEF same, project, header
<1>5. RestoreCursor(prev, list) \in 0 .. Len(list)
  BY <1>1, <1>2, <1>3, <1>4
<1>6. same # 0 => At(list, RestoreCursor(prev, list)).session = prev.session
  BY <1>3, <1>4
<1> QED  BY <1>5, <1>6 DEF same

\* The workspaces offered: those of Workspaces that a session has, and the default.
LEMMA WorkspacesAre ==
    ASSUME NEW tbl
    PROVE  /\ CollectWorkspaces(tbl) \in Seq(ToSet(Workspaces))
           /\ Default \in ToSet(CollectWorkspaces(tbl))
           /\ \A s \in Sessions : s \in ToSet(tbl.order)
                  => WorkspaceOf[ProjectOf[s]] \in ToSet(CollectWorkspaces(tbl))
<1> DEFINE S == {Default} \cup {WorkspaceOf[ProjectOf[s]] : s \in ToSet(tbl.order)}
<1>1. CollectWorkspaces(tbl) \in Seq(ToSet(Workspaces))
      /\ ToSet(CollectWorkspaces(tbl)) = ToSet(Workspaces) \cap S
  <2>1. CollectWorkspaces(tbl) = Kept(Workspaces, S)
    BY DEF CollectWorkspaces
  <2>2. Workspaces \in Seq(ToSet(Workspaces))
    BY SidebarAssumption
  <2> HIDE DEF S
  <2>3. Kept(Workspaces, S) \in Seq(ToSet(Workspaces)) /\ ToSet(Kept(Workspaces, S)) = ToSet(Workspaces) \cap S
    BY <2>2, KeptIs
  <2> QED  BY <2>1, <2>3
<1>2. Default \in ToSet(Workspaces)
  <2>1. Workspaces \in Seq(ToSet(Workspaces)) /\ Workspaces # <<>>
    BY SidebarAssumption
  <2>2. 1 \in DOMAIN Workspaces
    BY <2>1, TailElements
  <2> QED  BY <2>2 DEF Default, ToSet
<1>3. \A s \in Sessions : WorkspaceOf[ProjectOf[s]] \in ToSet(Workspaces)
  BY SidebarAssumption
<1> QED  BY <1>1, <1>2, <1>3

-----------------------------------------------------------------------------
(* Types.  Whatever a table, a command, an answer or the sidebar names is a  *)
(* session there has been.                                                   *)

Born == {s \in Sessions : status[s] # "new"}
EventsOf(B) == [order : Seq(B), status : [Sessions -> AllStatuses], active : B \cup {NoSession},
                preview : BOOLEAN]

\* A tool is launched with the arguments of the keys, of which none is a worktree.
Launched(c) == c.tool \in {"new-session", "stop-session"} /\ "worktree" \notin DOMAIN c.args
CallOk(c, B) ==
    /\ c.op = "preview" => c.session \in B
    /\ c.op = "focus" => c.pane = MainPane
    /\ c.op = "tool" => Launched(c)

DaemonOk(B) ==
    /\ status \in [Sessions -> AllStatuses]
    /\ order \in Seq(B) /\ active \in B \cup {NoSession}
    /\ events \in Seq(EventsOf(B))

ModelOk(B) ==
    /\ table \in TablesOf(B) /\ mactive \in B \cup {NoSession} /\ anchored \in B \cup {NoSession}
    /\ cursor \in Nat /\ offset \in Nat
    /\ filter \subseteq Statuses /\ folded \subseteq NamesOfProjects
    /\ ws \in ToSet(CollectWorkspaces(table))

CallsOk(B) ==
    /\ \A c \in cmds : CallOk(c, B)
    /\ \A r \in replies : r.op = "preview" => r.session \in B \cup {NoSession}
    /\ focus \in LayoutPanes

Base == DaemonOk(Born) /\ ModelOk(Born) /\ CallsOk(Born)

LEMMA MoreTables == ASSUME NEW B, NEW C, B \subseteq C
                    PROVE  Seq(B) \subseteq Seq(C) /\ TablesOf(B) \subseteq TablesOf(C)
                           /\ EventsOf(B) \subseteq EventsOf(C) /\ Seq(EventsOf(B)) \subseteq Seq(EventsOf(C))
<1>1. \A E, F : E \subseteq F => Seq(E) \subseteq Seq(F)
  <2> SUFFICES ASSUME NEW E, NEW F, E \subseteq F, NEW q \in Seq(E)
               PROVE  q \in Seq(F)
    OBVIOUS
  <2> QED  OBVIOUS
<1>2. Seq(B) \subseteq Seq(C)
  BY <1>1
<1>3. TablesOf(B) \subseteq TablesOf(C)
  BY <1>2 DEF TablesOf
<1>4. EventsOf(B) \subseteq EventsOf(C)
  BY <1>2 DEF EventsOf
<1> QED  BY <1>1, <1>2, <1>3, <1>4

LEMMA ModelGrows == ASSUME NEW B, NEW C, B \subseteq C, ModelOk(B) PROVE ModelOk(C)
  BY MoreTables DEF ModelOk

LEMMA CallsGrow == ASSUME NEW B, NEW C, B \subseteq C, CallsOk(B) PROVE CallsOk(C)
  BY DEF CallsOk, CallOk

\* What an item names.
LEMMA Named ==
    ASSUME NEW B, B \subseteq Sessions, NEW tbl \in TablesOf(B), NEW flt, NEW fld, NEW w,
           NEW list, list = Items(tbl, flt, fld, w)
    PROVE  /\ list \in Seq(ItemsOf(B)) /\ Len(list) \in Nat /\ DOMAIN list = 1 .. Len(list)
           /\ \A i : /\ At(list, i).session \in B \cup {NoSession}
                     /\ At(list, i).project \in NamesOfProjects \cup {""}
<1>1. list \in Seq(ItemsOf(B))
  BY ItemsAre
<1>2. Len(list) \in Nat /\ DOMAIN list = 1 .. Len(list)
  BY <1>1, LenProperties
<1>3. ASSUME NEW i
      PROVE  /\ At(list, i).session \in B \cup {NoSession}
             /\ At(list, i).project \in NamesOfProjects \cup {""}
  <2>1. CASE i \in DOMAIN list
    <3>1. list[i] \in ItemsOf(B)
      BY <1>1, <1>2, <2>1, ElementOfSeq
    <3> QED  BY <2>1, <3>1 DEF At, ItemsOf
  <2>2. CASE i \notin DOMAIN list
    BY <2>2 DEF At, NoItem
  <2> QED  BY <2>1, <2>2
<1> QED  BY <1>1, <1>2, <1>3

LEMMA BornSessions == Born \subseteq Sessions
  BY DEF Born

LEMMA InitBase == Init => Base
<1> SUFFICES ASSUME Init PROVE Base
  OBVIOUS
<1>1. PICK given \in {<<>>, Started} :
          /\ order = given
          /\ status \in [Sessions -> Statuses \cup {"new"}]
          /\ \A s \in Sessions : status[s] = "new" <=> s \notin ToSet(given)
  BY DEF Init
<1>2. given \in Seq(Sessions)
  BY SidebarAssumption, EmptySeq
<1>3. order \in Seq(Born)
  <2>1. \A i \in 1 .. Len(given) : given[i] \in Sessions /\ given[i] \in ToSet(given)
    BY <1>2, ElementOfSeq, LenProperties DEF ToSet
  <2>2. \A i \in 1 .. Len(given) : given[i] \in Born
    BY <1>1, <2>1 DEF Born
  <2> QED  BY <1>1, <1>2, <2>2
<1>4. status \in [Sessions -> AllStatuses]
  BY <1>1 DEF AllStatuses
<1>5. events \in Seq(EventsOf(Born))
  <2>1. events = <<[order |-> order, status |-> status, active |-> NoSession, preview |-> FALSE]>>
    BY DEF Init
  <2>2. [order |-> order, status |-> status, active |-> NoSession, preview |-> FALSE] \in EventsOf(Born)
    BY <1>3, <1>4 DEF EventsOf
  <2> QED  BY <2>1, <2>2
<1>6. table \in TablesOf(Born)
  <2>1. table = [order |-> <<>>, status |-> [x \in Sessions |-> "new"]]
    BY DEF Init
  <2>2. [x \in Sessions |-> "new"] \in [Sessions -> AllStatuses] /\ <<>> \in Seq(Born)
    BY EmptySeq DEF AllStatuses
  <2> QED  BY <2>1, <2>2 DEF TablesOf
<1>7. DaemonOk(Born)
  BY <1>3, <1>4, <1>5 DEF DaemonOk, Init
<1>8. ModelOk(Born)
  BY <1>6, WorkspacesAre DEF ModelOk, Init
<1>9. CallsOk(Born)
  BY DEF CallsOk, Init, LayoutPanes, SidebarPane
<1> QED  BY <1>7, <1>8, <1>9 DEF Base

-----------------------------------------------------------------------------
(* The list made anew *)

\* The cursor is on an item or on none, and on its session if that is listed.
Stays ==
    /\ cursor' \in 0 .. Len(items')
    /\ CursorOf(items', CursorSession) # 0 => CursorSession' = CursorSession

LEMMA Remakes ==
    ASSUME Base, NEW flt, flt \subseteq Statuses, NEW fld, fld \subseteq NamesOfProjects, NEW w,
           RebuildItems(table, flt, fld, w)
    PROVE  /\ table' = table /\ filter' = flt /\ folded' = fld
           /\ ws' \in ToSet(CollectWorkspaces(table'))
           /\ cursor' \in Nat /\ Stays
<1> DEFINE next == IF w \in ToSet(CollectWorkspaces(table)) THEN w ELSE Default
           list == Items(table, flt, fld, next)
           prev == At(items, cursor)
<1>1. table' = table /\ filter' = flt /\ folded' = fld /\ ws' = next /\ cursor' = RestoreCursor(prev, list)
  BY DEF RebuildItems
<1>2. next \in ToSet(CollectWorkspaces(table))
  BY WorkspacesAre
<1>3. items' = list
  BY <1>1 DEF items
<1>4. list \in Seq(ItemsOf(Born)) /\ cursor \in Nat
  BY ItemsAre, BornSessions DEF Base, ModelOk
<1>5. prev.session = CursorSession
  BY DEF CursorSession
<1> HIDE DEF next, list, prev
<1>6. /\ RestoreCursor(prev, list) \in 0 .. Len(list)
      /\ CursorOf(list, prev.session) # 0
              => At(list, RestoreCursor(prev, list)).session = prev.session
  BY <1>4, RestoreCursorIs
<1>7. CursorSession' = At(list, cursor').session
  BY <1>3 DEF CursorSession
<1>8. Len(list) \in Nat
  BY <1>4, LenProperties
<1>9. Stays
  BY <1>1, <1>3, <1>5, <1>6, <1>7 DEF Stays
<1>10. cursor' \in Nat
  BY <1>1, <1>6, <1>8
<1> QED  BY <1>1, <1>2, <1>9, <1>10

-----------------------------------------------------------------------------
(* Steps of the user *)

LEMMA NamedNow ==
    ASSUME Base
    PROVE  /\ items \in Seq(ItemsOf(Born)) /\ Len(items) \in Nat /\ DOMAIN items = 1 .. Len(items)
           /\ \A i : /\ At(items, i).session \in Born \cup {NoSession}
                     /\ At(items, i).project \in NamesOfProjects \cup {""}
<1> DEFINE list == Items(table, filter, folded, ws)
<1>1. table \in TablesOf(Born) /\ items = list
  BY DEF Base, ModelOk, items
<1> HIDE DEF list
<1>2. /\ list \in Seq(ItemsOf(Born)) /\ Len(list) \in Nat /\ DOMAIN list = 1 .. Len(list)
      /\ \A i : /\ At(list, i).session \in Born \cup {NoSession}
                /\ At(list, i).project \in NamesOfProjects \cup {""}
  BY <1>1, BornSessions, Named DEF list
<1> QED  BY <1>1, <1>2

\* What the user does leaves the daemon alone.
LEMMA PressDaemon ==
    ASSUME Base, UNCHANGED <<daemon, events>>
    PROVE  Born' = Born /\ DaemonOk(Born)'
  BY DEF Base, DaemonOk, daemon, Born

LEMMA CallsMore ==
    ASSUME Base, NEW X, \A c \in X : CallOk(c, Born), Born' = Born, cmds' = cmds \cup X,
           replies' = replies, focus' = focus
    PROVE  CallsOk(Born)'
<1>1. \A c \in cmds' : CallOk(c, Born)
  BY DEF Base, CallsOk
<1> QED  BY <1>1 DEF Base, CallsOk

LEMMA CallsSame ==
    ASSUME Base, Born' = Born, cmds' = cmds, replies' = replies, focus' = focus
    PROVE  CallsOk(Born)'
  BY DEF Base, CallsOk

LEMMA FocusOk == ASSUME NEW B PROVE \A c \in Focus(MainPane) : CallOk(c, B)
  BY DEF Focus, CallOk

LEMMA PreviewOk ==
    ASSUME NEW B, NEW s \in B
    PROVE  \A c \in Preview(s) : CallOk(c, B)
  BY DEF Preview, CallOk

LEMMA CursorPreviewOk ==
    ASSUME Base, Born' = Born, items' = items
    PROVE  \A c \in CursorPreview : CallOk(c, Born)
<1> DEFINE s == At(items', cursor').session
<1>1. s \in Born \cup {NoSession}
  <2>1. s = At(items, cursor').session
    OBVIOUS
  <2> QED  BY <2>1, NamedNow
<1> HIDE DEF s
<1>2. CursorPreview = IF s # NoSession /\ s # mactive' THEN Preview(s) ELSE {}
  BY DEF CursorPreview, s
<1> QED  BY <1>1, <1>2, PreviewOk

shownBy == <<table, filter, folded, ws>>

\* What a step keeps: the types, and the cursor when the list is made anew.
Holds == Base' /\ (UNCHANGED shownBy \/ Stays)

\* The list is not made anew.
LEMMA SameList ==
    ASSUME Base, Born' = Born, DaemonOk(Born)', CallsOk(Born)', UNCHANGED shownBy, cursor' \in Nat, offset' \in Nat,
           mactive' \in Born \cup {NoSession}, anchored' \in Born \cup {NoSession}
    PROVE  Holds
<1>1. ModelOk(Born)'
  BY DEF Base, ModelOk, shownBy
<1> QED  BY <1>1 DEF Base, Holds

LEMMA SameItems == ASSUME UNCHANGED shownBy PROVE items' = items
  BY DEF items, shownBy

\* It is, by a fold, a filter or a workspace.
LEMMA NewList ==
    ASSUME Base, Born' = Born, DaemonOk(Born)', CallsOk(Born)',
           NEW flt, flt \subseteq Statuses, NEW fld, fld \subseteq NamesOfProjects, NEW w,
           RebuildItems(table, flt, fld, w), offset' = offset, mactive' = mactive, anchored' = anchored
    PROVE  Holds
<1>1. /\ table' = table /\ filter' = flt /\ folded' = fld
      /\ ws' \in ToSet(CollectWorkspaces(table'))
      /\ cursor' \in Nat /\ Stays
  BY Remakes
<1>2. ModelOk(Born)'
  BY <1>1 DEF Base, ModelOk
<1> QED  BY <1>1, <1>2 DEF Base, Holds

LEMMA CursorKeys ==
    ASSUME Base, NEW by, MoveCursor(by) \/ Enter
    PROVE  Holds
<1>1. /\ UNCHANGED <<daemon, events>> /\ replies' = replies /\ focus' = focus /\ UNCHANGED shownBy
      /\ offset' = offset /\ mactive' = mactive
  BY DEF MoveCursor, Enter, Key, Press, shownBy
<1>2. Born' = Born /\ DaemonOk(Born)'
  BY <1>1, PressDaemon
<1>3. items' = items
  BY <1>1, SameItems
<1>4. \A i : At(items, i).session \in Born \cup {NoSession}
  BY NamedNow
<1>5. CASE MoveCursor(by)
  <2>1. CallsOk(Born)'
    <3>1. cmds' = cmds \cup CursorPreview
      BY <1>5 DEF MoveCursor
    <3>2. \A c \in CursorPreview : CallOk(c, Born)
      BY <1>2, <1>3, CursorPreviewOk
    <3> QED  BY <1>1, <1>2, <3>1, <3>2, CallsMore
  <2>2. cursor' \in Nat
    <3>1. cursor' \in {cursor, cursor + 1} \/ (cursor > 1 /\ cursor' = cursor - 1)
      BY <1>5 DEF MoveCursor, Base, ModelOk
    <3> QED  BY <3>1 DEF Base, ModelOk
  <2>3. anchored' \in Born \cup {NoSession}
    <3>1. At(items, cursor').session \in Born \cup {NoSession}
      BY <1>4
    <3>2. anchored' \in {At(items, cursor').session, anchored}
      BY <1>3, <1>5 DEF MoveCursor
    <3> QED  BY <3>1, <3>2 DEF Base, ModelOk
  <2>4. mactive' \in Born \cup {NoSession} /\ offset' \in Nat
    BY <1>1 DEF Base, ModelOk
  <2> QED  BY <1>1, <1>2, <2>1, <2>2, <2>3, <2>4, SameList
<1>6. CASE Enter
  <2>1. cmds' = cmds \cup Focus(MainPane) /\ cursor' = cursor /\ anchored' = CursorSession
    BY <1>6 DEF Enter
  <2>2. CallsOk(Born)'
    BY <1>1, <1>2, <2>1, FocusOk, CallsMore
  <2>3. anchored' \in Born \cup {NoSession}
    BY <1>4, <2>1 DEF CursorSession
  <2>4. cursor' \in Nat /\ mactive' \in Born \cup {NoSession} /\ offset' \in Nat
    BY <1>1, <2>1 DEF Base, ModelOk
  <2> QED  BY <1>1, <1>2, <2>2, <2>3, <2>4, SameList
<1> QED  BY <1>5, <1>6

\* Keys and clicks that send a command and leave the list alone.
LEMMA Sends ==
    ASSUME Base, UNCHANGED <<daemon, events, model>>, replies' = replies, focus' = focus,
           NEW X, cmds' = cmds \cup X, \A c \in X : CallOk(c, Born)
    PROVE  Holds
<1>1. Born' = Born /\ DaemonOk(Born)'
  BY PressDaemon
<1>2. CallsOk(Born)'
  BY <1>1, CallsMore
<1>3. /\ UNCHANGED shownBy /\ cursor' \in Nat /\ offset' \in Nat
      /\ mactive' \in Born \cup {NoSession} /\ anchored' \in Born \cup {NoSession}
  BY DEF Base, ModelOk, model, shownBy
<1> QED  BY <1>1, <1>2, <1>3, SameList

LEMMA SendingKeys ==
    ASSUME Base, NEW quick \in BOOLEAN, New(quick) \/ StopKey \/ ClickTitle
    PROVE  Holds
<1>1. UNCHANGED <<daemon, events, model>> /\ replies' = replies /\ focus' = focus
  BY DEF New, StopKey, ClickTitle, Key, Press
<1>2. CASE New(quick)
  <2> DEFINE args == [a \in {"project"} |-> At(items, cursor).project]
             given == IF quick THEN With(args, "command", DefaultCommand) ELSE args
             c == [op |-> "tool", tool |-> "new-session", args |-> given, n |-> keys']
  <2>1. cmds' = cmds \cup {c}
    BY <1>2 DEF New, LaunchTool
  <2>2. "worktree" \notin DOMAIN given
    BY DEF With
  <2> HIDE DEF given
  <2>3. CallOk(c, Born)
    BY <2>2 DEF CallOk, Launched
  <2> HIDE DEF c
  <2> DEFINE X == {c}
  <2>4. \A x \in X : CallOk(x, Born)
    BY <2>3
  <2>5. cmds' = cmds \cup X
    BY <2>1
  <2> HIDE DEF X
  <2> QED  BY <1>1, <2>4, <2>5, Sends
<1>3. CASE StopKey
  <2> DEFINE given == [a \in {"session_id"} |-> CursorSession]
             c == [op |-> "tool", tool |-> "stop-session", args |-> given, n |-> keys']
  <2>1. cmds' = cmds \cup {c}
    BY <1>3 DEF StopKey, LaunchTool
  <2>2. "worktree" \notin DOMAIN given
    OBVIOUS
  <2> HIDE DEF given
  <2>3. CallOk(c, Born)
    BY <2>2 DEF CallOk, Launched
  <2> HIDE DEF c
  <2> DEFINE X == {c}
  <2>4. \A x \in X : CallOk(x, Born)
    BY <2>3
  <2>5. cmds' = cmds \cup X
    BY <2>1
  <2> HIDE DEF X
  <2> QED  BY <1>1, <2>4, <2>5, Sends
<1>4. CASE ClickTitle
  <2> DEFINE X == IF mactive # NoSession THEN {[op |-> "deactivate"]} ELSE Focus(MainPane)
  <2>1. cmds' = cmds \cup X
    BY <1>4 DEF ClickTitle
  <2>2. \A c \in X : CallOk(c, Born)
    BY FocusOk DEF CallOk
  <2> HIDE DEF X
  <2> QED  BY <1>1, <2>1, <2>2, Sends
<1> QED  BY <1>2, <1>3, <1>4

\* Keys and clicks that make the list anew and send nothing.
LEMMA Remaking ==
    ASSUME Base, UNCHANGED <<daemon, events, mactive, anchored, offset, cmds>>, replies' = replies, focus' = focus,
           NEW flt, flt \subseteq Statuses, NEW fld, fld \subseteq NamesOfProjects, NEW w,
           RebuildItems(table, flt, fld, w)
    PROVE  Holds
<1>1. Born' = Born /\ DaemonOk(Born)'
  BY PressDaemon
<1>2. CallsOk(Born)'
  BY <1>1, CallsSame
<1> QED  BY <1>1, <1>2, NewList

LEMMA FiltersOk ==
    ASSUME Base
    PROVE  ToggledAll \subseteq Statuses /\ \A st \in Statuses : ToggledFilter(st) \subseteq Statuses
<1>1. filter \subseteq Statuses
  BY DEF Base, ModelOk
<1> QED  BY <1>1 DEF ToggledAll, ToggledFilter

LEMMA FoldsOk ==
    ASSUME Base, NEW p \in NamesOfProjects
    PROVE  FlipFold(p) \subseteq NamesOfProjects
  BY DEF Base, ModelOk, FlipFold

LEMMA RemakingKeys ==
    ASSUME Base, NEW by, NEW w0,
           \/ Toggle \/ Filter(ToggledAll) \/ WorkspaceKey(by) \/ ClickWorkspace(w0)
           \/ \E st \in Statuses : Filter(ToggledFilter(st))
    PROVE  Holds
<1>1. filter \subseteq Statuses /\ folded \subseteq NamesOfProjects
  BY DEF Base, ModelOk
<1>2. UNCHANGED <<daemon, events, mactive, anchored, offset, cmds>> /\ replies' = replies /\ focus' = focus
  BY DEF Toggle, Filter, WorkspaceKey, ClickWorkspace, Key, Press
<1>3. CASE Toggle
  <2> DEFINE p == At(items, cursor).project
  <2>1. p \in NamesOfProjects
    <3>1. p # ""
      BY <1>3 DEF Toggle
    <3>2. p \in NamesOfProjects \cup {""}
      BY NamedNow
    <3> QED  BY <3>1, <3>2
  <2>2. RebuildItems(table, filter, FlipFold(p), ws)
    BY <1>3 DEF Toggle
  <2> HIDE DEF p
  <2>3. FlipFold(p) \subseteq NamesOfProjects
    BY <2>1, FoldsOk
  <2> QED  BY <1>1, <1>2, <2>2, <2>3, Remaking
<1>4. ASSUME NEW flt, flt \subseteq Statuses, Filter(flt)
      PROVE  Holds
  <2>1. RebuildItems(table, flt, folded, ws)
    BY <1>4 DEF Filter
  <2> QED  BY <1>1, <1>2, <1>4, <2>1, Remaking
<1>5. CASE WorkspaceKey(by)
  <2>1. RebuildItems(table, filter, folded, Cycled(by))
    BY <1>5 DEF WorkspaceKey
  <2> QED  BY <1>1, <1>2, <2>1, Remaking
<1>6. CASE ClickWorkspace(w0)
  <2>1. RebuildItems(table, filter, folded, w0)
    BY <1>6 DEF ClickWorkspace
  <2> QED  BY <1>1, <1>2, <2>1, Remaking
<1> QED  BY <1>3, <1>4, <1>5, <1>6, FiltersOk

LEMMA MaxOffsetNat == ASSUME NEW E, NEW q \in Seq(E) PROVE MaxOffset(q) \in Nat
<1> DEFINE tight == {off \in 1 .. Len(q) - 1 :
                        ~ (RowsOf(SubSeq(q, off + 1, Len(q)))
                             <= BodyRows - (IF StickyProject(q, off) # "" THEN 2 ELSE 1))}
           top == CHOOSE off \in tight : \A o \in tight : o <= off
<1>1. MaxOffset(q) = IF tight = {} THEN 0 ELSE top + 1
  BY DEF MaxOffset
<1>2. tight \subseteq 1 .. Len(q) - 1 /\ Len(q) \in Nat
  BY LenProperties
<1> HIDE DEF tight
<1>3. CASE tight # {}
  <2> DEFINE T == {n \in Nat : \A i \in tight : i <= n}
  <2>1. Len(q) \in T
    BY <1>2
  <2>2. PICK m \in T : \A n \in T : ~ (n < m)
    <3> HIDE DEF T
    <3>1. T \subseteq Nat
      BY DEF T
    <3> QED  BY <2>1, <3>1, Least
  <2>3. m \in tight
    <3> SUFFICES ASSUME m \notin tight PROVE FALSE
      OBVIOUS
    <3>1. m \in Nat /\ \A i \in tight : i <= m /\ i \in Nat /\ i >= 1 /\ i # m
      BY <1>2, <2>2
    <3>2. m >= 1
      BY <1>3, <3>1
    <3>3. m - 1 \in Nat /\ \A i \in tight : i <= m - 1
      BY <3>1, <3>2
    <3>4. m - 1 \in T /\ m - 1 < m
      BY <3>1, <3>3
    <3> QED  BY <2>2, <3>4
  <2>4. \A i \in tight : i <= m
    BY <2>2
  <2>5. top \in tight
    BY <2>3, <2>4
  <2> HIDE DEF top
  <2>6. top \in Nat
    BY <1>2, <2>5
  <2> QED  BY <1>1, <1>3, <2>6
<1> QED  BY <1>1, <1>3

LEMMA MouseHolds ==
    ASSUME Base, NEW i \in Nat, NEW edge \in BOOLEAN, NEW down \in BOOLEAN, MouseMotion(i, edge) \/ Wheel(down)
    PROVE  Holds
<1>1. /\ UNCHANGED <<daemon, events>> /\ replies' = replies /\ focus' = focus /\ UNCHANGED shownBy
      /\ anchored' = anchored /\ mactive' = mactive
  BY DEF MouseMotion, Wheel, Press, shownBy
<1>2. Born' = Born /\ DaemonOk(Born)'
  BY <1>1, PressDaemon
<1>3. items' = items
  BY <1>1, SameItems
<1>4. CallsOk(Born)'
  <2>1. \A c \in CursorPreview : CallOk(c, Born)
    BY <1>2, <1>3, CursorPreviewOk
  <2>2. cmds' = cmds \cup {} \/ cmds' = cmds \cup CursorPreview
    BY DEF MouseMotion, Wheel
  <2>3. CASE cmds' = cmds \cup CursorPreview
    BY <1>1, <1>2, <2>1, <2>3, CallsMore
  <2>4. CASE cmds' = cmds \cup {}
    BY <1>1, <1>2, <2>4, CallsSame
  <2> QED  BY <2>2, <2>3, <2>4
<1>5. cursor \in Nat /\ offset \in Nat /\ mactive \in Born \cup {NoSession} /\ anchored \in Born \cup {NoSession}
  BY DEF Base, ModelOk
<1>6. cursor' \in Nat /\ offset' \in Nat
  <2>1. CASE MouseMotion(i, edge)
    BY <1>5, <2>1 DEF MouseMotion
  <2>2. CASE Wheel(down)
    <3> DEFINE M == MaxOffset(items)
    <3>1. M \in Nat
      BY NamedNow, MaxOffsetNat
    <3>2. offset' = IF down THEN (IF offset + ScrollStep > M THEN M ELSE offset + ScrollStep)
                    ELSE IF offset > ScrollStep THEN offset - ScrollStep ELSE 0
      BY <2>2 DEF Wheel
    <3>3. cursor' = IF cursor < offset' + 1 THEN offset' + 1 ELSE cursor
      BY <2>2 DEF Wheel
    <3> HIDE DEF M
    <3>4. offset' \in Nat
      BY <1>5, <3>1, <3>2 DEF ScrollStep
    <3>5. \A n \in Nat : n + 1 \in Nat
      OBVIOUS
    <3>6. offset' + 1 \in Nat
      BY <3>4, <3>5, Zenon
    <3>7. cursor' = offset' + 1 \/ cursor' = cursor
      BY <3>3, Zenon
    <3> QED  BY <1>5, <3>4, <3>6, <3>7, Zenon
  <2> QED  BY <2>1, <2>2
<1> QED  BY <1>1, <1>2, <1>4, <1>5, <1>6, SameList

LEMMA ClickHolds ==
    ASSUME Base, NEW i \in DOMAIN items, ClickItem(i)
    PROVE  Holds
<1>1. /\ UNCHANGED <<daemon, events>> /\ replies' = replies /\ focus' = focus
      /\ offset' = offset /\ mactive' = mactive
  BY DEF ClickItem, Press
<1>2. Born' = Born /\ DaemonOk(Born)'
  BY <1>1, PressDaemon
<1>3. items[i] = At(items, i)
  BY DEF At
<1>4. CASE IsHeader(items[i])
  <2> DEFINE p == items[i].project
  <2>1. p \in NamesOfProjects
    <3>1. p # ""
      BY <1>4 DEF IsHeader
    <3>2. At(items, i).project \in NamesOfProjects \cup {""}
      BY NamedNow
    <3> QED  BY <1>3, <3>1, <3>2
  <2>2. RebuildItems(table, filter, FlipFold(p), ws) /\ anchored' = anchored /\ cmds' = cmds
    BY <1>4 DEF ClickItem
  <2> HIDE DEF p
  <2>3. FlipFold(p) \subseteq NamesOfProjects
    BY <2>1, FoldsOk
  <2>4. filter \subseteq Statuses
    BY DEF Base, ModelOk
  <2> QED  BY <1>1, <2>2, <2>3, <2>4, Remaking
<1>5. CASE ~ IsHeader(items[i])
  <2>1. /\ cursor' = i /\ anchored' = items[i].session /\ cmds' = cmds \cup Focus(MainPane)
        /\ UNCHANGED shownBy
    BY <1>5 DEF ClickItem, shownBy
  <2>2. CallsOk(Born)'
    BY <1>1, <1>2, <2>1, FocusOk, CallsMore
  <2>3. i \in Nat /\ At(items, i).session \in Born \cup {NoSession}
    <3>1. DOMAIN items = 1 .. Len(items) /\ Len(items) \in Nat
      BY NamedNow
    <3>2. i \in Nat
      BY <3>1
    <3> QED  BY <3>2, NamedNow
  <2>4. anchored' \in Born \cup {NoSession} /\ cursor' \in Nat
    BY <1>3, <2>1, <2>3
  <2>5. offset' \in Nat /\ mactive' \in Born \cup {NoSession}
    BY <1>1 DEF Base, ModelOk
  <2> QED  BY <1>2, <2>1, <2>2, <2>4, <2>5, SameList
<1> QED  BY <1>4, <1>5

\* A sidebar that starts again has an empty list.
LEMMA FreshHolds ==
    ASSUME Base, Fresh, UNCHANGED <<daemon, focus>>
    PROVE  Holds
<1> DEFINE told == [order |-> order, status |-> status, active |-> active, preview |-> FALSE]
<1>1. Born' = Born
  BY DEF daemon, Born
<1>2. DaemonOk(Born)'
  <2>1. told \in EventsOf(Born) /\ events' = <<told>>
    BY DEF Base, DaemonOk, EventsOf, Fresh
  <2>2. events' \in Seq(EventsOf(Born))
    <3> HIDE DEF told
    <3> QED  BY <2>1
  <2> QED  BY <1>1, <2>2 DEF Base, DaemonOk, daemon
<1>3. table' \in TablesOf({}) /\ table' \in TablesOf(Born)
  <2>1. [x \in Sessions |-> "new"] \in [Sessions -> AllStatuses] /\ <<>> \in Seq({}) /\ <<>> \in Seq(Born)
    BY EmptySeq DEF AllStatuses
  <2> QED  BY <2>1 DEF TablesOf, Fresh
<1>4. ModelOk(Born)'
  <2>1. /\ mactive' = NoSession /\ anchored' = NoSession /\ cursor' = 0 /\ offset' = 0
        /\ filter' = Statuses /\ folded' = {} /\ ws' = Default
    BY DEF Fresh
  <2>2. ws' \in ToSet(CollectWorkspaces(table'))
    BY <2>1, WorkspacesAre
  <2>3. /\ mactive' \in Born' \cup {NoSession} /\ anchored' \in Born' \cup {NoSession}
        /\ cursor' \in Nat /\ offset' \in Nat /\ filter' \subseteq Statuses /\ folded' \subseteq NamesOfProjects
    BY <2>1
  <2>4. table' \in TablesOf(Born')
    BY <1>1, <1>3
  <2> QED  BY <2>2, <2>3, <2>4 DEF ModelOk
<1>5. CallsOk(Born)'
  BY DEF CallsOk, Fresh, Base
<1>6. Stays
  <2>1. items' = Items(table', filter', folded', ws')
    BY DEF items
  <2>2. items' \in Seq(ItemsOf({}))
    <3>1. {} \subseteq Sessions
      OBVIOUS
    <3> QED  BY <1>3, <2>1, <3>1, ItemsAre
  <2>3. Len(items') \in Nat /\ cursor' = 0
    BY <2>2, LenProperties DEF Fresh
  <2>4. CursorOf(items', CursorSession) = 0
    <3> SUFFICES ASSUME CursorOf(items', CursorSession) # 0 PROVE FALSE
      OBVIOUS
    <3>1. /\ CursorSession # NoSession
          /\ At(items', CursorOf(items', CursorSession)).session = CursorSession
      BY <2>2, CursorOfIs
    <3>2. {} \subseteq Sessions
      OBVIOUS
    <3>3. \A i : At(items', i).session \in {} \cup {NoSession}
      BY <1>3, <2>1, <3>2, Named
    <3> QED  BY <3>1, <3>3
  <2> QED  BY <2>3, <2>4 DEF Stays
<1> QED  BY <1>1, <1>2, <1>4, <1>5, <1>6 DEF Holds, Base

-----------------------------------------------------------------------------
(* Steps of the daemon and of the popups *)

\* The list and the cursor are left alone.
LEMMA SameModel ==
    ASSUME Base, UNCHANGED model, Born \subseteq Born', DaemonOk(Born)', CallsOk(Born)'
    PROVE  Holds
<1>1. ModelOk(Born')
  BY ModelGrows DEF Base
<1>2. ModelOk(Born)'
  BY <1>1 DEF ModelOk, model
<1>3. UNCHANGED shownBy
  BY DEF model, shownBy
<1> QED  BY <1>2, <1>3 DEF Holds, Base

LEMMA NothingTold ==
    ASSUME Base, UNCHANGED model, UNCHANGED <<order, status, events>>, active' \in Born \cup {NoSession},
           \A c \in cmds' : c \in cmds, \A r \in replies' : r \in replies, focus' \in LayoutPanes
    PROVE  Holds
<1>1. Born' = Born
  BY DEF Born
<1>2. DaemonOk(Born)'
  BY <1>1 DEF Base, DaemonOk
<1>3. CallsOk(Born)'
  BY <1>1 DEF Base, CallsOk
<1> QED  BY <1>1, <1>2, <1>3, SameModel

\* A table that is broadcast goes to the end of those on their way.
LEMMA Told ==
    ASSUME NEW B, NEW b \in BOOLEAN, Broadcast(b), status' \in [Sessions -> AllStatuses], order' \in Seq(B),
           active' \in B \cup {NoSession}, events \in Seq(EventsOf(B))
    PROVE  events' \in Seq(EventsOf(B))
<1> DEFINE e == Table(b)
<1>1. e \in EventsOf(B)
  BY DEF Table, EventsOf
<1>2. events' = Append(events, e)
  BY DEF Broadcast
<1> HIDE DEF e
<1> QED  BY <1>1, <1>2

LEMMA CommandsHold ==
    ASSUME Base, NEW c \in cmds,
           PreviewSession(c) \/ FocusPane(c) \/ PreviewProject(c) \/ DisplayPopup(c)
    PROVE  Holds
<1>1. UNCHANGED model /\ UNCHANGED <<order, status>> /\ \A x \in cmds' : x \in cmds
  BY DEF PreviewSession, FocusPane, PreviewProject, DisplayPopup, Take, daemon
<1>2. Born' = Born
  BY <1>1 DEF Born
<1>3. CallOk(c, Born)
  BY DEF Base, CallsOk
<1>4. CASE PreviewSession(c)
  <2>1. c.session \in Born
    BY <1>3, <1>4 DEF PreviewSession, CallOk
  <2>2. DaemonOk(Born)'
    <3>1. CASE c.session \in ToSet(order)
      <4>1. active' = c.session /\ Broadcast(TRUE)
        BY <1>4, <3>1 DEF PreviewSession
      <4>2. /\ status' \in [Sessions -> AllStatuses] /\ order' \in Seq(Born) /\ active' \in Born \cup {NoSession}
            /\ events \in Seq(EventsOf(Born))
        BY <1>1, <2>1, <4>1 DEF Base, DaemonOk
      <4>3. events' \in Seq(EventsOf(Born))
        BY <4>1, <4>2, Told
      <4> QED  BY <1>2, <4>2, <4>3 DEF DaemonOk
    <3>2. CASE c.session \notin ToSet(order)
      <4>1. UNCHANGED <<daemon, events>>
        BY <1>4, <3>2 DEF PreviewSession
      <4> QED  BY <4>1, PressDaemon
    <3> QED  BY <3>1, <3>2
  <2>3. CallsOk(Born)'
    <3> DEFINE r0 == [op |-> "preview", n |-> c.n,
                      session |-> IF c.session \in ToSet(order) THEN c.session ELSE NoSession]
    <3>1. replies' = replies \cup {r0} /\ focus' = focus
      BY <1>4 DEF PreviewSession
    <3>2. r0.session \in Born \cup {NoSession}
      BY <2>1
    <3> HIDE DEF r0
    <3> QED  BY <1>1, <1>2, <3>1, <3>2 DEF Base, CallsOk
  <2> QED  BY <1>1, <1>2, <2>2, <2>3, SameModel
<1>5. CASE FocusPane(c)
  <2>1. c.pane = MainPane
    BY <1>3, <1>5 DEF FocusPane, CallOk
  <2>2. focus' \in LayoutPanes /\ UNCHANGED <<events, active, replies>>
    BY <1>5, <2>1 DEF FocusPane, LayoutPanes, MainPane, daemon
  <2>3. active' \in Born \cup {NoSession}
    BY <2>2 DEF Base, DaemonOk
  <2> QED  BY <1>1, <2>2, <2>3, NothingTold
<1>6. CASE PreviewProject(c)
  <2>1. active' = NoSession /\ UNCHANGED <<events, focus>> /\ replies' = replies \cup {[op |-> "deactivate"]}
    BY <1>6 DEF PreviewProject
  <2>2. DaemonOk(Born)'
    BY <1>1, <1>2, <2>1 DEF Base, DaemonOk
  <2>3. CallsOk(Born)'
    BY <1>1, <1>2, <2>1 DEF Base, CallsOk
  <2> QED  BY <1>1, <1>2, <2>2, <2>3, SameModel
<1>7. CASE DisplayPopup(c)
  <2>1. UNCHANGED <<events, active, replies, focus>>
    BY <1>7 DEF DisplayPopup, daemon
  <2>2. active' \in Born \cup {NoSession} /\ focus' \in LayoutPanes
    BY <2>1 DEF Base, DaemonOk, CallsOk
  <2> QED  BY <1>1, <2>1, <2>2, NothingTold
<1> QED  BY <1>4, <1>5, <1>6, <1>7

\* Popups, and what the daemon has nothing to do with here.
LEMMA PopupsHold ==
    ASSUME Base, NEW c, PrefixKey \/ KeyInPopup \/ PopupStarts \/ OtherCommand(c)
    PROVE  Holds
<1>1. UNCHANGED model /\ UNCHANGED <<order, status, events>> /\ UNCHANGED <<cmds, replies>>
  BY DEF PrefixKey, KeyInPopup, PopupStarts, OtherCommand, daemon
<1>2. active' \in {active, NoSession} /\ focus' \in {focus, MainPane, SidebarPane}
  BY DEF PrefixKey, KeyInPopup, PopupStarts, OtherCommand, daemon
<1>3. active \in Born \cup {NoSession} /\ focus \in LayoutPanes
  BY DEF Base, DaemonOk, CallsOk
<1>4. active' \in Born \cup {NoSession} /\ focus' \in LayoutPanes
  BY <1>2, <1>3 DEF LayoutPanes, MainPane, SidebarPane
<1> QED  BY <1>1, <1>4, NothingTold

LEMMA OrderBorn == ASSUME Base, NEW s \in ToSet(order) PROVE s \in Born /\ s \in Sessions /\ status[s] # "new"
<1>1. \A i \in DOMAIN order : order[i] \in Born
  BY ElementOfSeq, LenProperties DEF Base, DaemonOk
<1> QED  BY <1>1 DEF ToSet, Born

\* A session is made, ends, or changes its status.
LEMMA SessionsHold ==
    ASSUME Base, UNCHANGED model, UNCHANGED <<cmds, replies>>, focus' \in LayoutPanes,
           NEW s \in Sessions, NEW st \in AllStatuses, st # "new", status' = [status EXCEPT ![s] = st],
           order' = Append(order, s) \/ (s \in ToSet(order) /\ (order' = order \/ order' = Kept(order, Sessions \ {s}))),
           active' \in {active, NoSession, s}, Broadcast(FALSE)
    PROVE  Holds /\ Born' = Born \cup {s}
<1>1. status \in [Sessions -> AllStatuses] /\ order \in Seq(Born) /\ active \in Born \cup {NoSession}
      /\ events \in Seq(EventsOf(Born))
  BY DEF Base, DaemonOk
<1>2. status' \in [Sessions -> AllStatuses]
  BY <1>1
<1>3. Born' = Born \cup {s}
  <2>1. \A x \in Sessions : status'[x] = IF x = s THEN st ELSE status[x]
    BY <1>1
  <2> QED  BY <2>1 DEF Born
<1> DEFINE B == Born'
<1>4. Born \subseteq B /\ s \in B
  BY <1>3
<1> HIDE DEF B
<1>5. order \in Seq(B) /\ events \in Seq(EventsOf(B))
  BY <1>1, <1>4, MoreTables
<1>6. order' \in Seq(B)
  <2>1. Append(order, s) \in Seq(B)
    BY <1>4, <1>5
  <2>2. Kept(order, Sessions \ {s}) \in Seq(B)
    BY <1>5, KeptIs
  <2> QED  BY <1>5, <2>1, <2>2
<1>7. active' \in B \cup {NoSession}
  BY <1>1, <1>4
<1>8. events' \in Seq(EventsOf(B))
  BY <1>2, <1>5, <1>6, <1>7, Told
<1>9. DaemonOk(Born)'
  BY <1>2, <1>6, <1>7, <1>8 DEF DaemonOk, B
<1>10. CallsOk(B)
  BY <1>4, CallsGrow DEF Base
<1>11. CallsOk(Born)'
  BY <1>10 DEF CallsOk, B
<1>12. Born \subseteq Born'
  BY <1>3
<1> QED  BY <1>3, <1>9, <1>11, <1>12, SameModel

LEMMA LifeHolds ==
    ASSUME Base, NEW s \in Sessions, NEW c, CreateSession(c, s) \/ StopSession(c) \/ SessionChanges(s)
    PROVE  Holds
<1>1. UNCHANGED model /\ UNCHANGED <<cmds, replies>> /\ focus' \in LayoutPanes
  <2>1. UNCHANGED model /\ UNCHANGED <<cmds, replies>> /\ focus' \in {focus, MainPane}
    BY DEF CreateSession, StopSession, SessionChanges
  <2>2. {focus, MainPane} \subseteq LayoutPanes
    BY DEF Base, CallsOk, MainPane, LayoutPanes
  <2> QED  BY <2>1, <2>2
<1>2. \A st \in Statuses : st \in AllStatuses /\ st # "new"
  BY SidebarAssumption DEF AllStatuses
<1>3. "gone" \in AllStatuses /\ "gone" # "new"
  BY DEF AllStatuses
<1>4. CASE CreateSession(c, s)
  <2>1. PICK st \in Statuses : status' = [status EXCEPT ![s] = st]
    BY <1>4 DEF CreateSession
  <2>2. order' = Append(order, s) /\ active' = s /\ Broadcast(FALSE)
    BY <1>4 DEF CreateSession
  <2> QED  BY <1>1, <1>2, <2>1, <2>2, SessionsHold
<1>5. ASSUME NEW x \in ToSet(order), Removed(x)
      PROVE  Holds
  <2>1. x \in Sessions
    BY OrderBorn
  <2>2. /\ status' = [status EXCEPT ![x] = "gone"] /\ order' = Kept(order, Sessions \ {x})
        /\ active' \in {active, NoSession, x} /\ Broadcast(FALSE)
    BY <1>5 DEF Removed
  <2> QED  BY <1>1, <1>3, <1>5, <2>1, <2>2, SessionsHold
<1>6. CASE StopSession(c)
  BY <1>5, <1>6 DEF StopSession
<1>7. CASE SessionChanges(s) /\ Removed(s)
  BY <1>5, <1>7 DEF SessionChanges
<1>8. CASE SessionChanges(s) /\ ~ Removed(s)
  <2>1. PICK st \in Statuses : status' = [status EXCEPT ![s] = st]
    BY <1>8 DEF SessionChanges
  <2>2. s \in ToSet(order) /\ order' = order /\ active' \in {active, NoSession, s} /\ Broadcast(FALSE)
    BY <1>8 DEF SessionChanges
  <2> QED  BY <1>1, <1>2, <2>1, <2>2, SessionsHold
<1> QED  BY <1>4, <1>6, <1>7, <1>8

-----------------------------------------------------------------------------
(* What comes back *)

LEMMA AnswersHold ==
    ASSUME Base, NEW r \in replies, PreviewDone(r) \/ DeactivateDone(r)
    PROVE  Holds
<1>1. /\ UNCHANGED <<daemon, events>> /\ UNCHANGED shownBy /\ focus' = focus /\ cursor' = cursor /\ offset' = offset
      /\ replies' = replies \ {r}
  BY DEF PreviewDone, DeactivateDone, shownBy
<1>2. Born' = Born /\ DaemonOk(Born)'
  BY <1>1, PressDaemon
<1>3. cmds' = cmds \/ cmds' = cmds \cup Focus(MainPane)
  BY DEF PreviewDone, DeactivateDone
<1>4. CallsOk(Born)'
  <2>1. \A c \in cmds' : CallOk(c, Born)
    BY <1>3, FocusOk DEF Base, CallsOk
  <2>2. \A x \in replies' : x.op = "preview" => x.session \in Born \cup {NoSession}
    BY <1>1 DEF Base, CallsOk
  <2> QED  BY <1>1, <1>2, <2>1, <2>2 DEF Base, CallsOk
<1>5. mactive' \in Born \cup {NoSession} /\ anchored' \in Born \cup {NoSession}
  <2>1. /\ mactive \in Born \cup {NoSession} /\ anchored \in Born \cup {NoSession}
        /\ r.op = "preview" => r.session \in Born \cup {NoSession}
    BY DEF Base, ModelOk, CallsOk
  <2>2. CASE PreviewDone(r)
    BY <2>1, <2>2 DEF PreviewDone
  <2>3. CASE DeactivateDone(r)
    BY <2>3 DEF DeactivateDone
  <2> QED  BY <2>2, <2>3
<1>6. cursor' \in Nat /\ offset' \in Nat
  BY <1>1 DEF Base, ModelOk
<1> QED  BY <1>1, <1>2, <1>4, <1>5, <1>6, SameList

LEMMA LeaveHolds ==
    ASSUME Base, MouseLeave
    PROVE  Holds
<1>1. /\ UNCHANGED <<daemon, events>> /\ UNCHANGED shownBy /\ focus' = focus /\ mactive' = mactive
      /\ offset' = offset /\ replies' = replies
  BY DEF MouseLeave, shownBy
<1>2. Born' = Born /\ DaemonOk(Born)'
  BY <1>1, PressDaemon
<1>3. anchored \in Born \cup {NoSession} /\ mactive \in Born \cup {NoSession} /\ cursor \in Nat /\ offset \in Nat
  BY DEF Base, ModelOk
<1>4. CursorOf(items, anchored) \in Nat
  <2>1. CursorOf(items, anchored) \in 0 .. Len(items)
    BY NamedNow, CursorOfIs
  <2>2. Len(items) \in Nat
    BY NamedNow
  <2> QED  BY <2>1, <2>2
<1>5. cmds' = cmds \/ (anchored # NoSession /\ cmds' = cmds \cup Preview(anchored))
  BY DEF MouseLeave
<1>6. CallsOk(Born)'
  <2>1. CASE cmds' = cmds
    BY <1>1, <1>2, <2>1, CallsSame
  <2>2. CASE anchored # NoSession /\ cmds' = cmds \cup Preview(anchored)
    <3>1. anchored \in Born
      BY <1>3, <2>2
    <3>2. \A c \in Preview(anchored) : CallOk(c, Born)
      BY <3>1, PreviewOk
    <3> QED  BY <1>1, <1>2, <2>2, <3>2, CallsMore
  <2> QED  BY <1>5, <2>1, <2>2
<1>7. cursor' \in {cursor, CursorOf(items, anchored)} /\ anchored' \in {anchored, NoSession}
  BY DEF MouseLeave
<1>8. /\ cursor' \in Nat /\ offset' \in Nat
      /\ mactive' \in Born \cup {NoSession} /\ anchored' \in Born \cup {NoSession}
  BY <1>1, <1>3, <1>4, <1>7
<1> QED  BY <1>1, <1>2, <1>6, <1>8, SameList

\* The table handed over, and what handleServerEvent makes of it.
Newest(n) == events[n]
NewTable(n) == [order |-> Newest(n).order, status |-> Newest(n).status]
NewWs(n) == IF FollowedWorkspace(Newest(n)) \in ToSet(CollectWorkspaces(NewTable(n))) THEN FollowedWorkspace(Newest(n))
         ELSE Default
NewItems(n) == Items(NewTable(n), filter, folded, NewWs(n))
KnownActive(n) == IF Newest(n).active = NoSession \/ CursorOf(NewItems(n), mactive) = 0 THEN NoSession ELSE mactive
KnownAnchor(n) == IF CursorOf(NewItems(n), anchored) = 0 THEN NoSession ELSE anchored
IsNew(n) == Newest(n).active # NoSession /\ Newest(n).active # KnownActive(n)

LEMMA Handled ==
    ASSUME NEW n, HandleServerEvent(n)
    PROVE  /\ n \in DOMAIN events /\ events' = RemoveAt(events, n)
           /\ table' = NewTable(n) /\ ws' = NewWs(n) /\ filter' = filter /\ folded' = folded /\ items' = NewItems(n)
           /\ cursor' = IF IsNew(n) /\ CursorOf(NewItems(n), Newest(n).active) # 0 THEN CursorOf(NewItems(n), Newest(n).active)
                        ELSE IF Newest(n).active = NoSession /\ KnownActive(n) = NoSession THEN 0
                        ELSE RestoreCursor(At(items, cursor), NewItems(n))
           /\ mactive' = IF IsNew(n) THEN Newest(n).active ELSE KnownActive(n)
           /\ anchored' = IF IsNew(n) THEN Newest(n).active
                          ELSE IF Newest(n).active = NoSession /\ KnownActive(n) = NoSession THEN NoSession ELSE KnownAnchor(n)
           /\ cmds' = IF IsNew(n) /\ ~Newest(n).preview THEN cmds \cup Focus(MainPane) ELSE cmds
           /\ UNCHANGED <<popup, asked, order, status, active, focus, replies, offset>>
           /\ made' = IF GoesBack(Newest(n)) THEN NoSession ELSE made
<1>1. /\ n \in DOMAIN events /\ events' = RemoveAt(events, n)
      /\ UNCHANGED <<popup, asked, order, status, active, focus, replies, offset, filter, folded>>
      /\ made' = IF GoesBack(Newest(n)) THEN NoSession ELSE made
  BY DEF HandleServerEvent, daemon, Newest
<1>2. table' = NewTable(n) /\ ws' = NewWs(n)
  BY DEF HandleServerEvent, NewTable, NewWs, Newest
<1>3. items' = NewItems(n)
  BY <1>1, <1>2 DEF items, NewItems
<1>4. cursor' = IF IsNew(n) /\ CursorOf(NewItems(n), Newest(n).active) # 0 THEN CursorOf(NewItems(n), Newest(n).active)
                ELSE IF Newest(n).active = NoSession /\ KnownActive(n) = NoSession THEN 0
                ELSE RestoreCursor(At(items, cursor), NewItems(n))
  BY DEF HandleServerEvent, NewTable, NewWs, Newest, NewItems, KnownActive, IsNew
<1>5. ApplyActive(Newest(n), NewItems(n), KnownActive(n), KnownAnchor(n))
  BY DEF HandleServerEvent, NewTable, NewWs, Newest, NewItems, KnownActive, KnownAnchor
<1> QED  BY <1>1, <1>2, <1>3, <1>4, <1>5 DEF ApplyActive, IsNew

\* The table is one the daemon told, of sessions there have been.
LEMMA NewestIs ==
    ASSUME Base, NEW n \in DOMAIN events
    PROVE  /\ Newest(n) \in EventsOf(Born) /\ RemoveAt(events, n) \in Seq(EventsOf(Born))
           /\ ToSet(RemoveAt(events, n)) \subseteq ToSet(events)
           /\ ToSet(events) \subseteq ToSet(RemoveAt(events, n)) \cup {Newest(n)}
           /\ NewTable(n) \in TablesOf(Born) /\ NewItems(n) \in Seq(ItemsOf(Born))
           /\ NewWs(n) \in ToSet(CollectWorkspaces(NewTable(n)))
<1>1. events \in Seq(EventsOf(Born))
  BY DEF Base, DaemonOk
<1>2. /\ events[n] \in EventsOf(Born) /\ RemoveAt(events, n) \in Seq(EventsOf(Born))
      /\ ToSet(RemoveAt(events, n)) \subseteq ToSet(events)
      /\ ToSet(events) \subseteq ToSet(RemoveAt(events, n)) \cup {events[n]}
  <2> DEFINE E == EventsOf(Born)
  <2>1. events \in Seq(E) /\ n \in 1 .. Len(events)
    BY <1>1, LenProperties
  <2> HIDE DEF E
  <2>2. events[n] \in E
    BY <2>1, ElementOfSeq
  <2>3. RemoveAt(events, n) \in Seq(E)
    BY <2>1, RemoveAtSet
  <2>4. /\ ToSet(RemoveAt(events, n)) \subseteq ToSet(events)
        /\ ToSet(events) \subseteq ToSet(RemoveAt(events, n)) \cup {events[n]}
    BY <2>1, RemoveAtSet
  <2> QED  BY <2>2, <2>3, <2>4 DEF E
<1>3. NewTable(n) \in TablesOf(Born)
  BY <1>2 DEF NewTable, Newest, EventsOf, TablesOf
<1>4. NewItems(n) \in Seq(ItemsOf(Born))
  BY <1>3, ItemsAre, BornSessions DEF NewItems
<1>5. NewWs(n) \in ToSet(CollectWorkspaces(NewTable(n)))
  BY WorkspacesAre DEF NewWs
<1> QED  BY <1>2, <1>3, <1>4, <1>5 DEF Newest

\* The active session was known, and is listed.
KnownNow(n) == CursorOf(items', mactive) # 0 /\ Newest(n).active = mactive

LEMMA EventHolds ==
    ASSUME Base, NEW n, HandleServerEvent(n)
    PROVE  Base' /\ cursor' \in 0 .. Len(items') /\ (KnownNow(n) => Stays)
<1>1. /\ n \in DOMAIN events /\ events' = RemoveAt(events, n)
      /\ table' = NewTable(n) /\ ws' = NewWs(n) /\ filter' = filter /\ folded' = folded /\ items' = NewItems(n)
      /\ UNCHANGED <<order, status, active, focus, replies, offset>>
  BY Handled
<1>2. Born' = Born
  BY <1>1 DEF Born
<1>3. /\ Newest(n) \in EventsOf(Born) /\ RemoveAt(events, n) \in Seq(EventsOf(Born))
      /\ NewTable(n) \in TablesOf(Born) /\ NewItems(n) \in Seq(ItemsOf(Born))
      /\ NewWs(n) \in ToSet(CollectWorkspaces(NewTable(n)))
  BY <1>1, NewestIs
<1>4. DaemonOk(Born)'
  BY <1>1, <1>2, <1>3 DEF Base, DaemonOk
<1>5. CallsOk(Born)'
  <2>1. cmds' = cmds \/ cmds' = cmds \cup Focus(MainPane)
    BY Handled
  <2>2. CASE cmds' = cmds
    BY <1>1, <1>2, <2>2, CallsSame
  <2>3. CASE cmds' = cmds \cup Focus(MainPane)
    BY <1>1, <1>2, <2>3, FocusOk, CallsMore
  <2> QED  BY <2>1, <2>2, <2>3
<1>6. Newest(n).active \in Born \cup {NoSession} /\ mactive \in Born \cup {NoSession} /\ anchored \in Born \cup {NoSession}
  BY <1>3 DEF Base, ModelOk, EventsOf
<1>7. mactive' \in Born \cup {NoSession} /\ anchored' \in Born \cup {NoSession}
  <2>1. KnownActive(n) \in {mactive, NoSession} /\ KnownAnchor(n) \in {anchored, NoSession}
    BY DEF KnownActive, KnownAnchor
  <2>2. mactive' \in {Newest(n).active, KnownActive(n)} /\ anchored' \in {Newest(n).active, NoSession, KnownAnchor(n)}
    BY Handled
  <2> QED  BY <1>6, <2>1, <2>2
<1> DEFINE at == CursorOf(NewItems(n), Newest(n).active)
           back == RestoreCursor(At(items, cursor), NewItems(n))
<1>8. cursor \in Nat /\ Len(NewItems(n)) \in Nat
  BY <1>3, LenProperties DEF Base, ModelOk
<1>9. /\ at \in 0 .. Len(NewItems(n)) /\ back \in 0 .. Len(NewItems(n))
      /\ CursorOf(NewItems(n), CursorSession) # 0 => At(NewItems(n), back).session = CursorSession
  <2>1. at \in 0 .. Len(NewItems(n))
    BY <1>3, CursorOfIs
  <2>2. /\ back \in 0 .. Len(NewItems(n))
        /\ CursorOf(NewItems(n), At(items, cursor).session) # 0
               => At(NewItems(n), back).session = At(items, cursor).session
    BY <1>3, <1>8, RestoreCursorIs
  <2> QED  BY <2>1, <2>2 DEF CursorSession
<1>10. cursor' \in {at, back, 0}
  BY Handled
<1> HIDE DEF at, back
<1>11. cursor' \in 0 .. Len(NewItems(n)) /\ cursor' \in Nat
  BY <1>8, <1>9, <1>10
<1>12. ModelOk(Born)'
  <2>1. table' \in TablesOf(Born) /\ ws' \in ToSet(CollectWorkspaces(table'))
    BY <1>1, <1>3
  <2>2. filter' \subseteq Statuses /\ folded' \subseteq NamesOfProjects /\ offset' \in Nat
    BY <1>1 DEF Base, ModelOk
  <2> QED  BY <1>2, <1>7, <1>11, <2>1, <2>2 DEF ModelOk
<1>13. ASSUME KnownNow(n)
       PROVE  Stays
  <2>1. CursorOf(NewItems(n), mactive) # 0 /\ Newest(n).active = mactive
    BY <1>1, <1>13 DEF KnownNow
  <2>2. mactive # NoSession
    BY <1>3, <2>1, CursorOfIs
  <2>3. KnownActive(n) = mactive /\ ~ IsNew(n)
    BY <2>1, <2>2 DEF KnownActive, IsNew
  <2>4. cursor' = back
    BY <2>1, <2>2, <2>3, Handled DEF back
  <2>5. CursorSession' = At(NewItems(n), cursor').session
    BY <1>1 DEF CursorSession
  <2> QED  BY <1>1, <1>9, <1>11, <2>4, <2>5 DEF Stays
<1> QED  BY <1>1, <1>2, <1>4, <1>5, <1>11, <1>12, <1>13 DEF Base

-----------------------------------------------------------------------------
(* Every step *)

\* Steps other than that of a table handled.
Others ==
    \/ \E by \in {"up", "down"} : MoveCursor(by)
    \/ Enter \/ StopKey \/ Toggle \/ Filter(ToggledAll) \/ ClickTitle
    \/ \E b \in BOOLEAN : New(b) \/ Wheel(b)
    \/ \E st \in Statuses : Filter(ToggledFilter(st))
    \/ \E by \in {"next", "prev", "reset"} : WorkspaceKey(by)
    \/ \E i \in 0 .. Len(items), edge \in BOOLEAN : MouseMotion(i, edge)
    \/ \E i \in DOMAIN items : ClickItem(i)
    \/ \E w \in ToSet(Workspaces) : ClickWorkspace(w)
    \/ Panics \/ PrefixKey \/ KeyInPopup
    \/ \E c \in cmds : PreviewSession(c) \/ FocusPane(c) \/ PreviewProject(c) \/ DisplayPopup(c)
    \/ \E c \in asked : StopSession(c) \/ OtherCommand(c) \/ \E s \in Sessions : CreateSession(c, s)
    \/ \E r \in replies : PreviewDone(r) \/ DeactivateDone(r)
    \/ PopupStarts \/ MouseLeave
    \/ \E s \in Sessions : SessionChanges(s)

LEMMA Steps == Next => (\E n \in 1 .. Listeners : HandleServerEvent(n)) \/ Others
  BY Zenon DEF Next, UserNext, SystemNext, Others

LEMMA StopHolds == ASSUME Base, NEW c, StopSession(c) PROVE Holds
<1>1. c.session \in Sessions
  BY OrderBorn DEF StopSession
<1> QED  BY <1>1, LifeHolds

LEMMA OthersHold == ASSUME Base, Others PROVE Holds
<1>1. Len(items) \in Nat
  BY NamedNow
<1>2. CASE \E by \in {"up", "down"} : MoveCursor(by)
  BY <1>2, CursorKeys
<1>3. CASE Enter
  BY <1>3, CursorKeys
<1>4. CASE StopKey \/ ClickTitle \/ \E b \in BOOLEAN : New(b)
  BY <1>4, SendingKeys
<1>5. CASE \/ Toggle \/ Filter(ToggledAll)
           \/ \E st \in Statuses : Filter(ToggledFilter(st))
           \/ \E by \in {"next", "prev", "reset"} : WorkspaceKey(by)
           \/ \E w \in ToSet(Workspaces) : ClickWorkspace(w)
  BY <1>5, RemakingKeys
<1>6. CASE \/ \E b \in BOOLEAN : Wheel(b)
           \/ \E i \in 0 .. Len(items), edge \in BOOLEAN : MouseMotion(i, edge)
  <2>1. \A i \in 0 .. Len(items) : i \in Nat
    BY <1>1
  <2>2. 0 \in Nat /\ TRUE \in BOOLEAN
    OBVIOUS
  <2> QED  BY <1>6, <2>1, <2>2, MouseHolds
<1>7. CASE \E i \in DOMAIN items : ClickItem(i)
  BY <1>7, ClickHolds
<1>8. CASE Panics
  <2>1. Fresh /\ UNCHANGED <<daemon, focus>>
    BY <1>8 DEF Panics
  <2> QED  BY <2>1, FreshHolds
<1>9. CASE PrefixKey \/ KeyInPopup \/ PopupStarts \/ \E c \in asked : OtherCommand(c)
  BY <1>9, PopupsHold
<1>10. CASE \E c \in cmds : PreviewSession(c) \/ FocusPane(c) \/ PreviewProject(c) \/ DisplayPopup(c)
  BY <1>10, CommandsHold
<1>11. CASE \E c \in asked : StopSession(c)
  BY <1>11, StopHolds
<1>12. CASE \/ \E c \in asked : \E s \in Sessions : CreateSession(c, s)
            \/ \E s \in Sessions : SessionChanges(s)
  BY <1>12, LifeHolds
<1>13. CASE \E r \in replies : PreviewDone(r) \/ DeactivateDone(r)
  BY <1>13, AnswersHold
<1>14. CASE MouseLeave
  BY <1>14, LeaveHolds
<1> QED  BY <1>2, <1>3, <1>4, <1>5, <1>6, <1>7, <1>8, <1>9, <1>10, <1>11, <1>12, <1>13, <1>14, Zenon DEF Others

LEMMA BaseStep == ASSUME Base, [Next]_vars PROVE Base'
<1>1. CASE \E n \in 1 .. Listeners : HandleServerEvent(n)
  BY <1>1, EventHolds
<1>2. CASE Others
  BY <1>2, OthersHold DEF Holds
<1>3. CASE UNCHANGED vars
  BY <1>3 DEF vars, daemon, model, Base, DaemonOk, ModelOk, CallsOk, Born
<1> QED  BY <1>1, <1>2, <1>3, Steps

\* What CursorFollows says of a step.
Follows ==
    LET remade == <<table, filter, folded, ws>>' # <<table, filter, folded, ws>>
        told   == {i \in DOMAIN events : events' = RemoveAt(events, i)}
        known  == CursorOf(items', mactive) # 0 /\ \A i \in told : events[i].active = mactive
    IN  remade => /\ cursor' \in 0 .. Len(items')
                  /\ (told # {} => known) /\ CursorOf(items', CursorSession) # 0
                        => CursorSession' = CursorSession

LEMMA FollowsStep == ASSUME Base, [Next]_vars PROVE Follows
<1>1. ASSUME NEW n \in 1 .. Listeners, HandleServerEvent(n)
      PROVE  Follows
  <2>1. cursor' \in 0 .. Len(items') /\ (KnownNow(n) => Stays)
    BY <1>1, EventHolds
  <2>2. n \in DOMAIN events /\ events' = RemoveAt(events, n)
    BY <1>1, Handled
  <2>3. n \in {i \in DOMAIN events : events' = RemoveAt(events, i)}
    BY <2>2
  <2> QED  BY <2>1, <2>3 DEF KnownNow, Newest, Stays, Follows
<1>2. CASE Others
  <2>1. UNCHANGED shownBy \/ Stays
    BY <1>2, OthersHold DEF Holds
  <2> QED  BY <2>1 DEF Stays, Follows, shownBy
<1>3. CASE UNCHANGED vars
  BY <1>3 DEF vars, model, Follows
<1> QED  BY <1>1, <1>2, <1>3, Steps

\* Whatever a table, a command, an answer or the list names is a session there has
\* been, so a session that is made is new to all of them.
THEOREM BaseTheorem == Spec => []Base
<1>1. Base /\ [Next]_vars => Base'
  BY BaseStep
<1> QED  BY InitBase, <1>1, PTL DEF Spec

\* A list made anew under the cursor leaves it on an item of it or on none, and on
\* its session as long as that is listed, unless a table tells of another active
\* session (restoreCursor, handleServerEvent).
THEOREM CursorTheorem == Spec => CursorFollows
<1>1. Base /\ [Next]_vars => [Follows]_vars
  BY FollowsStep
<1>2. Spec => [][Follows]_vars
  BY BaseTheorem, <1>1, PTL DEF Spec
<1> QED  BY <1>2, PTL DEF CursorFollows, Follows


-----------------------------------------------------------------------------
(* The palette *)

Tools == {NoTool, "new-session", "create-project", "stop-session", "send-to-session", "push-driver",
          "detach", "shutdown"}

PopupOf(ph, ini, tool, i, args, ctx, w, g) ==
    [phase |-> ph, initial |-> ini, tool |-> tool, index |-> i, args |-> args, ctx |-> ctx, worktree |-> w, git |-> g]
IsPopup(p) == p = PopupOf(p.phase, p.initial, p.tool, p.index, p.args, p.ctx, p.worktree, p.git)

\* The tools are known ones, and no worktree was asked for on the command line.
Well(p) ==
    /\ IsPopup(p)
    /\ p.tool \in Tools /\ p.initial \in Tools /\ p.index \in Nat \ {0}
    /\ "worktree" \notin DOMAIN p.ctx

\* A worktree is on only where the project is a git repository, and not before the
\* project is chosen.
WorktreeOk(p) ==
    p.tool = "new-session" =>
        /\ Has(p.args, "worktree", "on") => Arg(p.args, "project") \in GitProjects
        /\ p.index = 1 => "worktree" \notin DOMAIN p.args

\* The parameter a popup asks for; a worktree that can be switched on is offered
\* for the project that was chosen.
Asking(p) ==
    /\ p.index \in DOMAIN Params(p.tool)
    /\ WorktreeOk(p)
    /\ p.tool = "new-session" /\ p.index = 2 /\ p.git => Arg(p.args, "project") \in GitProjects

PopupOk(p) ==
    \/ p = Closed
    \/ Well(p) /\ p.phase \in {"start", "tool"}
    \/ Well(p) /\ p.phase = "param" /\ Asking(p)

PaletteInv == PopupOk(popup) /\ WorktreeInGit

LEMMA FieldsOf ==
    ASSUME NEW ph, NEW ini, NEW tool, NEW i, NEW args, NEW ctx, NEW w, NEW g, NEW p, p = PopupOf(ph, ini, tool, i, args, ctx, w, g)
    PROVE  /\ IsPopup(p)
           /\ p.phase = ph /\ p.initial = ini /\ p.tool = tool /\ p.index = i /\ p.args = args /\ p.ctx = ctx
           /\ p.worktree = w /\ p.git = g
  BY DEF IsPopup, PopupOf

\* One field of a popup changed.
LEMMA Changed ==
    ASSUME NEW p, IsPopup(p), NEW x
    PROVE  /\ [p EXCEPT !.phase = x] = PopupOf(x, p.initial, p.tool, p.index, p.args, p.ctx, p.worktree, p.git)
           /\ [p EXCEPT !.tool = x] = PopupOf(p.phase, p.initial, x, p.index, p.args, p.ctx, p.worktree, p.git)
           /\ [p EXCEPT !.index = x] = PopupOf(p.phase, p.initial, p.tool, x, p.args, p.ctx, p.worktree, p.git)
           /\ [p EXCEPT !.args = x] = PopupOf(p.phase, p.initial, p.tool, p.index, x, p.ctx, p.worktree, p.git)
           /\ [p EXCEPT !.worktree = x] = PopupOf(p.phase, p.initial, p.tool, p.index, p.args, p.ctx, x, p.git)
           /\ [p EXCEPT !.git = x] = PopupOf(p.phase, p.initial, p.tool, p.index, p.args, p.ctx, p.worktree, x)
<1> DEFINE ph == p.phase
           ini == p.initial
           tool == p.tool
           i == p.index
           args == p.args
           ctx == p.ctx
           w == p.worktree
           g == p.git
<1>1. p = PopupOf(ph, ini, tool, i, args, ctx, w, g)
  BY DEF IsPopup
<1> HIDE DEF ph, ini, tool, i, args, ctx, w, g
<1>2. [p EXCEPT !.phase = x] = PopupOf(x, ini, tool, i, args, ctx, w, g)
  BY <1>1 DEF PopupOf
<1>3. [p EXCEPT !.tool = x] = PopupOf(ph, ini, x, i, args, ctx, w, g)
  BY <1>1 DEF PopupOf
<1>4. [p EXCEPT !.index = x] = PopupOf(ph, ini, tool, x, args, ctx, w, g)
  BY <1>1 DEF PopupOf
<1>5. [p EXCEPT !.args = x] = PopupOf(ph, ini, tool, i, x, ctx, w, g)
  BY <1>1 DEF PopupOf
<1>6. [p EXCEPT !.worktree = x] = PopupOf(ph, ini, tool, i, args, ctx, x, g)
  BY <1>1 DEF PopupOf
<1>7. [p EXCEPT !.git = x] = PopupOf(ph, ini, tool, i, args, ctx, w, x)
  BY <1>1 DEF PopupOf
<1> QED  BY <1>2, <1>3, <1>4, <1>5, <1>6, <1>7, Zenon DEF ph, ini, tool, i, args, ctx, w, g

LEMMA ParamsAre ==
    ASSUME NEW tool
    PROVE  /\ Len(Params(tool)) \in Nat /\ DOMAIN Params(tool) = 1 .. Len(Params(tool))
           /\ Params("new-session") = <<"project", "command">> /\ Len(Params("new-session")) = 2
<1>1. Params(tool) \in {<<"project", "command">>, <<"root", "name">>, <<"session_id">>, <<"command">>,
                        <<"target", "text">>, <<>>}
  BY DEF Params
<1>2. \A q \in {<<"project", "command">>, <<"root", "name">>, <<"session_id">>, <<"command">>,
                <<"target", "text">>, <<>>} : Len(q) \in Nat /\ DOMAIN q = 1 .. Len(q)
  OBVIOUS
<1>3. Params("new-session") = <<"project", "command">>
  BY DEF Params
<1> QED  BY <1>1, <1>2, <1>3

\* The next parameter is none before this one, and one of the tool unless all are
\* filled in.
LEMMA NextParamIs ==
    ASSUME NEW p, p.index \in Nat \ {0}
    PROVE  /\ NextParam(p) \in Nat
           /\ NextParam(p) <= Len(Params(p.tool))
                 => NextParam(p) \in DOMAIN Params(p.tool) /\ NextParam(p) >= p.index
<1> DEFINE N == Len(Params(p.tool))
           open == {i \in p.index .. N : Params(p.tool)[i] \notin DOMAIN p.args}
<1>1. N \in Nat /\ DOMAIN Params(p.tool) = 1 .. N
  BY ParamsAre
<1>2. NextParam(p) = IF open = {} THEN N + 1 ELSE CHOOSE i \in open : \A j \in open : i <= j
  BY DEF NextParam
<1>3. open \subseteq p.index .. N
  OBVIOUS
<1> HIDE DEF N, open
<1>4. CASE open = {}
  BY <1>1, <1>2, <1>4 DEF N
<1>5. CASE open # {}
  <2>1. open \subseteq Nat /\ \A i \in open : i \in p.index .. N
    BY <1>1, <1>3
  <2>2. PICK i \in open : \A j \in open : ~ (j < i)
    BY <1>5, <2>1, Least
  <2>3. \E k \in open : \A j \in open : k <= j
    BY <2>1, <2>2
  <2>4. NextParam(p) \in open
    BY <1>2, <1>5, <2>3
  <2>5. NextParam(p) \in p.index .. N
    BY <1>3, <2>4
  <2> HIDE DEF N
  <2>6. NextParam(p) \in Nat /\ NextParam(p) >= p.index /\ NextParam(p) \in 1 .. N
    BY <1>1, <2>5
  <2> QED  BY <1>1, <2>6 DEF N
<1> QED  BY <1>4, <1>5

\* advanceParam asks for parameter i.
LEMMA AskParamIs ==
    ASSUME NEW p, IsPopup(p), NEW i
    PROVE  LET git   == Arg(p.args, "project") \in GitProjects
               given == IF git /\ p.worktree THEN With(p.args, "worktree", "on") ELSE Without(p.args, "worktree")
               w     == git /\ p.worktree
           IN  AskParam(p, i) =
                  IF p.tool = "new-session" /\ Params(p.tool)[i] = "command"
                  THEN PopupOf("param", p.initial, p.tool, i, given, p.ctx, w, git)
                  ELSE PopupOf("param", p.initial, p.tool, i, p.args, p.ctx, p.worktree, p.git)
<1> DEFINE git   == Arg(p.args, "project") \in GitProjects
           given == IF git /\ p.worktree THEN With(p.args, "worktree", "on") ELSE Without(p.args, "worktree")
           w     == git /\ p.worktree
           a == [p EXCEPT !.phase = "param"]
           q == [a EXCEPT !.index = i]
           b == [q EXCEPT !.git = git]
           c == [b EXCEPT !.worktree = w]
           r == [c EXCEPT !.args = given]
           offered == p.tool = "new-session" /\ Params(p.tool)[i] = "command"
<1>1. AskParam(p, i) = IF offered THEN r ELSE q
  BY Zenon DEF AskParam
<1> HIDE DEF git, given, w
<1>2. a = PopupOf("param", p.initial, p.tool, p.index, p.args, p.ctx, p.worktree, p.git)
  BY Changed
<1> HIDE DEF a
<1>3. q = PopupOf(a.phase, a.initial, a.tool, i, a.args, a.ctx, a.worktree, a.git)
  <2>1. IsPopup(a)
    BY <1>2, FieldsOf
  <2> QED  BY <2>1, Changed
<1> HIDE DEF q
<1>4. q = PopupOf("param", p.initial, p.tool, i, p.args, p.ctx, p.worktree, p.git)
  BY <1>2, <1>3, FieldsOf
<1>5. b = PopupOf(q.phase, q.initial, q.tool, q.index, q.args, q.ctx, q.worktree, git)
  <2>1. IsPopup(q)
    BY <1>4, FieldsOf
  <2> QED  BY <2>1, Changed
<1> HIDE DEF b
<1>6. c = PopupOf(b.phase, b.initial, b.tool, b.index, b.args, b.ctx, w, b.git)
  <2>1. IsPopup(b)
    BY <1>5, FieldsOf
  <2> QED  BY <2>1, Changed
<1> HIDE DEF c
<1>7. r = PopupOf(c.phase, c.initial, c.tool, c.index, given, c.ctx, c.worktree, c.git)
  <2>1. IsPopup(c)
    BY <1>6, FieldsOf
  <2> QED  BY <2>1, Changed
<1> HIDE DEF r
<1>8. r = PopupOf("param", p.initial, p.tool, i, given, p.ctx, w, git)
  <2>1. b = PopupOf("param", p.initial, p.tool, i, p.args, p.ctx, p.worktree, git)
    BY <1>4, <1>5, FieldsOf
  <2>2. c = PopupOf("param", p.initial, p.tool, i, p.args, p.ctx, w, git)
    BY <1>6, <2>1, FieldsOf
  <2> QED  BY <1>7, <2>2, FieldsOf
<1> QED  BY <1>1, <1>4, <1>8, Zenon DEF git, given, w

LEMMA AskParamOk ==
    ASSUME NEW p, Well(p), WorktreeOk(p), NEW i \in DOMAIN Params(p.tool), i >= p.index
    PROVE  PopupOk(AskParam(p, i))
<1> DEFINE git == Arg(p.args, "project") \in GitProjects
           given == IF git /\ p.worktree THEN With(p.args, "worktree", "on") ELSE Without(p.args, "worktree")
           w == git /\ p.worktree
           q == AskParam(p, i)
           offered == p.tool = "new-session" /\ Params(p.tool)[i] = "command"
<1>1. i \in Nat \ {0} /\ p.index \in Nat \ {0}
  <2>1. DOMAIN Params(p.tool) = 1 .. Len(Params(p.tool)) /\ Len(Params(p.tool)) \in Nat
    BY ParamsAre
  <2> QED  BY <2>1 DEF Well
<1>2. /\ p.tool \in Tools /\ p.initial \in Tools /\ "worktree" \notin DOMAIN p.ctx /\ IsPopup(p)
  BY DEF Well
<1>3. q = IF offered THEN PopupOf("param", p.initial, p.tool, i, given, p.ctx, w, git)
          ELSE PopupOf("param", p.initial, p.tool, i, p.args, p.ctx, p.worktree, p.git)
  BY <1>2, AskParamIs, Zenon
<1>4. Arg(given, "project") = Arg(p.args, "project")
  BY DEF Arg, With, Without
<1>5. Has(given, "worktree", "on") => git
  BY DEF Has, With, Without
<1> HIDE DEF q, given, w
<1>6. CASE offered
  <2>1. p.tool = "new-session" /\ i = 2
    <3>1. i \in {1, 2}
      BY <1>6, ParamsAre
    <3> QED  BY <1>6, <3>1, ParamsAre
  <2> DEFINE g == git
  <2>2. (g => Arg(given, "project") \in GitProjects) /\ (Has(given, "worktree", "on") => g)
    BY <1>4, <1>5
  <2>3. q = PopupOf("param", p.initial, p.tool, i, given, p.ctx, w, g)
    BY <1>3, <1>6, Zenon
  <2> HIDE DEF g, offered
  <2>4. /\ IsPopup(q) /\ q.phase = "param" /\ q.initial = p.initial /\ q.tool = p.tool /\ q.index = i
        /\ q.args = given /\ q.ctx = p.ctx /\ q.git = g
    BY <2>3, FieldsOf
  <2>5. Well(q)
    BY <1>1, <1>2, <2>4 DEF Well
  <2>6. q.index \in DOMAIN Params(q.tool)
    BY <2>4
  <2>7. WorktreeOk(q)
    BY <2>1, <2>2, <2>4 DEF WorktreeOk
  <2>8. Asking(q)
    BY <2>2, <2>4, <2>6, <2>7 DEF Asking
  <2>9. PopupOk(q)
    BY <2>4, <2>5, <2>8 DEF PopupOk
  <2> QED  BY <2>9, Zenon DEF q
<1>7. CASE ~ offered
  <2>1. p.tool = "new-session" => i = 1 /\ p.index = 1
    <3> SUFFICES ASSUME p.tool = "new-session" PROVE i = 1 /\ p.index = 1
      OBVIOUS
    <3>1. i \in {1, 2} /\ i # 2
      BY <1>7, ParamsAre
    <3> QED  BY <1>1, <3>1
  <2>2. q = PopupOf("param", p.initial, p.tool, i, p.args, p.ctx, p.worktree, p.git)
    BY <1>3, <1>7, Zenon
  <2> HIDE DEF offered
  <2>3. /\ IsPopup(q) /\ q.phase = "param" /\ q.initial = p.initial /\ q.tool = p.tool /\ q.index = i
        /\ q.args = p.args /\ q.ctx = p.ctx
    BY <2>2, FieldsOf
  <2>4. Well(q)
    BY <1>1, <1>2, <2>3 DEF Well
  <2>5. WorktreeOk(q)
    BY <2>1, <2>3 DEF WorktreeOk
  <2>6. Asking(q)
    BY <2>1, <2>3, <2>5 DEF Asking
  <2>7. PopupOk(q)
    BY <2>3, <2>4, <2>6 DEF PopupOk
  <2> QED  BY <2>7, Zenon DEF q
<1> QED  BY <1>6, <1>7

\* What the daemon is asked for.
AskedOk(c) == c.op = "create" /\ c.worktree => c.project \in GitProjects

LEMMA CommandOk ==
    ASSUME NEW p, Well(p), WorktreeOk(p)
    PROVE  AskedOk(Command(p))
<1>1. p.tool \in Tools
  BY DEF Well
<1>2. CASE p.tool = "new-session"
  <2>1. Command(p) = [op |-> "create", project |-> Arg(p.args, "project"), command |-> Arg(p.args, "command"),
                      worktree |-> Has(p.args, "worktree", "on")]
    BY <1>2 DEF Command
  <2> QED  BY <1>2, <2>1 DEF AskedOk, WorktreeOk
<1>3. CASE p.tool # "new-session"
  <2>1. Command(p).op # "create"
    BY <1>1, <1>3 DEF Command, Tools, NoTool
  <2> QED  BY <2>1 DEF AskedOk
<1> QED  BY <1>2, <1>3

LEMMA RunToolOk ==
    ASSUME PaletteInv, NEW p, Well(p), WorktreeOk(p), RunTool(p)
    PROVE  PaletteInv'
<1>1. CASE p.tool = "create-project"
  <2>1. asked' = asked
    BY <1>1 DEF RunTool
  <2>2. CASE popup' = Closed
    BY <2>1, <2>2 DEF PaletteInv, PopupOk, WorktreeInGit
  <2>3. CASE popup' # Closed
    <3> DEFINE given == [n \in {"project"} |-> MadeDir]
               q == [p EXCEPT !.tool = "new-session", !.index = 1, !.args = given]
    <3>1. popup' = AskParam(q, NextParam(q))
      BY <1>1, <2>3 DEF RunTool
    <3> DEFINE a == [p EXCEPT !.tool = "new-session"]
               b == [a EXCEPT !.index = 1]
               r == [b EXCEPT !.args = given]
    <3> HIDE DEF given
    <3>2. r = PopupOf(p.phase, p.initial, "new-session", 1, given, p.ctx, p.worktree, p.git)
      <4>1. a = PopupOf(p.phase, p.initial, "new-session", p.index, p.args, p.ctx, p.worktree, p.git)
        BY Changed DEF Well
      <4> HIDE DEF a
      <4>2. b = PopupOf(a.phase, a.initial, a.tool, 1, a.args, a.ctx, a.worktree, a.git)
        <5>1. IsPopup(a)
          BY <4>1, FieldsOf
        <5> QED  BY <5>1, Changed
      <4> HIDE DEF b
      <4>3. b = PopupOf(p.phase, p.initial, "new-session", 1, p.args, p.ctx, p.worktree, p.git)
        BY <4>1, <4>2, FieldsOf
      <4>4. r = PopupOf(b.phase, b.initial, b.tool, b.index, given, b.ctx, b.worktree, b.git)
        <5>1. IsPopup(b)
          BY <4>3, FieldsOf
        <5> QED  BY <5>1, Changed
      <4> HIDE DEF r
      <4> QED  BY <4>3, <4>4, FieldsOf
    <3>3. q = r
      OBVIOUS
    <3> HIDE DEF q, r
    <3>4. /\ IsPopup(q) /\ q.initial = p.initial /\ q.tool = "new-session" /\ q.index = 1
          /\ q.args = given /\ q.ctx = p.ctx
      BY <3>2, <3>3, FieldsOf
    <3>9. Well(q)
      BY <3>4 DEF Well, Tools
    <3>5. DOMAIN given = {"project"}
      BY DEF given
    <3>6. WorktreeOk(q)
      BY <3>4, <3>5 DEF WorktreeOk, Has
    <3>7. NextParam(q) <= Len(Params(q.tool))
      <4> DEFINE open == {i \in q.index .. Len(Params(q.tool)) : Params(q.tool)[i] \notin DOMAIN q.args}
      <4>1. 2 \in open /\ open \subseteq {1, 2}
        BY <3>4, <3>5, ParamsAre
      <4>2. NextParam(q) = CHOOSE i \in open : \A j \in open : i <= j
        BY <4>1 DEF NextParam
      <4> HIDE DEF open
      <4>3. \E i \in open : \A j \in open : i <= j
        BY <4>1
      <4>4. NextParam(q) \in open
        BY <4>2, <4>3
      <4>5. NextParam(q) \in {1, 2} /\ Len(Params(q.tool)) = 2
        BY <3>4, <4>1, <4>4, ParamsAre
      <4> QED  BY <4>5
    <3>8. PopupOk(popup')
      <4>1. NextParam(q) \in DOMAIN Params(q.tool) /\ NextParam(q) >= q.index
        BY <3>4, <3>7, NextParamIs
      <4> QED  BY <3>1, <3>6, <3>9, <4>1, AskParamOk
    <3> QED  BY <2>1, <3>8 DEF PaletteInv, WorktreeInGit
  <2> QED  BY <2>2, <2>3
<1>2. CASE p.tool # "create-project"
  <2>1. popup' = Closed /\ asked' \in {asked, asked \cup {Command(p)}}
    BY <1>2 DEF RunTool
  <2>2. AskedOk(Command(p)) /\ \A c \in asked : AskedOk(c)
    BY CommandOk DEF PaletteInv, WorktreeInGit, AskedOk
  <2>3. \A c \in asked' : AskedOk(c)
    BY <2>1, <2>2
  <2> QED  BY <2>1, <2>3 DEF PaletteInv, PopupOk, WorktreeInGit, AskedOk
<1> QED  BY <1>1, <1>2

LEMMA AdvanceOk ==
    ASSUME PaletteInv, NEW p, Well(p), WorktreeOk(p), AdvanceParam(p)
    PROVE  PaletteInv'
<1>1. CASE NextParam(p) <= Len(Params(p.tool))
  <2>1. popup' = AskParam(p, NextParam(p)) /\ asked' = asked
    BY <1>1 DEF AdvanceParam
  <2>2. NextParam(p) \in DOMAIN Params(p.tool) /\ NextParam(p) >= p.index
    BY <1>1, NextParamIs DEF Well
  <2> QED  BY <2>1, <2>2, AskParamOk DEF PaletteInv, WorktreeInGit
<1>2. CASE ~ (NextParam(p) <= Len(Params(p.tool)))
  BY <1>2, RunToolOk DEF AdvanceParam
<1> QED  BY <1>1, <1>2

LEMMA StartToolOk ==
    ASSUME PaletteInv, NEW p, Well(p), NEW tool \in Tools, StartTool(p, tool)
    PROVE  PaletteInv'
<1> DEFINE on == Has(p.ctx, "worktree", "on")
           q == [p EXCEPT !.tool = tool, !.args = p.ctx, !.worktree = on]
<1>1. AdvanceParam(q)
  BY DEF StartTool
<1> HIDE DEF on
<1> DEFINE a == [p EXCEPT !.tool = tool]
           b == [a EXCEPT !.args = p.ctx]
           r == [b EXCEPT !.worktree = on]
<1>2. q = r
  OBVIOUS
<1> HIDE DEF q
<1>3. /\ IsPopup(r) /\ r.tool = tool /\ r.initial = p.initial /\ r.index = p.index /\ r.args = p.ctx
      /\ r.ctx = p.ctx
  <2>1. a = PopupOf(p.phase, p.initial, tool, p.index, p.args, p.ctx, p.worktree, p.git)
    BY Changed DEF Well
  <2> HIDE DEF a
  <2>2. b = PopupOf(a.phase, a.initial, a.tool, a.index, p.ctx, a.ctx, a.worktree, a.git)
    <3>1. IsPopup(a)
      BY <2>1, FieldsOf
    <3> QED  BY <3>1, Changed
  <2> HIDE DEF b
  <2>3. b = PopupOf(p.phase, p.initial, tool, p.index, p.ctx, p.ctx, p.worktree, p.git)
    <3>1. /\ a.phase = p.phase /\ a.initial = p.initial /\ a.tool = tool /\ a.index = p.index
          /\ a.ctx = p.ctx /\ a.worktree = p.worktree /\ a.git = p.git
      BY <2>1, FieldsOf
    <3> QED  BY <2>2, <3>1
  <2>4. r = PopupOf(b.phase, b.initial, b.tool, b.index, b.args, b.ctx, on, b.git)
    <3>1. IsPopup(b)
      BY <2>3, FieldsOf
    <3> QED  BY <3>1, Changed
  <2> HIDE DEF r
  <2>5. /\ b.phase = p.phase /\ b.initial = p.initial /\ b.tool = tool /\ b.index = p.index
        /\ b.args = p.ctx /\ b.ctx = p.ctx /\ b.git = p.git
    BY <2>3, FieldsOf
  <2>6. r = PopupOf(p.phase, p.initial, tool, p.index, p.ctx, p.ctx, on, p.git)
    BY <2>4, <2>5
  <2> QED  BY <2>6, FieldsOf
<1> HIDE DEF r
<1>4. Well(q) /\ q.args = p.ctx /\ "worktree" \notin DOMAIN p.ctx
  BY <1>2, <1>3 DEF Well
<1>5. WorktreeOk(q)
  BY <1>4 DEF WorktreeOk, Has
<1> QED  BY <1>1, <1>4, <1>5, AdvanceOk

-----------------------------------------------------------------------------
(* Steps of the palette *)

LEMMA ParamNames ==
    ASSUME NEW tool, NEW i \in DOMAIN Params(tool)
    PROVE  Params(tool)[i] # "worktree" /\ (tool = "new-session" => (i = 1 => Params(tool)[i] = "project")
                                            /\ (i # 1 => Params(tool)[i] = "command"))
<1>1. Params(tool) \in {<<"project", "command">>, <<"root", "name">>, <<"session_id">>, <<"command">>,
                        <<"target", "text">>, <<>>}
  BY DEF Params
<1>2. \A q \in {<<"project", "command">>, <<"root", "name">>, <<"session_id">>, <<"command">>,
                <<"target", "text">>, <<>>} : \A j \in DOMAIN q : q[j] # "worktree"
  OBVIOUS
<1>3. tool = "new-session" => Params(tool) = <<"project", "command">>
  BY DEF Params
<1> QED  BY <1>1, <1>2, <1>3

\* Enter on a parameter.
LEMMA SelectParamOk ==
    ASSUME PaletteInv, NEW live, NEW value, SelectParam(live, value)
    PROVE  PaletteInv'
<1> DEFINE name == Params(popup.tool)[popup.index]
           given == With(popup.args, name, value)
           a == [popup EXCEPT !.args = given]
           q == [a EXCEPT !.index = a.index + 1]
<1>1. Well(popup) /\ Asking(popup) /\ popup.phase = "param"
  BY DEF SelectParam, PaletteInv, PopupOk, Closed
<1>2. AdvanceParam([popup EXCEPT !.args = With(@, name, value), !.index = @ + 1])
  BY DEF SelectParam
<1>3. popup.index \in DOMAIN Params(popup.tool) /\ WorktreeOk(popup) /\ popup.index \in Nat \ {0}
  BY <1>1 DEF Asking, Well
<1>4. /\ name # "worktree"
      /\ popup.tool = "new-session" =>
            (popup.index = 1 => name = "project") /\ (popup.index # 1 => name = "command")
  BY <1>3, ParamNames
<1>5. "worktree" \in DOMAIN given => "worktree" \in DOMAIN popup.args /\ given["worktree"] = popup.args["worktree"]
  <2> HIDE DEF name
  <2> QED  BY <1>4 DEF With
<1>6. popup.tool = "new-session" /\ popup.index # 1 => Arg(given, "project") = Arg(popup.args, "project")
  <2> HIDE DEF name
  <2> QED  BY <1>4 DEF With, Arg
<1> HIDE DEF name, given
<1>7. a = PopupOf(popup.phase, popup.initial, popup.tool, popup.index, given, popup.ctx, popup.worktree, popup.git)
  BY <1>1, Changed DEF Well
<1>8. AdvanceParam(q)
  <2>1. q = [popup EXCEPT !.args = With(@, name, value), !.index = @ + 1]
    BY <1>7, FieldsOf DEF given
  <2> HIDE DEF q
  <2> QED  BY <1>2, <2>1, Zenon
<1> HIDE DEF a
<1>9. q = PopupOf(a.phase, a.initial, a.tool, a.index + 1, a.args, a.ctx, a.worktree, a.git)
  <2>1. IsPopup(a)
    BY <1>7, FieldsOf
  <2> QED  BY <2>1, Changed
<1> HIDE DEF q
<1>10. /\ IsPopup(q) /\ q.initial = popup.initial /\ q.tool = popup.tool /\ q.index = popup.index + 1
       /\ q.args = given /\ q.ctx = popup.ctx
  <2>1. /\ a.initial = popup.initial /\ a.tool = popup.tool /\ a.index = popup.index
        /\ a.args = given /\ a.ctx = popup.ctx
    BY <1>7, FieldsOf
  <2>2. /\ IsPopup(q) /\ q.initial = a.initial /\ q.tool = a.tool /\ q.index = a.index + 1
        /\ q.args = a.args /\ q.ctx = a.ctx
    BY <1>9, FieldsOf
  <2> QED  BY <2>1, <2>2
<1>11. Well(q)
  <2>1. q.index \in Nat \ {0}
    BY <1>3, <1>10
  <2> QED  BY <1>1, <1>10, <2>1 DEF Well
<1>12. WorktreeOk(q)
  <2> SUFFICES ASSUME q.tool = "new-session" PROVE WorktreeOk(q)
    BY DEF WorktreeOk
  <2>1. q.index # 1
    BY <1>3, <1>10
  <2>2. CASE popup.index = 1
    <3>1. "worktree" \notin DOMAIN given
      BY <1>3, <1>5, <1>10, <2>2 DEF WorktreeOk
    <3> QED  BY <1>10, <3>1 DEF WorktreeOk, Has
  <2>3. CASE popup.index # 1
    <3>1. Arg(given, "project") = Arg(popup.args, "project")
      BY <1>6, <1>10, <2>3
    <3>2. Has(given, "worktree", "on") => Has(popup.args, "worktree", "on")
      BY <1>5 DEF Has
    <3>3. Has(popup.args, "worktree", "on") => Arg(popup.args, "project") \in GitProjects
      BY <1>3, <1>10 DEF WorktreeOk
    <3> QED  BY <1>10, <2>1, <3>1, <3>2, <3>3 DEF WorktreeOk
  <2> QED  BY <2>2, <2>3
<1> QED  BY <1>8, <1>11, <1>12, AdvanceOk

\* The worktree switched on or off.
LEMMA ToggleOk ==
    ASSUME PaletteInv, ToggleWorktree
    PROVE  PaletteInv'
<1> DEFINE given == IF popup.worktree THEN Without(popup.args, "worktree") ELSE With(popup.args, "worktree", "on")
           w == ~ popup.worktree
           a == [popup EXCEPT !.worktree = w]
           q == [a EXCEPT !.args = given]
<1>1. Well(popup) /\ Asking(popup) /\ popup.phase = "param"
  BY DEF ToggleWorktree, PaletteInv, PopupOk, Closed
<1>2. /\ popup.tool = "new-session" /\ Params(popup.tool)[popup.index] = "command" /\ popup.git
      /\ popup' = [popup EXCEPT !.worktree = ~@,
                                !.args = IF popup.worktree THEN Without(@, "worktree")
                                         ELSE With(@, "worktree", "on")]
      /\ asked' = asked
  BY DEF ToggleWorktree
<1>3. popup.index = 2
  <2>1. popup.index \in DOMAIN Params(popup.tool)
    BY <1>1 DEF Asking
  <2>2. popup.index \in {1, 2} /\ popup.index # 1
    BY <1>2, <2>1, ParamsAre
  <2> QED  BY <2>2
<1>4. Arg(popup.args, "project") \in GitProjects
  BY <1>1, <1>2, <1>3 DEF Asking
<1>5. Arg(given, "project") = Arg(popup.args, "project")
  BY DEF Arg, With, Without
<1> HIDE DEF w
<1>6. a = PopupOf(popup.phase, popup.initial, popup.tool, popup.index, popup.args, popup.ctx, w, popup.git)
  BY <1>1, Changed DEF Well
<1>7. popup' = q
  <2>1. a.args = popup.args
    BY <1>6, FieldsOf
  <2>2. popup' = [a EXCEPT !.args = IF popup.worktree THEN Without(a.args, "worktree")
                                    ELSE With(a.args, "worktree", "on")]
    BY <1>2, Zenon DEF w
  <2> HIDE DEF a
  <2> QED  BY <2>1, <2>2, Zenon
<1> HIDE DEF a, given
<1>8. q = PopupOf(a.phase, a.initial, a.tool, a.index, given, a.ctx, a.worktree, a.git)
  <2>1. IsPopup(a)
    BY <1>6, FieldsOf
  <2> QED  BY <2>1, Changed
<1> HIDE DEF q
<1>9. /\ IsPopup(q) /\ q.phase = "param" /\ q.initial = popup.initial /\ q.tool = popup.tool
      /\ q.index = popup.index /\ q.args = given /\ q.ctx = popup.ctx
  <2>1. /\ a.phase = popup.phase /\ a.initial = popup.initial /\ a.tool = popup.tool /\ a.index = popup.index
        /\ a.ctx = popup.ctx
    BY <1>6, FieldsOf
  <2>2. /\ IsPopup(q) /\ q.phase = a.phase /\ q.initial = a.initial /\ q.tool = a.tool /\ q.index = a.index
        /\ q.args = given /\ q.ctx = a.ctx
    BY <1>8, FieldsOf
  <2> QED  BY <1>1, <2>1, <2>2
<1>10. Well(q)
  BY <1>1, <1>9 DEF Well
<1>11. WorktreeOk(q)
  BY <1>3, <1>4, <1>5, <1>9 DEF WorktreeOk
<1>12. Asking(q)
  BY <1>1, <1>4, <1>5, <1>9, <1>11 DEF Asking
<1>13. PopupOk(q)
  BY <1>9, <1>10, <1>12 DEF PopupOk
<1> QED  BY <1>2, <1>7, <1>13 DEF PaletteInv, WorktreeInGit

LEMMA EscapeOk ==
    ASSUME PaletteInv, Escape
    PROVE  PaletteInv'
<1> DEFINE a == [popup EXCEPT !.phase = "tool"]
           b == [a EXCEPT !.tool = NoTool]
           q == [b EXCEPT !.index = 1]
<1>1. asked' = asked /\ popup' \in {Closed, q}
  BY Zenon DEF Escape
<1>2. Well(popup)
  BY DEF Escape, PaletteInv, PopupOk, Closed
<1>3. a = PopupOf("tool", popup.initial, popup.tool, popup.index, popup.args, popup.ctx, popup.worktree, popup.git)
  BY <1>2, Changed DEF Well
<1> HIDE DEF a
<1>4. b = PopupOf(a.phase, a.initial, NoTool, a.index, a.args, a.ctx, a.worktree, a.git)
  <2>1. IsPopup(a)
    BY <1>3, FieldsOf
  <2> QED  BY <2>1, Changed
<1> HIDE DEF b
<1>5. b = PopupOf("tool", popup.initial, NoTool, popup.index, popup.args, popup.ctx, popup.worktree, popup.git)
  BY <1>3, <1>4, FieldsOf
<1>6. q = PopupOf(b.phase, b.initial, b.tool, 1, b.args, b.ctx, b.worktree, b.git)
  <2>1. IsPopup(b)
    BY <1>5, FieldsOf
  <2> QED  BY <2>1, Changed
<1> HIDE DEF q
<1>7. /\ IsPopup(q) /\ q.phase = "tool" /\ q.initial = popup.initial /\ q.tool = NoTool /\ q.index = 1
      /\ q.ctx = popup.ctx
  <2>1. q = PopupOf("tool", popup.initial, NoTool, 1, popup.args, popup.ctx, popup.worktree, popup.git)
    BY <1>5, <1>6, FieldsOf
  <2> QED  BY <2>1, FieldsOf
<1>8. PopupOk(q)
  BY <1>2, <1>7 DEF Well, PopupOk, Tools
<1>9. PopupOk(Closed)
  BY DEF PopupOk
<1> QED  BY <1>1, <1>8, <1>9 DEF PaletteInv, WorktreeInGit

\* What the popup starts with.
LEMMA OpenedOk ==
    ASSUME NEW tool \in Tools, NEW args, "worktree" \notin DOMAIN args, NEW session
    PROVE  PopupOk(Opened(tool, args, session))
<1> DEFINE ctx == IF tool = "push-driver" /\ session # NoSession THEN With(args, "session_id", session) ELSE args
           ph == IF tool = NoTool THEN "tool" ELSE "start"
           q == PopupOf(ph, tool, NoTool, 1, NoArgs, ctx, FALSE, FALSE)
<1>1. Opened(tool, args, session) = Closed \/ Opened(tool, args, session) = q
  BY DEF Opened, PopupOf
<1>2. "worktree" \notin DOMAIN ctx
  BY DEF With
<1>3. ph \in {"start", "tool"}
  OBVIOUS
<1> HIDE DEF ctx, ph
<1>4. IsPopup(q) /\ q.phase = ph /\ q.initial = tool /\ q.tool = NoTool /\ q.index = 1 /\ q.ctx = ctx
  <2> DEFINE r == q
  <2>1. r = PopupOf(ph, tool, NoTool, 1, NoArgs, ctx, FALSE, FALSE)
    OBVIOUS
  <2> HIDE DEF q
  <2> QED  BY <2>1, FieldsOf DEF PopupOf
<1> HIDE DEF q
<1>5. Well(q)
  BY <1>2, <1>4 DEF Well, Tools
<1>6. PopupOk(q) /\ PopupOk(Closed)
  BY <1>3, <1>4, <1>5 DEF PopupOk
<1> QED  BY <1>1, <1>6


\* The popup and what was asked for are left alone, or a command is taken.
LEMMA PaletteSame ==
    ASSUME PaletteInv, popup' = popup, \A c \in asked' : c \in asked
    PROVE  PaletteInv'
  BY DEF PaletteInv, WorktreeInGit

LEMMA PaletteKeyOk ==
    ASSUME PaletteInv, NEW live, PaletteKey(live) \/ Begin
    PROVE  PaletteInv'
<1>1. ASSUME NEW tool \in Tools, StartTool(popup, tool), popup.phase \in {"start", "tool"}
      PROVE  PaletteInv'
  <2>1. Well(popup)
    BY <1>1 DEF PaletteInv, PopupOk, Closed
  <2> QED  BY <1>1, <2>1, StartToolOk DEF Well
<1>2. CASE \E tool \in Visible : SelectTool(tool)
  <2>1. Visible \subseteq Tools
    BY DEF Visible, Tools
  <2>2. PICK tool \in Visible : SelectTool(tool)
    BY <1>2
  <2> QED  BY <1>1, <2>1, <2>2 DEF SelectTool
<1>3. CASE Begin
  <2>1. popup.phase = "start" /\ StartTool(popup, popup.initial)
    BY <1>3 DEF Begin
  <2>2. popup.initial \in Tools
    BY <2>1 DEF PaletteInv, PopupOk, Closed, Well
  <2> QED  BY <1>1, <2>1, <2>2
<1> QED  BY <1>2, <1>3, SelectParamOk, ToggleOk, EscapeOk, Zenon DEF PaletteKey

LEMMA DisplayOk ==
    ASSUME Base, PaletteInv, NEW c \in cmds, DisplayPopup(c)
    PROVE  PaletteInv'
<1>1. c.op = "tool" /\ asked' = asked /\ popup' \in {popup, Opened(c.tool, PassedOn(c.args), active)}
  BY DEF DisplayPopup
<1>2. Launched(c)
  BY <1>1 DEF Base, CallsOk, CallOk
<1>3. c.tool \in Tools /\ "worktree" \notin DOMAIN PassedOn(c.args)
  BY <1>2 DEF Launched, Tools, PassedOn
<1>4. PopupOk(Opened(c.tool, PassedOn(c.args), active))
  BY <1>3, OpenedOk
<1> QED  BY <1>1, <1>4 DEF PaletteInv, WorktreeInGit

LEMMA PrefixOk ==
    ASSUME PaletteInv, PrefixKey
    PROVE  PaletteInv'
<1>1. asked' = asked /\ (popup' = popup \/ \E tool \in {NoTool, "push-driver", "shutdown"} :
                                              popup' = Opened(tool, NoArgs, active))
  BY DEF PrefixKey
<1>2. CASE popup' = popup
  BY <1>1, <1>2, PaletteSame
<1>3. CASE \E tool \in {NoTool, "push-driver", "shutdown"} : popup' = Opened(tool, NoArgs, active)
  <2>1. PICK tool \in {NoTool, "push-driver", "shutdown"} : popup' = Opened(tool, NoArgs, active)
    BY <1>3
  <2>2. tool \in Tools /\ "worktree" \notin DOMAIN NoArgs
    BY DEF Tools, NoArgs
  <2>3. PopupOk(popup')
    BY <2>1, <2>2, OpenedOk
  <2> QED  BY <1>1, <2>3 DEF PaletteInv, WorktreeInGit
<1> QED  BY <1>1, <1>2, <1>3

LEMMA PaletteInit == Init => PaletteInv
  BY DEF Init, PaletteInv, PopupOk, WorktreeInGit

LEMMA PaletteStep == ASSUME Base, PaletteInv, [Next]_vars PROVE PaletteInv'
<1>1. CASE \/ (\E n \in 1 .. Listeners : HandleServerEvent(n)) \/ MouseLeave \/ Panics
           \/ \E by \in {"up", "down"} : MoveCursor(by)
           \/ Enter \/ StopKey \/ Toggle \/ Filter(ToggledAll) \/ ClickTitle
           \/ \E st \in Statuses : Filter(ToggledFilter(st))
           \/ \E by \in {"next", "prev", "reset"} : WorkspaceKey(by)
           \/ \E w \in ToSet(Workspaces) : ClickWorkspace(w)
  <2>1. popup' = popup /\ asked' = asked
    BY <1>1 DEF HandleServerEvent, MouseLeave, Panics, MoveCursor, Enter, StopKey, Toggle, Filter, ClickTitle,
                WorkspaceKey, ClickWorkspace, Key, Press
  <2> QED  BY <2>1, PaletteSame
<1>2. CASE \/ \E b \in BOOLEAN : New(b) \/ Wheel(b)
           \/ \E i \in 0 .. Len(items), edge \in BOOLEAN : MouseMotion(i, edge)
           \/ \E i \in DOMAIN items : ClickItem(i)
  <2>1. popup' = popup /\ asked' = asked
    BY <1>2 DEF New, Wheel, MouseMotion, ClickItem, Key, Press
  <2> QED  BY <2>1, PaletteSame
<1>3. CASE \/ \E c \in cmds : PreviewSession(c) \/ FocusPane(c) \/ PreviewProject(c)
           \/ \E c \in asked : StopSession(c) \/ OtherCommand(c) \/ \E s \in Sessions : CreateSession(c, s)
           \/ \E r \in replies : PreviewDone(r) \/ DeactivateDone(r)
           \/ \E s \in Sessions : SessionChanges(s)
  <2>1. popup' = popup /\ \A c \in asked' : c \in asked
    BY <1>3 DEF PreviewSession, FocusPane, PreviewProject, StopSession, OtherCommand, CreateSession, PreviewDone,
                DeactivateDone, SessionChanges
  <2> QED  BY <2>1, PaletteSame
<1>4. CASE \E c \in cmds : DisplayPopup(c)
  BY <1>4, DisplayOk
<1>5. CASE PrefixKey
  BY <1>5, PrefixOk
<1>6. CASE KeyInPopup \/ PopupStarts
  BY <1>6, PaletteKeyOk DEF KeyInPopup, PopupStarts
<1>7. CASE UNCHANGED vars
  BY <1>7, PaletteSame DEF vars
<1>8. CASE Others
  BY <1>1, <1>2, <1>3, <1>4, <1>5, <1>6, <1>8, Zenon DEF Others
<1> QED  BY <1>1, <1>7, <1>8, Steps

\* The palette asks for parameters its tool has, and has a worktree switched on only
\* for a project that is a git repository (advanceParam, handleParamSelect).
THEOREM PaletteTheorem == Spec => []PaletteInv
<1>1. Base /\ PaletteInv /\ [Next]_vars => PaletteInv'
  BY PaletteStep
<1> QED  BY PaletteInit, BaseTheorem, <1>1, PTL DEF Spec

\* The parameter the palette asks for is one of its tool, and what the sidebar shows
\* is of the table it was told.
THEOREM TypeTheorem == Spec => []TypeOK
<1>1. Base /\ PaletteInv => TypeOK
  <2> SUFFICES ASSUME Base, PaletteInv PROVE TypeOK
    OBVIOUS
  <2>1. {mactive, anchored} \subseteq Sessions \cup {NoSession}
    BY BornSessions DEF Base, ModelOk
  <2>2. popup.phase = "param" => popup.index \in DOMAIN Params(popup.tool)
    BY DEF PaletteInv, PopupOk, Closed, Asking
  <2> QED  BY <2>1, <2>2 DEF TypeOK, Base, ModelOk, CallsOk, NamesOfProjects
<1> QED  BY BaseTheorem, PaletteTheorem, <1>1, PTL

\* A worktree is asked for only in a git repository (advanceParam).
THEOREM WorktreeTheorem == Spec => []WorktreeInGit
<1>1. PaletteInv => WorktreeInGit
  BY DEF PaletteInv
<1> QED  BY PaletteTheorem, <1>1, PTL


-----------------------------------------------------------------------------
(* A session that was made *)

\* The table tells of session m as the active one, and lists it; or it is older.
Tells(e, m) == e.active = m /\ Listed(e, m)
Older(e, m) == e.active # m /\ m \notin ToSet(e.order)

\* The sidebar has not heard of it.
Unheard ==
    /\ made \notin {mactive, anchored} /\ made \notin ToSet(table.order)
    /\ \A c \in cmds : c.op = "preview" => c.session # made
    /\ \A r \in replies : r.op = "preview" => r.session # made

\* A table on its way tells of it, and takes the view there.
Pending ==
    /\ Unheard
    /\ \A e \in ToSet(events) : Tells(e, made) => e.preview = FALSE
    /\ \E e \in ToSet(events) : Tells(e, made)

\* It has heard of it.
InView ==
    /\ made \in ToSet(table.order)
    /\ ws = WorkspaceOf[ProjectOf[made]]
    /\ anchored \in {made, NoSession}
    /\ filter = Statuses /\ folded = {} => CursorSession = made

Kind ==
    /\ made \in ToSet(order) /\ status[made] \in Statuses /\ active = made
    /\ \A e \in ToSet(events) : Tells(e, made) \/ Older(e, made)

MadeInv == made # NoSession => Kind /\ (Pending \/ InView)

\* One more table on its way.
LEMMA MoreToSet ==
    ASSUME NEW E, NEW q \in Seq(E), NEW e
    PROVE  ToSet(Append(q, e)) = ToSet(q) \cup {e}
<1> DEFINE F == E \cup {e}
<1>1. q \in Seq(F)
  <2>1. \A i \in 1 .. Len(q) : q[i] \in F
    BY ElementOfSeq, LenProperties
  <2> QED  BY <2>1, IsASeq, LenProperties
<1>2. e \in F
  OBVIOUS
<1> HIDE DEF F
<1> QED  BY <1>1, <1>2, AppendSet

LEMMA MadeSession == ASSUME Base, Kind PROVE made \in Sessions /\ made \in Born /\ made # NoSession
<1>1. made \in Born /\ made \in Sessions
  BY OrderBorn DEF Kind
<1> QED  BY <1>1, SidebarAssumption

\* One more table that tells of it, or none: a preview only once the sidebar knows.
TellsNow(e) == Tells(e, made) /\ (e.preview # FALSE => InView)
TellsMore == events' = events \/ \E e : events' = Append(events, e) /\ TellsNow(e)

LEMMA EventsStay ==
    ASSUME Base, TellsMore
    PROVE  /\ ToSet(events) \subseteq ToSet(events')
           /\ \A e \in ToSet(events') : e \in ToSet(events) \/ TellsNow(e)
<1>1. events \in Seq(EventsOf(Born))
  BY DEF Base, DaemonOk
<1>2. CASE events' = events
  BY <1>2
<1>3. ASSUME NEW e, events' = Append(events, e), TellsNow(e)
      PROVE  /\ ToSet(events) \subseteq ToSet(events')
             /\ \A x \in ToSet(events') : x \in ToSet(events) \/ TellsNow(x)
  <2>1. ToSet(events') = ToSet(events) \cup {e}
    BY <1>1, <1>3, MoreToSet
  <2> QED  BY <1>3, <2>1
<1> QED  BY <1>2, <1>3 DEF TellsMore

LEMMA KindStays ==
    ASSUME Base, Kind, TellsMore, made' = made, active' = made, made \in ToSet(order'), status'[made] \in Statuses
    PROVE  Kind'
<1>1. \A e \in ToSet(events') : e \in ToSet(events) \/ Tells(e, made)
  BY EventsStay DEF TellsNow
<1>2. \A e \in ToSet(events') : Tells(e, made) \/ Older(e, made)
  BY <1>1 DEF Kind
<1> QED  BY <1>2 DEF Kind, Tells, Older, Listed

LEMMA PendingStays ==
    ASSUME Base, Pending, ~ InView, made' = made, UNCHANGED <<mactive, table>>, anchored' \in {anchored, NoSession},
           made # NoSession,
           \A c \in cmds' : c.op = "preview" => c \in cmds \/ c.session # made,
           \A r \in replies' : r.op = "preview" => r \in replies \/ r.session # made,
           TellsMore
    PROVE  Pending'
<1>1. /\ ToSet(events) \subseteq ToSet(events')
      /\ \A e \in ToSet(events') : e \in ToSet(events) \/ (e.preview # FALSE => InView)
  BY EventsStay DEF TellsNow
<1>2. Unheard'
  BY DEF Pending, Unheard
<1>3. \A e \in ToSet(events') : Tells(e, made) => e.preview = FALSE
  BY <1>1 DEF Pending
<1>4. \E e \in ToSet(events') : Tells(e, made)
  BY <1>1 DEF Pending
<1> QED  BY <1>2, <1>3, <1>4 DEF Pending, Tells, Listed

LEMMA InViewStays ==
    ASSUME InView, made' = made, UNCHANGED shownBy, anchored' \in {anchored, NoSession},
           filter = Statuses /\ folded = {} /\ CursorSession = made => CursorSession' = made
    PROVE  InView'
<1>1. ws' = WorkspaceOf[ProjectOf[made]] /\ anchored' \in {made, NoSession} /\ made \in ToSet(table'.order)
  BY DEF InView, shownBy
<1>2. filter' = Statuses /\ folded' = {} => CursorSession' = made
  BY DEF InView, shownBy
<1> QED  BY <1>1, <1>2 DEF InView

\* The sidebar is left alone.
LEMMA MadeStays ==
    ASSUME Base, MadeInv, made' = made, UNCHANGED model, Kind',
           \A c \in cmds' : c.op = "preview" => c \in cmds,
           \A r \in replies' : r.op = "preview" => r \in replies \/ r.session # made \/ InView,
           TellsMore
    PROVE  MadeInv'
<1> SUFFICES ASSUME made # NoSession PROVE MadeInv'
  BY DEF MadeInv
<1>1. UNCHANGED shownBy /\ anchored' = anchored /\ UNCHANGED <<mactive, table>> /\ CursorSession' = CursorSession
  BY DEF model, shownBy, CursorSession, items
<1>2. CASE InView
  <2>1. InView'
    BY <1>1, <1>2, InViewStays
  <2> QED  BY <2>1 DEF MadeInv
<1>3. CASE ~ InView
  <2>1. Pending
    BY <1>3 DEF MadeInv
  <2>2. Pending'
    BY <1>1, <1>3, <2>1, PendingStays
  <2> QED  BY <2>2 DEF MadeInv
<1> QED  BY <1>2, <1>3


\* Commands, popups and answers.
LEMMA MadeCommands ==
    ASSUME Base, MadeInv, made # NoSession,
           \/ \E c \in cmds : FocusPane(c) \/ DisplayPopup(c)
           \/ KeyInPopup \/ PopupStarts \/ \E c \in asked : OtherCommand(c)
    PROVE  MadeInv'
<1>1. made' = made /\ UNCHANGED <<model, order, status, active, events, replies>>
  BY DEF FocusPane, DisplayPopup, KeyInPopup, PopupStarts, OtherCommand, daemon
<1>2. Kind'
  BY <1>1 DEF MadeInv, Kind
<1>3. TellsMore
  BY <1>1 DEF TellsMore
<1>4. \A c \in cmds' : c.op = "preview" => c \in cmds
  BY DEF FocusPane, DisplayPopup, KeyInPopup, PopupStarts, OtherCommand, Take
<1> QED  BY <1>1, <1>2, <1>3, <1>4, MadeStays

\* A table is told while the session stays the active one.
LEMMA TableTells ==
    ASSUME NEW b, Broadcast(b), active' = made, made \in ToSet(order'), status'[made] \in Statuses,
           b # FALSE => InView
    PROVE  TellsMore
<1> DEFINE e == Table(b)
<1>1. TellsNow(e)
  BY DEF Table, Tells, Listed, TellsNow
<1>2. events' = Append(events, e)
  BY DEF Broadcast
<1> HIDE DEF e
<1> QED  BY <1>1, <1>2 DEF TellsMore

LEMMA MadePreview ==
    ASSUME Base, MadeInv, made # NoSession, NEW c \in cmds, PreviewSession(c)
    PROVE  MadeInv'
<1> SUFFICES ASSUME made' # NoSession PROVE MadeInv'
  BY DEF MadeInv
<1>1. active' = made /\ made' = made
  BY DEF PreviewSession, KeepMade
<1>2. UNCHANGED <<model, order, status>>
  BY DEF PreviewSession, daemon
<1>3. Kind /\ (Pending \/ InView) /\ made \in ToSet(order') /\ status'[made] \in Statuses
  BY <1>1, <1>2 DEF MadeInv, Kind
<1>5. c.op = "preview" /\ cmds' = cmds \ {c}
  BY DEF PreviewSession, Take
<1>6. Pending => c.session # made
  BY <1>5 DEF Pending, Unheard
<1>4. TellsMore
  <2>1. CASE c.session \in ToSet(order)
    <3>1. Broadcast(TRUE) /\ active' = c.session
      BY <2>1 DEF PreviewSession
    <3>2. InView
      BY <1>1, <1>3, <1>6, <3>1
    <3> QED  BY <1>1, <1>3, <3>1, <3>2, TableTells
  <2>2. CASE c.session \notin ToSet(order)
    BY <2>2 DEF PreviewSession, TellsMore
  <2> QED  BY <2>1, <2>2
<1>7. \A r \in replies' : r.op = "preview" => r \in replies \/ r.session # made \/ InView
  <2> DEFINE r0 == [op |-> "preview", n |-> c.n,
                    session |-> IF c.session \in ToSet(order) THEN c.session ELSE NoSession]
  <2>1. replies' = replies \cup {r0}
    BY DEF PreviewSession
  <2>2. r0.session \in {c.session, NoSession}
    OBVIOUS
  <2> HIDE DEF r0
  <2> QED  BY <1>3, <1>6, <2>1, <2>2
<1>8. Kind'
  BY <1>1, <1>3, <1>4, KindStays
<1>9. \A x \in cmds' : x.op = "preview" => x \in cmds
  BY <1>5
<1> QED  BY <1>1, <1>2, <1>4, <1>7, <1>8, <1>9, MadeStays

\* Sessions that end or change their status.
LEMMA MadeLives ==
    ASSUME Base, MadeInv, made # NoSession, UNCHANGED <<model, cmds, replies>>, KeepMade,
           NEW s \in ToSet(order),
           Removed(s) \/ ((\E st \in Statuses : status' = [status EXCEPT ![s] = st])
                            /\ UNCHANGED <<order, active>> /\ Broadcast(FALSE))
    PROVE  MadeInv'
<1> SUFFICES ASSUME made' # NoSession PROVE MadeInv'
  BY DEF MadeInv
<1>1. active' = made /\ made' = made
  BY DEF KeepMade
<1>2. Kind /\ status \in [Sessions -> AllStatuses] /\ order \in Seq(Born) /\ made \in Sessions /\ s \in Sessions
  BY MadeSession, OrderBorn DEF MadeInv, Base, DaemonOk
<1>3. made \in ToSet(order') /\ status'[made] \in Statuses /\ Broadcast(FALSE)
  <2>1. CASE Removed(s)
    <3>1. /\ order' = Kept(order, Sessions \ {s}) /\ status' = [status EXCEPT ![s] = "gone"]
          /\ active' = IF active = s THEN NoSession ELSE active
      BY <2>1 DEF Removed
    <3>2. made # s
      BY <1>1, <1>2, <3>1 DEF Kind
    <3>3. ToSet(order') = ToSet(order) \cap (Sessions \ {s})
      BY <1>2, <3>1, KeptIs
    <3>4. made \in ToSet(order')
      BY <1>2, <3>2, <3>3 DEF Kind
    <3>5. status'[made] = status[made]
      BY <1>2, <3>1, <3>2
    <3> QED  BY <1>2, <2>1, <3>4, <3>5 DEF Kind, Removed
  <2>2. CASE ~ Removed(s)
    <3>1. PICK st \in Statuses : status' = [status EXCEPT ![s] = st]
      BY <2>2
    <3>2. status'[made] \in {st, status[made]}
      BY <1>2, <3>1
    <3>3. order' = order /\ Broadcast(FALSE)
      BY <2>2
    <3> QED  BY <1>1, <1>2, <3>2, <3>3 DEF Kind
  <2> QED  BY <2>1, <2>2
<1>4. TellsMore
  BY <1>1, <1>3, TableTells
<1>5. Kind'
  BY <1>1, <1>2, <1>3, <1>4, KindStays
<1> QED  BY <1>1, <1>4, <1>5, MadeStays

\* A session that is made.
LEMMA MadeCreates ==
    ASSUME Base, NEW c, NEW s \in Sessions, CreateSession(c, s)
    PROVE  MadeInv'
<1>1. /\ status[s] = "new" /\ order' = Append(order, s) /\ active' = s /\ made' = s /\ Broadcast(FALSE)
      /\ UNCHANGED <<model, cmds, replies>>
  BY DEF CreateSession
<1>2. PICK st \in Statuses : status' = [status EXCEPT ![s] = st]
  BY DEF CreateSession
<1>3. s \notin Born /\ s # NoSession
  BY <1>1, SidebarAssumption DEF Born
<1>4. events \in Seq(EventsOf(Born)) /\ order \in Seq(Born) /\ status \in [Sessions -> AllStatuses]
  BY DEF Base, DaemonOk
<1>5. s \in ToSet(order') /\ status'[s] \in Statuses
  <2>1. status'[s] = st
    BY <1>2, <1>4
  <2>2. ToSet(order') = ToSet(order) \cup {s}
    BY <1>1, <1>4, MoreToSet
  <2> QED  BY <2>1, <2>2
<1> DEFINE e == Table(FALSE)
<1>6. Tells(e, s) /\ e.preview = FALSE
  BY <1>1, <1>5 DEF Table, Tells, Listed
<1>7. events' = Append(events, e)
  BY <1>1 DEF Broadcast
<1> HIDE DEF e
<1>8. \A x \in ToSet(events) : Older(x, s)
  <2> SUFFICES ASSUME NEW i \in 1 .. Len(events)
               PROVE  Older(events[i], s)
    BY <1>4, LenProperties DEF ToSet
  <2>1. events[i] \in EventsOf(Born)
    BY <1>4, ElementOfSeq
  <2>2. events[i].active \in Born \cup {NoSession} /\ events[i].order \in Seq(Born)
    BY <2>1 DEF EventsOf
  <2>3. \A x \in ToSet(events[i].order) : x \in Born
    BY <2>2, ElementOfSeq, LenProperties DEF ToSet
  <2> QED  BY <1>3, <2>2, <2>3 DEF Older
<1>9. ToSet(events') = ToSet(events) \cup {e}
  BY <1>4, <1>7, MoreToSet
<1>10. Unheard'
  <2>1. mactive \in Born \cup {NoSession} /\ anchored \in Born \cup {NoSession} /\ table.order \in Seq(Born)
    BY DEF Base, ModelOk, TablesOf
  <2>2. s \notin {mactive, anchored} /\ s \notin ToSet(table.order)
    <3>1. \A x \in ToSet(table.order) : x \in Born
      BY <2>1, ElementOfSeq, LenProperties DEF ToSet
    <3> QED  BY <1>3, <2>1, <3>1
  <2>3. \A x \in cmds : x.op = "preview" => x.session # s
    BY <1>3 DEF Base, CallsOk, CallOk
  <2>4. \A r \in replies : r.op = "preview" => r.session # s
    BY <1>3 DEF Base, CallsOk
  <2> QED  BY <1>1, <2>2, <2>3, <2>4 DEF Unheard, model
<1>11. Kind'
  BY <1>1, <1>5, <1>6, <1>8, <1>9 DEF Kind
<1>12. \A x \in ToSet(events') : Tells(x, s) => x.preview = FALSE
  BY <1>6, <1>8, <1>9 DEF Older, Tells
<1>13. Pending'
  BY <1>1, <1>6, <1>9, <1>10, <1>12 DEF Pending
<1> QED  BY <1>11, <1>13 DEF MadeInv

LEMMA MadeAnswers ==
    ASSUME Base, MadeInv, made # NoSession, NEW r \in replies, PreviewDone(r) \/ DeactivateDone(r)
    PROVE  MadeInv'
<1>1. /\ made' = made /\ UNCHANGED <<order, status, active, events, table, cursor>> /\ UNCHANGED shownBy
      /\ anchored' \in {anchored, NoSession} /\ replies' = replies \ {r}
      /\ cmds' \in {cmds, cmds \cup Focus(MainPane)}
  BY DEF PreviewDone, DeactivateDone, shownBy, daemon
<1>2. Kind'
  BY <1>1 DEF MadeInv, Kind
<1>4. CursorSession' = CursorSession
  BY <1>1 DEF CursorSession, items, shownBy
<1>5. CASE InView
  <2>1. InView'
    BY <1>1, <1>4, <1>5, InViewStays
  <2> QED  BY <1>2, <2>1 DEF MadeInv
<1>6. CASE Pending
  <2>2. Unheard
    BY <1>6 DEF Pending
  <2>3. mactive' # made
    <3>1. mactive' \in {mactive, NoSession} \/ (r.op = "preview" /\ mactive' = r.session)
      BY DEF PreviewDone, DeactivateDone
    <3> QED  BY <2>2, <3>1 DEF Unheard
  <2>4. anchored' # made
    BY <1>1, <2>2 DEF Unheard
  <2>5. \A c \in cmds' : c.op = "preview" => c.session # made
    <3>1. \A c \in Focus(MainPane) : c.op # "preview"
      BY DEF Focus
    <3> QED  BY <1>1, <2>2, <3>1 DEF Unheard
  <2>6. \A x \in replies' : x.op = "preview" => x.session # made
    BY <1>1, <2>2 DEF Unheard
  <2>7. Unheard'
    <3>1. made' = made /\ table' = table /\ made \notin ToSet(table.order)
      BY <1>1, <2>2 DEF Unheard
    <3> QED  BY <2>3, <2>4, <2>5, <2>6, <3>1 DEF Unheard
  <2>8. Pending'
    BY <1>1, <1>6, <2>7 DEF Pending
  <2> QED  BY <1>2, <2>8 DEF MadeInv
<1> QED  BY <1>5, <1>6 DEF MadeInv

LEMMA MadeLeaves ==
    ASSUME Base, MadeInv, made # NoSession, MouseLeave
    PROVE  MadeInv'
<1>1. /\ made' = made /\ UNCHANGED <<order, status, active, events, table, mactive, replies>> /\ UNCHANGED shownBy
      /\ anchored' \in {anchored, NoSession}
      /\ cmds' = cmds \/ cmds' = cmds \cup Preview(anchored)
  BY DEF MouseLeave, shownBy, daemon
<1>2. Kind'
  BY <1>1 DEF MadeInv, Kind
<1>3. TellsMore
  BY <1>1 DEF TellsMore
<1>4. items' = items
  BY <1>1, SameItems
<1>6. CASE InView
  <2>1. CursorSession = made => CursorSession' = made
    <3>1. cursor' = cursor \/ (anchored # NoSession /\ cursor' = CursorOf(items, anchored) /\ cursor' # 0)
      BY DEF MouseLeave
    <3>2. CASE cursor' = cursor
      BY <1>4, <3>2 DEF CursorSession
    <3>3. CASE anchored # NoSession /\ cursor' = CursorOf(items, anchored) /\ cursor' # 0
      <4>1. anchored = made
        BY <1>6, <3>3 DEF InView
      <4>2. items \in Seq(ItemsOf(Born))
        BY NamedNow
      <4>3. At(items, CursorOf(items, anchored)).session = anchored
        BY <3>3, <4>2, CursorOfIs
      <4> QED  BY <1>4, <3>3, <4>1, <4>3 DEF CursorSession
    <3> QED  BY <3>1, <3>2, <3>3
  <2>2. InView'
    BY <1>1, <1>6, <2>1, InViewStays
  <2> QED  BY <1>2, <2>2 DEF MadeInv
<1>7. CASE Pending /\ ~ InView
  <2>1. anchored # made
    BY <1>7 DEF Pending, Unheard
  <2>2. \A c \in Preview(anchored) : c.session # made
    BY <2>1 DEF Preview
  <2>3. Pending'
    BY <1>1, <1>3, <1>7, <2>2, PendingStays
  <2> QED  BY <1>2, <2>3 DEF MadeInv
<1> QED  BY <1>6, <1>7 DEF MadeInv


\* A table that tells of the session shows its workspace, and lists it if nothing
\* is filtered or folded away.
LEMMA Heard ==
    ASSUME Base, NEW n, HandleServerEvent(n), made \in Sessions, made # NoSession, Tells(Newest(n), made),
           (mactive # made /\ Newest(n).preview = FALSE) \/ ws = WorkspaceOf[ProjectOf[made]]
    PROVE  /\ ws' = WorkspaceOf[ProjectOf[made]]
           /\ filter = Statuses /\ folded = {} => CursorOf(NewItems(n), made) # 0
           /\ CursorOf(NewItems(n), made) # 0 => At(NewItems(n), CursorOf(NewItems(n), made)).session = made
<1> DEFINE W == WorkspaceOf[ProjectOf[made]]
<1>1. n \in DOMAIN events /\ ws' = NewWs(n)
  BY Handled
<1>2. NewTable(n) \in TablesOf(Born) /\ NewItems(n) \in Seq(ItemsOf(Born))
  BY <1>1, NewestIs
<1>3. Newest(n).active = made /\ made \in ToSet(NewTable(n).order) /\ NewTable(n).status[made] \in Statuses
  BY DEF Tells, Listed, NewTable
<1>4. FollowedWorkspace(Newest(n)) = W
  BY <1>3 DEF FollowedWorkspace
<1>5. W \in ToSet(CollectWorkspaces(NewTable(n)))
  BY <1>3, WorkspacesAre
<1>6. NewWs(n) = W
  BY <1>4, <1>5 DEF NewWs
<1> HIDE DEF W
<1>7. ASSUME filter = Statuses, folded = {}
      PROVE  CursorOf(NewItems(n), made) # 0
  <2>1. NewTable(n).status[made] \in filter /\ ProjectOf[made] \notin folded /\ NewWs(n) = WorkspaceOf[ProjectOf[made]]
    BY <1>3, <1>6, <1>7 DEF W
  <2>2. \E i \in DOMAIN NewItems(n) : NewItems(n)[i].session = made
    BY <1>2, <1>3, <2>1, BornSessions, ItemsAre DEF NewItems
  <2> QED  BY <1>2, <2>2, CursorOfIs
<1>8. CursorOf(NewItems(n), made) # 0 => At(NewItems(n), CursorOf(NewItems(n), made)).session = made
  BY <1>2, CursorOfIs
<1> QED  BY <1>1, <1>6, <1>7, <1>8 DEF W

LEMMA MadeHeard ==
    ASSUME Base, MadeInv, made # NoSession, NEW n, HandleServerEvent(n)
    PROVE  MadeInv'
<1>0. /\ n \in DOMAIN events /\ events' = RemoveAt(events, n) /\ made' = IF GoesBack(Newest(n)) THEN NoSession ELSE made
  BY Handled
<1> SUFFICES ASSUME ~ GoesBack(Newest(n)) PROVE MadeInv'
  BY <1>0 DEF MadeInv
<1>1. /\ n \in DOMAIN events /\ events' = RemoveAt(events, n) /\ items' = NewItems(n)
      /\ filter' = filter /\ folded' = folded /\ table' = NewTable(n)
      /\ UNCHANGED <<order, status, active, replies, made>>
  BY Handled
<1>2. /\ cursor' = IF IsNew(n) /\ CursorOf(NewItems(n), Newest(n).active) # 0 THEN CursorOf(NewItems(n), Newest(n).active)
                   ELSE IF Newest(n).active = NoSession /\ KnownActive(n) = NoSession THEN 0
                   ELSE RestoreCursor(At(items, cursor), NewItems(n))
      /\ mactive' = IF IsNew(n) THEN Newest(n).active ELSE KnownActive(n)
      /\ anchored' = IF IsNew(n) THEN Newest(n).active
                     ELSE IF Newest(n).active = NoSession /\ KnownActive(n) = NoSession THEN NoSession ELSE KnownAnchor(n)
      /\ cmds' = IF IsNew(n) /\ ~Newest(n).preview THEN cmds \cup Focus(MainPane) ELSE cmds
  BY Handled
<1>3. made \in Sessions /\ Kind
  BY MadeSession DEF MadeInv
<1>10. /\ Newest(n) \in ToSet(events) /\ ToSet(events') \subseteq ToSet(events)
       /\ ToSet(events) \subseteq ToSet(events') \cup {Newest(n)}
  <2>1. Newest(n) \in ToSet(events)
    BY <1>1 DEF Newest, ToSet
  <2> QED  BY <1>1, <2>1, NewestIs
<1>11. Kind'
  BY <1>1, <1>3, <1>10 DEF Kind
<1>12. Tells(Newest(n), made) \/ Older(Newest(n), made)
  BY <1>3, <1>10 DEF Kind
<1>4. events \in Seq(EventsOf(Born)) /\ NewItems(n) \in Seq(ItemsOf(Born)) /\ cursor \in Nat
  BY <1>1, NewestIs DEF Base, DaemonOk, ModelOk
<1>5. KnownActive(n) \in {NoSession, mactive} /\ KnownAnchor(n) \in {NoSession, anchored}
  BY DEF KnownActive, KnownAnchor
<1>6. CursorSession' = At(NewItems(n), cursor').session
  BY <1>1 DEF CursorSession
\* The table shows the session.
<1>7. ASSUME Tells(Newest(n), made),
             \/ InView
             \/ made \notin {mactive, anchored} /\ Newest(n).preview = FALSE
      PROVE  InView'
  <2>1. Newest(n).active = made
    BY <1>7 DEF Tells
  <2>2. (mactive # made /\ Newest(n).preview = FALSE) \/ ws = WorkspaceOf[ProjectOf[made]]
    BY <1>7 DEF InView
  <2>3. /\ ws' = WorkspaceOf[ProjectOf[made]]
        /\ filter = Statuses /\ folded = {} => CursorOf(NewItems(n), made) # 0
        /\ CursorOf(NewItems(n), made) # 0 => At(NewItems(n), CursorOf(NewItems(n), made)).session = made
    BY <1>3, <1>7, <2>2, Heard
  <2>4. anchored' \in {made, NoSession}
    <3>1. CASE IsNew(n)
      BY <1>2, <2>1, <3>1
    <3>2. CASE ~ IsNew(n)
      <4>1. KnownActive(n) = made
        BY <2>1, <3>2 DEF IsNew
      <4>2. mactive = made
        BY <1>5, <4>1
      <4>3. InView
        BY <1>7, <4>2
      <4>4. anchored' = KnownAnchor(n)
        BY <1>2, <2>1, <3>2
      <4> QED  BY <1>5, <4>3, <4>4 DEF InView
    <3> QED  BY <3>1, <3>2
  <2>5. ASSUME filter = Statuses, folded = {}
        PROVE  CursorSession' = made
    <3>1. CASE IsNew(n)
      <4>1. cursor' = CursorOf(NewItems(n), made)
        BY <1>2, <2>1, <2>3, <2>5, <3>1
      <4> QED  BY <1>6, <2>3, <2>5, <4>1
    <3>2. CASE ~ IsNew(n)
      <4>1. mactive = made
        BY <1>5, <2>1, <3>2 DEF IsNew
      <4>2. At(items, cursor).session = made
        BY <1>7, <2>5, <4>1 DEF InView, CursorSession
      <4>3. cursor' = RestoreCursor(At(items, cursor), NewItems(n))
        BY <1>2, <2>1, <3>2
      <4>4. At(NewItems(n), RestoreCursor(At(items, cursor), NewItems(n))).session = made
        <5>1. CursorOf(NewItems(n), made) # 0
          BY <2>3, <2>5
        <5> QED  BY <1>4, <4>2, <5>1, RestoreCursorIs
      <4> QED  BY <1>6, <4>3, <4>4
    <3> QED  BY <3>1, <3>2
  <2>6. made \in ToSet(table'.order)
    BY <1>1, <1>7 DEF Tells, Listed, NewTable
  <2>7. filter' = filter /\ folded' = folded /\ made' = made
    BY <1>1
  <2>8. filter' = Statuses /\ folded' = {} => CursorSession' = made'
    BY <2>5, <2>7
  <2> QED  BY <2>3, <2>4, <2>6, <2>7, <2>8 DEF InView
<1>8. CASE Tells(Newest(n), made)
  <2>1. InView \/ (made \notin {mactive, anchored} /\ Newest(n).preview = FALSE)
    <3>1. Pending \/ InView
      BY DEF MadeInv
    <3>2. ASSUME Pending PROVE made \notin {mactive, anchored}
      BY <3>2 DEF Pending, Unheard
    <3>3. ASSUME Pending PROVE Newest(n).preview = FALSE
      <4> DEFINE x == Newest(n)
      <4>1. x \in ToSet(events) /\ Tells(x, made)
        BY <1>8, <1>10
      <4> HIDE DEF x
      <4>2. x.preview = FALSE
        BY <3>3, <4>1 DEF Pending
      <4> QED  BY <4>2 DEF x
    <3>4. CASE Pending
      BY <3>2, <3>3, <3>4
    <3>5. CASE InView
      BY <3>5
    <3> QED  BY <3>1, <3>4, <3>5
  <2>2. InView'
    BY <1>7, <1>8, <2>1
  <2> QED  BY <1>11, <2>2 DEF MadeInv
<1>9. CASE Older(Newest(n), made)
  <2>1. made \notin ToSet(table.order)
    BY <1>9 DEF GoesBack, Older
  <2>2. Pending
    BY <2>1 DEF MadeInv, InView
  <2>3. Newest(n).active # made /\ ~ Tells(Newest(n), made)
    BY <1>9 DEF Older, Tells
  <2>4. mactive' # made /\ anchored' # made
    BY <1>2, <1>5, <2>2, <2>3 DEF Pending, Unheard
  <2>5. \A c \in cmds' : c.op = "preview" => c.session # made
    <3>1. \A c \in Focus(MainPane) : c.op # "preview"
      BY DEF Focus
    <3> QED  BY <1>2, <2>2, <3>1 DEF Pending, Unheard
  <2>6. made \notin ToSet(table'.order)
    BY <1>1, <1>9 DEF Older, NewTable
  <2>7. Unheard'
    BY <1>1, <2>2, <2>4, <2>5, <2>6 DEF Pending, Unheard
  <2>8. \E e \in ToSet(events') : Tells(e, made)
    BY <1>10, <2>2, <2>3 DEF Pending
  <2>9. Pending'
    BY <1>1, <1>10, <2>2, <2>7, <2>8 DEF Pending
  <2> QED  BY <1>11, <2>9 DEF MadeInv
<1> QED  BY <1>8, <1>9, <1>12

LEMMA MadeInit == Init => MadeInv
  BY DEF Init, MadeInv

\* What the user does in the sidebar, or to it, ends it.
LEMMA UserEnds ==
    ASSUME \/ Panics \/ PrefixKey
           \/ \E by \in {"up", "down"} : MoveCursor(by)
           \/ Enter \/ StopKey \/ Toggle \/ Filter(ToggledAll) \/ ClickTitle
           \/ \E b \in BOOLEAN : New(b) \/ Wheel(b)
           \/ \E st \in Statuses : Filter(ToggledFilter(st))
           \/ \E by \in {"next", "prev", "reset"} : WorkspaceKey(by)
           \/ \E i \in 0 .. Len(items), edge \in BOOLEAN : MouseMotion(i, edge)
           \/ \E i \in DOMAIN items : ClickItem(i)
           \/ \E w \in ToSet(Workspaces) : ClickWorkspace(w)
    PROVE  made' = NoSession
<1>1. Press => made' = NoSession
  BY DEF Press
<1>2. CASE Panics \/ PrefixKey
  BY <1>2 DEF Panics, PrefixKey
<1>3. CASE \/ \E by \in {"up", "down"} : MoveCursor(by)
           \/ Enter \/ StopKey \/ Toggle \/ Filter(ToggledAll) \/ ClickTitle
           \/ \E st \in Statuses : Filter(ToggledFilter(st))
  <2>1. Press
    BY <1>3, Zenon DEF MoveCursor, Enter, StopKey, Toggle, Filter, ClickTitle, Key
  <2> QED  BY <1>1, <2>1
<1>4. CASE \/ \E b \in BOOLEAN : New(b) \/ Wheel(b)
           \/ \E by \in {"next", "prev", "reset"} : WorkspaceKey(by)
           \/ \E i \in 0 .. Len(items), edge \in BOOLEAN : MouseMotion(i, edge)
           \/ \E i \in DOMAIN items : ClickItem(i)
           \/ \E w \in ToSet(Workspaces) : ClickWorkspace(w)
  <2>1. Press
    BY <1>4, Zenon DEF New, Wheel, WorkspaceKey, MouseMotion, ClickItem, ClickWorkspace, Key
  <2> QED  BY <1>1, <2>1
<1> QED  BY <1>2, <1>3, <1>4, Zenon

LEMMA MadeOthers ==
    ASSUME Base, MadeInv, Others
    PROVE  MadeInv'
<1>1. CASE made' = NoSession
  BY <1>1 DEF MadeInv
<1>2. CASE \E c \in asked : \E s \in Sessions : CreateSession(c, s)
  BY <1>2, MadeCreates
<1>3. ASSUME KeepMade \/ made' = made, made = NoSession
      PROVE  MadeInv'
  BY <1>1, <1>3 DEF KeepMade
<1>4. CASE \E c \in cmds : PreviewSession(c)
  <2>1. KeepMade
    BY <1>4 DEF PreviewSession
  <2> QED  BY <1>3, <1>4, <2>1, MadePreview
<1>5. CASE \E c \in cmds : PreviewProject(c)
  <2>1. KeepMade /\ active' = NoSession
    BY <1>5 DEF PreviewProject
  <2> QED  BY <1>1, <2>1 DEF KeepMade
<1>6. CASE \/ \E c \in cmds : FocusPane(c) \/ DisplayPopup(c)
           \/ KeyInPopup \/ PopupStarts \/ \E c \in asked : OtherCommand(c)
  <2>1. made' = made
    BY <1>6 DEF FocusPane, DisplayPopup, KeyInPopup, PopupStarts, OtherCommand
  <2> QED  BY <1>3, <1>6, <2>1, MadeCommands
<1>7. CASE \E c \in asked : StopSession(c)
  <2>1. PICK c \in asked : StopSession(c)
    BY <1>7
  <2>2. KeepMade /\ UNCHANGED <<model, cmds, replies>> /\ c.session \in ToSet(order) /\ Removed(c.session)
    BY <2>1 DEF StopSession
  <2> QED  BY <1>3, <2>2, MadeLives
<1>8. CASE \E s \in Sessions : SessionChanges(s)
  <2>1. PICK s \in Sessions : SessionChanges(s)
    BY <1>8
  <2>2. /\ KeepMade /\ UNCHANGED <<model, cmds, replies>> /\ s \in ToSet(order)
        /\ Removed(s) \/ ((\E st \in Statuses : status' = [status EXCEPT ![s] = st])
                            /\ UNCHANGED <<order, active>> /\ Broadcast(FALSE))
    BY <2>1 DEF SessionChanges
  <2> QED  BY <1>3, <2>2, MadeLives
<1>9. CASE \E r \in replies : PreviewDone(r) \/ DeactivateDone(r)
  <2>1. made' = made
    BY <1>9 DEF PreviewDone, DeactivateDone
  <2> QED  BY <1>3, <1>9, <2>1, MadeAnswers
<1>10. CASE MouseLeave
  <2>1. made' = made
    BY <1>10 DEF MouseLeave
  <2> QED  BY <1>3, <1>10, <2>1, MadeLeaves
<1> QED  BY <1>1, <1>2, <1>4, <1>5, <1>6, <1>7, <1>8, <1>9, <1>10, UserEnds, Zenon DEF Others

LEMMA MadeStep == ASSUME Base, MadeInv, [Next]_vars PROVE MadeInv'
<1>1. ASSUME NEW n \in 1 .. Listeners, HandleServerEvent(n)
      PROVE  MadeInv'
  <2>1. made' \in {made, NoSession}
    BY <1>1, Handled
  <2>2. CASE made = NoSession
    BY <2>1, <2>2 DEF MadeInv
  <2> QED  BY <1>1, <2>2, MadeHeard
<1>2. CASE Others
  BY <1>2, MadeOthers
<1>3. CASE UNCHANGED vars
  <2>1. UNCHANGED <<made, order, status, active, events, model, cmds, replies, focus>>
    BY <1>3 DEF vars, daemon
  <2>2. CASE made = NoSession
    BY <2>1, <2>2 DEF MadeInv
  <2>3. CASE made # NoSession
    <3>1. Kind'
      BY <2>1, <2>3 DEF MadeInv, Kind
    <3>2. TellsMore
      BY <2>1 DEF TellsMore
    <3> QED  BY <2>1, <3>1, <3>2, MadeStays
  <2> QED  BY <2>2, <2>3
<1> QED  BY <1>1, <1>2, <1>3, Steps

\* A session that was made is still to be told of, by a table that takes the view
\* there, or it is in view; and every table on its way has it as the active one
\* or is older than it, so that only an older one handled late, which ends what is
\* said of the session, takes the view from it.
THEOREM MadeTheorem == Spec => []MadeInv
<1>1. Base /\ MadeInv /\ [Next]_vars => MadeInv'
  BY MadeStep
<1> QED  BY MadeInit, BaseTheorem, <1>1, PTL DEF Spec

\* Once all is handled, a session that was made, and has been the active one since,
\* is where the user is, in whatever order two listeners hand the tables over as long
\* as none older than the session comes after one with it (handleServerEvent).
THEOREM NewTheorem == Spec => []NewIsShown
<1>1. Base /\ MadeInv => NewIsShown
  <2> SUFFICES ASSUME Base, MadeInv, Quiet, made # NoSession, filter = Statuses, folded = {}
               PROVE  ws = WorkspaceOf[ProjectOf[made]] /\ CursorSession = made
    BY DEF NewIsShown
  <2>1. events = <<>> /\ cmds = {}
    BY DEF Quiet
  <2>2. ~ Pending
    BY <2>1 DEF Pending, ToSet
  <2>3. InView
    BY <2>2 DEF MadeInv
  <2> QED  BY <2>3 DEF InView
<1> QED  BY BaseTheorem, MadeTheorem, <1>1, PTL

=============================================================================
