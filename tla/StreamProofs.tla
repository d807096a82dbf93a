----------------------------- MODULE StreamProofs -----------------------------
(***************************************************************************)
(* Proofs about modules Taps and Relay: what the daemon reads from a file  *)
(* that grows is passed on whole, once and in order, however it is cut.    *)
(*                                                                         *)
(* Taps: every token of a pane's output has a place, the notification it   *)
(* is of and where in it.  The places of what a file has, and of what its  *)
(* cat has still to write, make a chain; the files of a pane go on from    *)
(* one another; a parser has what follows from the places it has read.     *)
(*                                                                         *)
(* Relay: the offset of an entry moves only after a piece is sent, and the *)
(* piece was cut without the lock.  That no line is sent twice needs that  *)
(* no entry begins anew while its piece is on its way: the files of a      *)
(* session are followed once, and never after it is gone.                  *)
(***************************************************************************)
EXTENDS Taps, FileRelay, Lists

-----------------------------------------------------------------------------
(* Folding the parser over a chunk *)

LEMMA MaxTop ==
    ASSUME NEW k \in Nat, NEW s \in SUBSET (1 .. k + 1), k + 1 \in s
    PROVE  Max(s) = k + 1
<1>1. \A y \in s : k + 1 >= y
  OBVIOUS
<1>2. \A x \in s : (\A y \in s : x >= y) => x = k + 1
  OBVIOUS
<1> QED  BY <1>1, <1>2 DEF Max

\* The parser goes token by token.
Folds(f, p, data) ==
    /\ f[0] = p
    /\ \A k \in 1 .. Len(data) : f[k] = Fed(f[k - 1], data[k])

LEMMA FoldSteps ==
    ASSUME NEW E, NEW data \in Seq(E), NEW p
    PROVE  \E f : Folds(f, p, data) /\ f[Len(data)] = FoldLeft(Fed, p, data)
<1> DEFINE N == Len(data)
           D == 1 .. N
           Step(it, s) == IF s = {} THEN p ELSE Fed(it[s \ {Max(s)}], data[Max(s)])
           Iter(it, k) == it = [s \in SUBSET (1 .. k) |-> Step(it, s)]
           S == {k \in Nat : \E it : Iter(it, k)}
<1>1. N \in Nat /\ DOMAIN data = D
  BY LenProperties
<1>2. 0 \in S
  <2> DEFINE it == [s \in SUBSET (1 .. 0) |-> p]
  <2>1. \A s \in SUBSET (1 .. 0) : s = {}
    OBVIOUS
  <2>2. Iter(it, 0)
    BY <2>1
  <2> QED  BY <2>2
<1>3. ASSUME NEW k \in Nat, k \in S
      PROVE  k + 1 \in S
  <2>1. PICK it : Iter(it, k)
    BY <1>3
  <2> DEFINE new == [s \in SUBSET (1 .. k + 1) |->
                       IF k + 1 \in s THEN Fed(it[s \ {k + 1}], data[k + 1]) ELSE it[s]]
  <2>2. \A s \in SUBSET (1 .. k + 1) : k + 1 \notin s => s \in SUBSET (1 .. k)
    OBVIOUS
  <2>3. \A s \in SUBSET (1 .. k) : s \in SUBSET (1 .. k + 1) /\ k + 1 \notin s
    OBVIOUS
  <2>4. \A s \in SUBSET (1 .. k) : new[s] = it[s]
    BY <2>3
  <2>5. ASSUME NEW s \in SUBSET (1 .. k + 1)
        PROVE  new[s] = Step(new, s)
    <3>1. CASE k + 1 \in s
      <4>1. Max(s) = k + 1
        BY <3>1, MaxTop
      <4>2. s \ {k + 1} \in SUBSET (1 .. k)
        BY <2>2
      <4>3. new[s] = Fed(it[s \ {k + 1}], data[k + 1])
        BY <3>1
      <4>4. new[s \ {k + 1}] = it[s \ {k + 1}]
        BY <2>4, <4>2
      <4> HIDE DEF new
      <4> QED  BY <3>1, <4>1, <4>3, <4>4
    <3>2. CASE k + 1 \notin s
      <4>1. s \in SUBSET (1 .. k)
        BY <2>2, <3>2
      <4>2. new[s] = it[s]
        BY <3>2
      <4>3. it[s] = Step(it, s)
        BY <2>1, <4>1
      <4>4. new[s \ {Max(s)}] = it[s \ {Max(s)}]
        <5>1. s \ {Max(s)} \in SUBSET (1 .. k)
          BY <4>1
        <5> HIDE DEF new
        <5> QED  BY <2>4, <5>1
      <4> HIDE DEF new
      <4> QED  BY <4>2, <4>3, <4>4
    <3> QED  BY <3>1, <3>2
  <2>6. Iter(new, k + 1)
    <3>1. new = [s \in SUBSET (1 .. k + 1) |-> new[s]]
      OBVIOUS
    <3> HIDE DEF new, Step
    <3> QED  BY <2>5, <3>1
  <2>7. \E x : Iter(x, k + 1)
    <3> HIDE DEF Iter, new
    <3> QED  BY <2>6
  <2> HIDE DEF Iter, new
  <2> QED  BY <2>7
<1>4. Nat \subseteq S
  <2> HIDE DEF S
  <2> QED  BY <1>2, <1>3, Induction
<1>5. \E it : Iter(it, N)
  BY <1>1, <1>4
<1> DEFINE h == CHOOSE it : Iter(it, N)
<1>6. Iter(h, N)
  <2> HIDE DEF Iter
  <2> QED  BY <1>5
<1>7. FoldLeft(Fed, p, data) = h[D]
  BY <1>1 DEF FoldLeft, MapThenFoldSet
<1> DEFINE f == [k \in 0 .. N |-> h[1 .. k]]
<1> HIDE DEF h
<1>8. \A s \in SUBSET D : h[s] = Step(h, s)
  BY <1>6
<1>9. f[0] = p
  <2>1. 1 .. 0 = {} /\ {} \in SUBSET D
    OBVIOUS
  <2>2. f[0] = h[{}]
    BY <1>1, <2>1
  <2> QED  BY <1>8, <2>1, <2>2
<1>10. ASSUME NEW k \in 1 .. N
       PROVE  f[k] = Fed(f[k - 1], data[k])
  <2>1. k \in Nat /\ k - 1 \in Nat /\ k = (k - 1) + 1 /\ k \in 1 .. k /\ 1 .. k \in SUBSET D
    BY <1>1
  <2>2. (1 .. k) \ {k} = 1 .. k - 1
    BY <2>1
  <2>3. Max(1 .. k) = k
    BY <2>1, MaxTop
  <2>4. f[k] = h[1 .. k] /\ f[k - 1] = h[1 .. k - 1]
    BY <1>1
  <2>5. h[1 .. k] = Step(h, 1 .. k)
    BY <1>8, <2>1
  <2>6. 1 .. k # {}
    BY <2>1
  <2> HIDE DEF f
  <2> QED  BY <2>2, <2>3, <2>4, <2>5, <2>6
<1>11. f[N] = FoldLeft(Fed, p, data)
  BY <1>1, <1>7
<1> HIDE DEF f, N
<1> QED  BY <1>9, <1>10, <1>11 DEF Folds, N

-----------------------------------------------------------------------------
(* What a program prints *)

\* Every token has a place: the notification it is of, and where in it.
Place == (Nat \ {0}) \X (1 .. 6)
Ends(n) == IF (n - 1) % 2 = 0 THEN 6 ELSE 5
Final(m) == m[2] = Ends(m[1])
Follows(a, b) == IF Final(a) THEN b[2] = 1 /\ b[1] > a[1] ELSE b[1] = a[1] /\ b[2] = a[2] + 1

Title(n) == [k |-> "title", n |-> n]
Body(n) == [k |-> "body", n |-> n]
Closing(n) == IF (n - 1) % 2 = 0 THEN Esc ELSE Bel
Token(m) == IF m[2] = 1 THEN Esc ELSE IF m[2] = 2 THEN Open ELSE IF m[2] = 3 THEN Title(m[1])
            ELSE IF m[2] = 4 THEN Body(m[1]) ELSE IF m[2] = 5 THEN Closing(m[1]) ELSE Back

Kinds == {"esc", "open", "bel", "back", "title", "body"}
Symbol == [k : Kinds, n : Nat]

\* The places of whole notifications, one after the other, of which the last may be
\* cut off.
Chain(l) ==
    /\ l \in Seq(Place)
    /\ l # <<>> => l[1][2] = 1
    /\ \A i \in 1 .. Len(l) : l[i][2] <= Ends(l[i][1])
    /\ \A i, j \in 1 .. Len(l) : j = i + 1 => Follows(l[i], l[j])

\* The notifications that are over at place r.
Done(l, r) == IF r = 0 THEN 0 ELSE IF Final(l[r]) THEN l[r][1] ELSE l[r][1] - 1

LEMMA PlaceIs ==
    ASSUME NEW m \in Place
    PROVE  m[1] \in Nat /\ m[1] # 0 /\ m[2] \in 1 .. 6 /\ Ends(m[1]) \in 5 .. 6 /\ m = <<m[1], m[2]>>
  BY DEF Place, Ends

LEMMA ChainIs ==
    ASSUME NEW l, Chain(l)
    PROVE  /\ Len(l) \in Nat
           /\ \A i \in 1 .. Len(l) : l[i] \in Place
  BY ElementOfSeq, LenProperties DEF Chain

LEMMA DoneStep ==
    ASSUME NEW l, Chain(l), NEW r \in 1 .. Len(l)
    PROVE  /\ Done(l, r - 1) \in Nat /\ Done(l, r) \in Nat /\ Done(l, r - 1) <= Done(l, r)
           /\ Final(l[r]) => Done(l, r - 1) < l[r][1] /\ Done(l, r) = l[r][1]
<1>1. /\ Len(l) \in Nat /\ l[r] \in Place /\ l[r][1] \in Nat /\ l[r][1] # 0 /\ l[r][2] \in 1 .. 6
      /\ Ends(l[r][1]) \in 5 .. 6
  BY ChainIs, PlaceIs
<1>2. CASE r = 1
  BY <1>1, <1>2 DEF Done
<1>3. CASE r # 1
  <2>1. /\ r - 1 \in 1 .. Len(l) /\ r = (r - 1) + 1 /\ r - 1 # 0 /\ r # 0
        /\ l[r - 1] \in Place
    BY <1>1, <1>3, ChainIs
  <2>2. l[r - 1][1] \in Nat /\ l[r - 1][1] # 0
    BY <2>1, PlaceIs
  <2>3. Follows(l[r - 1], l[r])
    BY <2>1 DEF Chain
  <2> QED  BY <1>1, <2>1, <2>2, <2>3 DEF Done, Follows, Final
<1> QED  BY <1>2, <1>3

\* The notifications that are over do not become fewer.
LEMMA DoneMore ==
    ASSUME NEW l, Chain(l), NEW r \in 0 .. Len(l), NEW q \in 0 .. Len(l), r <= q
    PROVE  Done(l, r) \in Nat /\ Done(l, q) \in Nat /\ Done(l, r) <= Done(l, q)
<1> DEFINE S == {k \in Nat : k <= Len(l) => Done(l, k) \in Nat /\ (r <= k => Done(l, r) <= Done(l, k))}
<1>0. Len(l) \in Nat
  BY ChainIs
<1>1. 0 \in S
  BY DEF Done
<1>2. ASSUME NEW k \in Nat, k \in S
      PROVE  k + 1 \in S
  <2> SUFFICES ASSUME k + 1 <= Len(l)
               PROVE  Done(l, k + 1) \in Nat /\ (r <= k + 1 => Done(l, r) <= Done(l, k + 1))
    OBVIOUS
  <2>1. k + 1 \in 1 .. Len(l) /\ (k + 1) - 1 = k
    BY <1>0
  <2>2. Done(l, k) \in Nat /\ Done(l, k + 1) \in Nat /\ Done(l, k) <= Done(l, k + 1)
    BY <2>1, DoneStep
  <2>3. r <= k => Done(l, r) <= Done(l, k)
    BY <1>0, <1>2, <2>1
  <2>4. CASE r = k + 1
    BY <2>2, <2>4
  <2>5. CASE r # k + 1
    <3>1. r <= k + 1 => r <= k
      BY <2>5
    <3>2. Done(l, r) \in Nat \/ ~ (r <= k)
      <4>1. CASE r = 0
        BY <4>1 DEF Done
      <4>2. CASE r # 0
        BY <4>2, DoneStep
      <4> QED  BY <4>1, <4>2
    <3> QED  BY <2>2, <2>3, <3>1, <3>2
  <2> QED  BY <2>4, <2>5
<1>3. Nat \subseteq S
  <2> HIDE DEF S
  <2> QED  BY <1>1, <1>2, Induction
<1>4. Done(l, r) \in Nat
  BY <1>0, <1>3
<1>5. Done(l, q) \in Nat /\ Done(l, r) <= Done(l, q)
  <2>1. q \in S /\ q <= Len(l)
    BY <1>0, <1>3
  <2> QED  BY <2>1
<1> QED  BY <1>4, <1>5

-----------------------------------------------------------------------------
(* The parser *)

IsParser(p) == p \in [buf : Seq(Symbol), osc : BOOLEAN, out : Seq(Seq(Symbol))]

\* What a parser has of a sequence it has read up to place m.
Fit(buf, osc, m) ==
    LET n == m[1] IN
    /\ Final(m) => ~osc /\ buf = <<>>
    /\ m[2] = 1 => ~osc /\ buf = <<Esc>>
    /\ m[2] = 2 => osc /\ buf = <<>>
    /\ m[2] = 3 => osc /\ buf = <<Title(n)>>
    /\ m[2] = 4 => (osc /\ buf = Payload(n)) \/ (~osc /\ buf = <<>>)
    /\ m[2] = 5 /\ ~Final(m) =>
           (osc /\ buf = Append(Payload(n), Esc)) \/ (~osc /\ buf \in {<<>>, <<Esc>>})

FitsAt(p, m) == Fit(p.buf, p.osc, m)
Fits(p, l, r) == IF r = 0 THEN ~p.osc /\ p.buf = <<>> ELSE FitsAt(p, l[r])

Made(buf, osc, out) == [buf |-> buf, osc |-> osc, out |-> out]

LEMMA FedIs ==
    ASSUME NEW p, IsParser(p), NEW b
    PROVE  LET st == b = Back /\ p.buf # <<>> /\ Last(p.buf) = Esc IN
           /\ ~p.osc /\ b = Esc => Fed(p, b) = Made(<<Esc>>, FALSE, p.out)
           /\ p.buf = <<Esc>> /\ b = Open => Fed(p, b) = Made(<<>>, TRUE, p.out)
           /\ p.osc /\ b = Bel => Fed(p, b) = Made(<<>>, FALSE, Noticed(p.out, p.buf))
           /\ p.osc /\ st => Fed(p, b) = Made(<<>>, FALSE, Noticed(p.out, Front(p.buf)))
           /\ p.osc /\ p.buf # <<Esc>> /\ b # Bel /\ ~st =>
                 Fed(p, b) = IF Len(p.buf) < MaxOsc THEN Made(Append(p.buf, b), TRUE, p.out)
                             ELSE Made(<<>>, FALSE, p.out)
           /\ ~p.osc /\ b # Esc /\ b # Open => Fed(p, b) = Made(<<>>, FALSE, p.out)
<1> DEFINE st == b = Back /\ p.buf # <<>> /\ Last(p.buf) = Esc
<1>1. Esc # Open /\ Esc # Bel /\ Esc # Back /\ Open # Bel /\ Open # Back /\ Bel # Back
  BY DEF Esc, Open, Bel, Back
<1>2. /\ [p EXCEPT !.buf = <<Esc>>] = Made(<<Esc>>, p.osc, p.out)
      /\ [p EXCEPT !.buf = <<>>, !.osc = TRUE] = Made(<<>>, TRUE, p.out)
      /\ [p EXCEPT !.buf = Append(@, b)] = Made(Append(p.buf, b), p.osc, p.out)
      /\ [p EXCEPT !.buf = <<>>, !.osc = FALSE] = Made(<<>>, FALSE, p.out)
  <2>1. \A x : [p EXCEPT !.buf = x] = Made(x, p.osc, p.out)
    BY DEF IsParser, Made
  <2>2. \A x, y : [p EXCEPT !.buf = x, !.osc = y] = Made(x, y, p.out)
    <3> TAKE x, y
    <3> DEFINE q == [p EXCEPT !.buf = x]
    <3>1. q = [buf |-> x, osc |-> p.osc, out |-> p.out]
      BY DEF IsParser
    <3>2. [p EXCEPT !.buf = x, !.osc = y] = [q EXCEPT !.osc = y]
      OBVIOUS
    <3> HIDE DEF q
    <3>3. [q EXCEPT !.osc = y] = Made(x, y, p.out)
      BY <3>1 DEF Made
    <3> QED  BY <3>2, <3>3
  <2>3. [p EXCEPT !.buf = <<Esc>>] = Made(<<Esc>>, p.osc, p.out)
    BY <2>1, Zenon
  <2>4. [p EXCEPT !.buf = Append(@, b)] = Made(Append(p.buf, b), p.osc, p.out)
    BY <2>1, Zenon
  <2>5. [p EXCEPT !.buf = <<>>, !.osc = TRUE] = Made(<<>>, TRUE, p.out)
    BY <2>2, Zenon
  <2>6. [p EXCEPT !.buf = <<>>, !.osc = FALSE] = Made(<<>>, FALSE, p.out)
    BY <2>2, Zenon
  <2> QED  BY <2>3, <2>4, <2>5, <2>6
<1>3. p.osc \in BOOLEAN
  BY DEF IsParser
<1> DEFINE f == Fed(p, b)
<1>4. CASE ~p.osc /\ b = Esc
  <2>1. f = [p EXCEPT !.buf = <<Esc>>]
    BY <1>1, <1>4 DEF Fed
  <2>2. ~st
    BY <1>1, <1>4
  <2> HIDE DEF f
  <2> QED  BY <1>1, <1>2, <1>3, <1>4, <2>1, <2>2 DEF f
<1>5. CASE p.buf = <<Esc>> /\ b = Open
  <2>1. f = [p EXCEPT !.buf = <<>>, !.osc = TRUE]
    BY <1>1, <1>5 DEF Fed
  <2> HIDE DEF f
  <2> QED  BY <1>1, <1>2, <1>3, <1>5, <2>1 DEF f
<1>6. CASE p.osc /\ (b = Bel \/ st)
  <2>1. f = [buf |-> <<>>, osc |-> FALSE, out |-> Noticed(p.out, IF st THEN Front(p.buf) ELSE p.buf)]
    BY <1>1, <1>6 DEF Fed
  <2> HIDE DEF f
  <2> QED  BY <1>1, <1>2, <1>3, <1>6, <2>1 DEF f, Made
<1>7. CASE /\ ~ (~p.osc /\ b = Esc) /\ ~ (p.buf = <<Esc>> /\ b = Open)
           /\ ~ (p.osc /\ (b = Bel \/ st))
  <2>1. f = IF p.osc /\ Len(p.buf) < MaxOsc THEN [p EXCEPT !.buf = Append(@, b)]
            ELSE [p EXCEPT !.buf = <<>>, !.osc = FALSE]
    BY <1>7 DEF Fed
  <2> HIDE DEF f
  <2> QED  BY <1>1, <1>2, <1>3, <1>7, <2>1 DEF f
<1> QED  BY <1>4, <1>5, <1>6, <1>7

\* The place before place r.
LEMMA Before ==
    ASSUME NEW l, Chain(l), NEW r \in 1 .. Len(l)
    PROVE  /\ l[r][2] = 1 => r = 1 \/ (r # 1 /\ Final(l[r - 1]))
           /\ l[r][2] # 1 => /\ r # 1 /\ r - 1 \in 1 .. Len(l) /\ ~Final(l[r - 1])
                            /\ l[r - 1][1] = l[r][1] /\ l[r - 1][2] = l[r][2] - 1
<1>1. Len(l) \in Nat /\ l[r] \in Place /\ l[r][1] \in Nat /\ l[r][2] \in 1 .. 6
  BY ChainIs, PlaceIs
<1>2. CASE r = 1
  <2>1. l[1][2] = 1
    BY <1>1, <1>2 DEF Chain
  <2> QED  BY <1>2, <2>1
<1>3. CASE r # 1
  <2>1. /\ r - 1 \in 1 .. Len(l) /\ r = (r - 1) + 1 /\ l[r - 1] \in Place
    BY <1>1, <1>3, ChainIs
  <2>2. l[r - 1][2] \in 1 .. 6
    BY <2>1, PlaceIs
  <2>3. Follows(l[r - 1], l[r])
    BY <2>1 DEF Chain
  <2> QED  BY <1>1, <1>3, <2>1, <2>2, <2>3 DEF Follows
<1> QED  BY <1>2, <1>3

LEMMA Symbols ==
    ASSUME NEW n \in Nat \ {0}
    PROVE  /\ {Esc, Open, Bel, Back, Title(n), Body(n)} \subseteq Symbol
           /\ Title(n) # Esc /\ Title(n) # Open /\ Title(n) # Bel /\ Title(n) # Back
           /\ Body(n) # Esc /\ Body(n) # Open /\ Body(n) # Bel /\ Body(n) # Back
           /\ Esc # Open /\ Esc # Bel /\ Esc # Back /\ Open # Bel /\ Open # Back /\ Bel # Back
           /\ Payload(n) = <<Title(n), Body(n)>>
<1>1. {Esc, Open, Bel, Back, Title(n), Body(n)} \subseteq Symbol
  <2>2. Esc \in Symbol /\ Open \in Symbol /\ Bel \in Symbol /\ Back \in Symbol
    BY DEF Symbol, Kinds, Esc, Open, Bel, Back
  <2>3. Title(n) \in Symbol /\ Body(n) \in Symbol
    BY DEF Symbol, Kinds, Title, Body
  <2> QED  BY <2>2, <2>3
<1>2. /\ Esc.k = "esc" /\ Open.k = "open" /\ Bel.k = "bel" /\ Back.k = "back"
      /\ Title(n).k = "title" /\ Body(n).k = "body"
  BY DEF Esc, Open, Bel, Back, Title, Body
<1>3. Payload(n) = <<Title(n), Body(n)>>
  BY DEF Payload, Title, Body
<1> QED  BY <1>1, <1>2, <1>3

LEMMA Pair ==
    ASSUME NEW E, NEW x \in E, NEW y \in E, NEW s \in Seq(E), Len(s) = 2, s[1] = x, s[2] = y
    PROVE  s = <<x, y>>
<1>1. <<x, y>> \in Seq(E) /\ Len(<<x, y>>) = 2 /\ <<x, y>>[1] = x /\ <<x, y>>[2] = y
  OBVIOUS
<1> QED  BY <1>1, SeqEqual

LEMMA Short ==
    ASSUME NEW E, NEW x \in E, NEW y \in E, NEW z \in E
    PROVE  /\ Append(<<x>>, y) = <<x, y>>
           /\ \A s : s = Append(<<x, y>>, z) => s # <<>> /\ Last(s) = z /\ Front(s) = <<x, y>>
<1>1. Append(<<x>>, y) = <<x, y>>
  <2>1. <<x>> \in Seq(E) /\ Len(<<x>>) = 1 /\ <<x>>[1] = x
    OBVIOUS
  <2>2. /\ Append(<<x>>, y) \in Seq(E) /\ Len(Append(<<x>>, y)) = 2
        /\ Append(<<x>>, y)[1] = x /\ Append(<<x>>, y)[2] = y
    BY <2>1, AppendProperties
  <2> QED  BY <2>2, Pair
<1>2. ASSUME NEW s, s = Append(<<x, y>>, z)
      PROVE  s # <<>> /\ Last(s) = z /\ Front(s) = <<x, y>>
  <2>0. <<x, y>> \in Seq(E) /\ Len(<<x, y>>) = 2 /\ <<x, y>>[1] = x /\ <<x, y>>[2] = y
    OBVIOUS
  <2>1. s \in Seq(E) /\ Len(s) = 3 /\ s[1] = x /\ s[2] = y /\ s[3] = z
    BY <1>2, <2>0, AppendProperties
  <2>2. /\ SubSeq(s, 1, 2) \in Seq(E) /\ Len(SubSeq(s, 1, 2)) = 2
        /\ SubSeq(s, 1, 2)[1] = x /\ SubSeq(s, 1, 2)[2] = y
    BY <2>1
  <2>3. SubSeq(s, 1, 2) = <<x, y>>
    BY <2>2, Pair
  <2>4. Len(s) - 1 = 2 /\ s # <<>>
    <3>1. s # <<>>
      BY <1>2, <2>0, AppendProperties
    <3> QED  BY <2>1, <3>1
  <2>5. Last(s) = z
    BY <2>1 DEF Last
  <2>6. Front(s) = <<x, y>>
    BY <2>3, <2>4 DEF Front
  <2> QED  BY <2>4, <2>5, <2>6
<1> QED  BY <1>1, <1>2

\* A parser that fits goes on to fit, and finds a notification where it ends.
LEMMA ParserStep ==
    ASSUME NEW l, Chain(l), NEW r \in 1 .. Len(l), NEW p, IsParser(p), Fits(p, l, r - 1)
    PROVE  LET q == Fed(p, Token(l[r])) IN
           /\ IsParser(q) /\ Fits(q, l, r)
           /\ \/ q.out = p.out
              \/ Final(l[r]) /\ q.out = Append(p.out, Payload(l[r][1]))
<1> DEFINE m == l[r]
           n == m[1]
           b == Token(m)
           q == Fed(p, b)
           Goal(x, osc, out) == q = Made(x, osc, out) /\ (out = p.out \/ (Final(m) /\ out = Append(p.out, Payload(n))))
<1>1. m \in Place /\ n \in Nat \ {0} /\ m[2] \in 1 .. 6 /\ Ends(n) \in 5 .. 6 /\ m[2] <= Ends(n) /\ r # 0
  BY ChainIs, PlaceIs DEF Chain
<1>2. /\ m[2] = 1 => ~p.osc /\ p.buf = <<>>
      /\ m[2] # 1 => ~Final(l[r - 1]) /\ l[r - 1][1] = n /\ l[r - 1][2] = m[2] - 1 /\ FitsAt(p, l[r - 1])
  <2>1. m[2] = 1 => r = 1 \/ (r # 1 /\ Final(l[r - 1]))
    BY Before
  <2>2. m[2] # 1 => r # 1 /\ ~Final(l[r - 1]) /\ l[r - 1][1] = n /\ l[r - 1][2] = m[2] - 1
    BY Before
  <2>3. r = 1 => r - 1 = 0
    OBVIOUS
  <2>4. r # 1 => r - 1 # 0
    OBVIOUS
  <2> HIDE DEF m, n
  <2> QED  BY <2>1, <2>2, <2>3, <2>4 DEF Fits, FitsAt, Fit
<1>3. /\ p.buf \in Seq(Symbol) /\ p.osc \in BOOLEAN /\ p.out \in Seq(Seq(Symbol))
      /\ MaxOsc \in Nat /\ MaxOsc > 0
  BY TapAssumption DEF IsParser
<1>4. /\ {Esc, Open, Bel, Back, Title(n), Body(n)} \subseteq Symbol
      /\ Title(n) # Esc /\ Title(n) # Open /\ Title(n) # Bel /\ Title(n) # Back
      /\ Body(n) # Esc /\ Body(n) # Open /\ Body(n) # Bel /\ Body(n) # Back
      /\ Esc # Open /\ Esc # Bel /\ Esc # Back /\ Open # Bel /\ Open # Back /\ Bel # Back
      /\ Payload(n) = <<Title(n), Body(n)>>
  <2> HIDE DEF n
  <2> QED  BY <1>1, Symbols
<1>5. Payload(n) \in Seq(Symbol) /\ Payload(n) # <<>> /\ Append(p.out, Payload(n)) \in Seq(Seq(Symbol))
  <2> HIDE DEF n
  <2> QED  BY <1>3, <1>4
<1>6. FitsAt(q, m) => Fits(q, l, r)
  BY <1>1 DEF Fits
<1>7. SUFFICES \E x, osc, out :
         /\ q = Made(x, osc, out) /\ FitsAt(Made(x, osc, out), m)
         /\ x \in Seq(Symbol) /\ osc \in BOOLEAN
         /\ out = p.out \/ (Final(m) /\ out = Append(p.out, Payload(n)))
  <2>1. PICK x, osc, out :
         /\ q = Made(x, osc, out) /\ FitsAt(Made(x, osc, out), m)
         /\ x \in Seq(Symbol) /\ osc \in BOOLEAN
         /\ out = p.out \/ (Final(m) /\ out = Append(p.out, Payload(n)))
    BY <1>7, Zenon
  <2> HIDE DEF m, n, q
  <2>2. out \in Seq(Seq(Symbol))
    BY <1>3, <1>5, <2>1
  <2>3. IsParser(Made(x, osc, out)) /\ Made(x, osc, out).out = out
    BY <2>1, <2>2 DEF IsParser, Made
  <2>4. IsParser(q) /\ q.out = out /\ FitsAt(q, m)
    BY <2>1, <2>3
  <2> QED  BY <1>6, <2>1, <2>4 DEF m, n, q, b
<1> HIDE DEF m, n, q
<1>8. \A x, osc, out : Fit(x, osc, m) => FitsAt(Made(x, osc, out), m)
  <2> SUFFICES ASSUME NEW x, NEW osc, NEW out, Fit(x, osc, m)
               PROVE  FitsAt(Made(x, osc, out), m)
    OBVIOUS
  <2>1. Made(x, osc, out).buf = x /\ Made(x, osc, out).osc = osc
    BY DEF Made
  <2> QED  BY <2>1, Zenon DEF FitsAt
<1>9. CASE m[2] = 1
  <2>1. b = Esc /\ ~p.osc /\ ~Final(m)
    BY <1>1, <1>2, <1>9 DEF Token, Final, n
  <2>2. q = Made(<<Esc>>, FALSE, p.out)
    BY <2>1, FedIs DEF q
  <2>3. FitsAt(Made(<<Esc>>, FALSE, p.out), m)
    <3>1. Fit(<<Esc>>, FALSE, m)
      BY <1>9, <2>1 DEF Fit
    <3> QED  BY <1>8, <3>1, Zenon
  <2>4. <<Esc>> \in Seq(Symbol)
    BY <1>4
  <2> QED  BY <2>2, <2>3, <2>4, Zenon
<1>10. CASE m[2] = 2
  <2>1. b = Open /\ p.buf = <<Esc>> /\ ~Final(m)
    BY <1>1, <1>2, <1>10 DEF Token, Final, FitsAt, Fit, n
  <2>2. q = Made(<<>>, TRUE, p.out)
    BY <2>1, FedIs DEF q
  <2>3. FitsAt(Made(<<>>, TRUE, p.out), m)
    <3>1. Fit(<<>>, TRUE, m)
      BY <1>10, <2>1 DEF Fit, n
    <3> QED  BY <1>8, <3>1, Zenon
  <2>4. <<>> \in Seq(Symbol)
    OBVIOUS
  <2> QED  BY <2>2, <2>3, <2>4, Zenon
<1>11. CASE m[2] = 3
  <2>1. b = Title(n) /\ p.osc /\ p.buf = <<>> /\ ~Final(m)
    BY <1>1, <1>2, <1>11 DEF Token, Final, FitsAt, Fit, n
  <2>2. q = Made(Append(p.buf, b), TRUE, p.out)
    <3>1. p.buf # <<Esc>> /\ Len(p.buf) < MaxOsc
      BY <1>3, <2>1
    <3>2. b # Bel /\ b # Back
      BY <1>4, <2>1
    <3> QED  BY <2>1, <3>1, <3>2, FedIs DEF q
  <2>3. Append(p.buf, b) = <<Title(n)>>
    BY <2>1
  <2>4. FitsAt(Made(<<Title(n)>>, TRUE, p.out), m)
    <3>1. Fit(<<Title(n)>>, TRUE, m)
      BY <1>11, <2>1 DEF Fit, n
    <3> QED  BY <1>8, <3>1, Zenon
  <2>5. <<Title(n)>> \in Seq(Symbol)
    BY <1>4
  <2> QED  BY <2>2, <2>3, <2>4, <2>5, Zenon
<1>12. CASE m[2] = 4
  <2>1. b = Body(n) /\ p.osc /\ p.buf = <<Title(n)>> /\ ~Final(m)
    BY <1>1, <1>2, <1>12 DEF Token, Final, FitsAt, Fit, n
  <2>2. q = IF Len(p.buf) < MaxOsc THEN Made(Append(p.buf, b), TRUE, p.out) ELSE Made(<<>>, FALSE, p.out)
    <3>1. p.buf # <<Esc>>
      BY <1>4, <2>1
    <3>2. b # Bel /\ b # Back
      BY <1>4, <2>1
    <3> QED  BY <2>1, <3>1, <3>2, FedIs DEF q
  <2>3. Append(p.buf, b) = Payload(n)
    BY <1>4, <2>1, Short
  <2>4. FitsAt(Made(Payload(n), TRUE, p.out), m)
    <3>1. Fit(Payload(n), TRUE, m)
      BY <1>12, <2>1 DEF Fit, n
    <3> QED  BY <1>8, <3>1, Zenon
  <2>5. FitsAt(Made(<<>>, FALSE, p.out), m)
    <3>1. Fit(<<>>, FALSE, m)
      BY <1>12, <2>1 DEF Fit, n
    <3> QED  BY <1>8, <3>1, Zenon
  <2>6. <<>> \in Seq(Symbol)
    OBVIOUS
  <2>7. CASE Len(p.buf) < MaxOsc
    BY <1>5, <2>2, <2>3, <2>4, <2>7, Zenon
  <2>8. CASE ~ (Len(p.buf) < MaxOsc)
    BY <2>2, <2>5, <2>6, <2>8, Zenon
  <2> QED  BY <2>7, <2>8
<1>13. CASE m[2] = 5 /\ Final(m)
  <2>1. b = Bel /\ ((p.osc /\ p.buf = Payload(n)) \/ (~p.osc /\ p.buf = <<>>))
    <3>1. Closing(n) = Bel
      BY <1>1, <1>13 DEF Closing, Final, Ends, n
    <3> QED  BY <1>1, <1>2, <1>13, <3>1 DEF Token, FitsAt, Fit, n
  <2>2. \A out : FitsAt(Made(<<>>, FALSE, out), m)
    <3>1. Fit(<<>>, FALSE, m)
      BY <1>13, <2>1 DEF Fit, n
    <3> QED  BY <1>8, <3>1, Zenon
  <2>3. <<>> \in Seq(Symbol)
    OBVIOUS
  <2>4. CASE p.osc
    <3>1. q = Made(<<>>, FALSE, Noticed(p.out, Payload(n)))
      BY <2>1, <2>4, FedIs DEF q
    <3>2. Noticed(p.out, Payload(n)) = Append(p.out, Payload(n))
      BY <1>5 DEF Noticed
    <3> QED  BY <1>13, <2>2, <2>3, <3>1, <3>2, Zenon
  <2>5. CASE ~p.osc
    <3>1. q = Made(<<>>, FALSE, p.out)
      BY <1>4, <2>1, <2>5, FedIs DEF q
    <3> QED  BY <2>2, <2>3, <3>1, Zenon
  <2> QED  BY <2>4, <2>5
<1>14. CASE m[2] = 5 /\ ~Final(m)
  <2>1. b = Esc /\ ((p.osc /\ p.buf = Payload(n)) \/ (~p.osc /\ p.buf = <<>>))
    <3>1. Closing(n) = Esc
      BY <1>1, <1>14 DEF Closing, Final, Ends, n
    <3> QED  BY <1>1, <1>2, <1>14, <3>1 DEF Token, FitsAt, Fit, n
  <2>2. FitsAt(Made(Append(Payload(n), Esc), TRUE, p.out), m)
    <3>1. Fit(Append(Payload(n), Esc), TRUE, m)
      BY <1>14 DEF Fit, n
    <3> QED  BY <1>8, <3>1, Zenon
  <2>3. FitsAt(Made(<<>>, FALSE, p.out), m) /\ FitsAt(Made(<<Esc>>, FALSE, p.out), m)
    <3>1. Fit(<<>>, FALSE, m) /\ Fit(<<Esc>>, FALSE, m)
      BY <1>14 DEF Fit, n
    <3> QED  BY <1>8, <3>1, Zenon
  <2>4. <<>> \in Seq(Symbol) /\ <<Esc>> \in Seq(Symbol) /\ Append(Payload(n), Esc) \in Seq(Symbol)
    BY <1>4, <1>5
  <2>5. CASE p.osc
    <3>1. p.buf # <<Esc>>
      BY <1>4, <2>1, <2>5
    <3>2. b # Bel /\ b # Back
      BY <1>4, <2>1
    <3>3. q = IF Len(p.buf) < MaxOsc THEN Made(Append(p.buf, b), TRUE, p.out) ELSE Made(<<>>, FALSE, p.out)
      BY <2>5, <3>1, <3>2, FedIs DEF q
    <3>4. CASE Len(p.buf) < MaxOsc
      <4>1. q = Made(Append(Payload(n), Esc), TRUE, p.out)
        BY <2>1, <2>5, <3>3, <3>4
      <4> QED  BY <2>2, <2>4, <4>1, Zenon
    <3>5. CASE ~ (Len(p.buf) < MaxOsc)
      BY <2>3, <2>4, <3>3, <3>5, Zenon
    <3> QED  BY <3>4, <3>5
  <2>6. CASE ~p.osc
    <3>1. q = Made(<<Esc>>, FALSE, p.out)
      BY <2>1, <2>6, FedIs DEF q
    <3> QED  BY <2>3, <2>4, <3>1, Zenon
  <2> QED  BY <2>5, <2>6
<1>15. CASE m[2] = 6
  <2>1. /\ b = Back /\ Final(m)
        /\ (p.osc /\ p.buf = Append(Payload(n), Esc)) \/ (~p.osc /\ p.buf \in {<<>>, <<Esc>>})
    BY <1>1, <1>2, <1>15 DEF Token, FitsAt, Fit, Final, n
  <2>2. \A out : FitsAt(Made(<<>>, FALSE, out), m)
    <3>1. Fit(<<>>, FALSE, m)
      BY <1>15, <2>1 DEF Fit, n
    <3> QED  BY <1>8, <3>1, Zenon
  <2>3. <<>> \in Seq(Symbol)
    OBVIOUS
  <2>4. CASE p.osc
    <3>1. p.buf = Append(<<Title(n), Body(n)>>, Esc)
      BY <1>4, <2>1, <2>4
    <3>2. p.buf # <<>> /\ Last(p.buf) = Esc /\ Front(p.buf) = Payload(n)
      <4>1. Title(n) \in Symbol /\ Body(n) \in Symbol /\ Esc \in Symbol
        BY <1>4
      <4>2. p.buf # <<>> /\ Last(p.buf) = Esc /\ Front(p.buf) = <<Title(n), Body(n)>>
        BY <3>1, <4>1, Short
      <4> QED  BY <1>4, <4>2
    <3>3. q = Made(<<>>, FALSE, Noticed(p.out, Payload(n)))
      BY <2>1, <2>4, <3>2, FedIs DEF q
    <3>4. Noticed(p.out, Payload(n)) = Append(p.out, Payload(n))
      BY <1>5 DEF Noticed
    <3> QED  BY <2>1, <2>2, <2>3, <3>3, <3>4, Zenon
  <2>5. CASE ~p.osc
    <3>1. q = Made(<<>>, FALSE, p.out)
      BY <1>4, <2>1, <2>5, FedIs DEF q
    <3> QED  BY <2>2, <2>3, <3>1, Zenon
  <2> QED  BY <2>4, <2>5
<1> QED  BY <1>1, <1>9, <1>10, <1>11, <1>12, <1>13, <1>14, <1>15

Number(raw) == Head(raw).n

\* What a parser found from place r to place q: notifications that ended there, whole
\* and in order.
Found(out, l, r, q) ==
    /\ \A i \in 1 .. Len(out) :
          /\ out[i] = Payload(Number(out[i]))
          /\ Done(l, r) < Number(out[i]) /\ Number(out[i]) <= Done(l, q)
          /\ \E j \in 1 .. q : l[j][1] = Number(out[i])
    /\ \A i, j \in 1 .. Len(out) : i < j => Number(out[i]) < Number(out[j])

LEMMA NumberIs ==
    ASSUME NEW n \in Nat \ {0}
    PROVE  Number(Payload(n)) = n
<1>1. Payload(n) = <<Title(n), Body(n)>>
  BY Symbols
<1>2. Head(<<Title(n), Body(n)>>) = Title(n)
  OBVIOUS
<1>3. Title(n).n = n
  BY DEF Title
<1> QED  BY <1>1, <1>2, <1>3 DEF Number

LEMMA FoundMore ==
    ASSUME NEW l, Chain(l), NEW r \in 0 .. Len(l), NEW q \in 1 .. Len(l), r < q,
           NEW out \in Seq(Seq(Symbol)), Found(out, l, r, q - 1)
    PROVE  /\ Found(out, l, r, q)
           /\ Final(l[q]) => Found(Append(out, Payload(l[q][1])), l, r, q)
<1>1. /\ Len(l) \in Nat /\ l[q] \in Place /\ l[q][1] \in Nat \ {0} /\ q - 1 \in 0 .. Len(l) /\ r <= q - 1
      /\ q \in 1 .. q /\ 1 .. q - 1 \subseteq 1 .. q
  BY ChainIs, PlaceIs
<1>2. /\ Done(l, r) \in Nat /\ Done(l, q - 1) \in Nat /\ Done(l, q) \in Nat /\ Done(l, r) <= Done(l, q - 1)
      /\ Done(l, q - 1) <= Done(l, q)
      /\ Final(l[q]) => Done(l, q - 1) < l[q][1] /\ Done(l, q) = l[q][1]
  <2>1. Done(l, r) \in Nat /\ Done(l, r) <= Done(l, q - 1)
    BY <1>1, DoneMore
  <2> QED  BY <2>1, DoneStep
<1> DEFINE N == Len(out)
           n == l[q][1]
           new == Append(out, Payload(n))
<1>3. N \in Nat
  OBVIOUS
<1>4. ASSUME NEW i \in 1 .. N
      PROVE  /\ out[i] = Payload(Number(out[i])) /\ Number(out[i]) \in Nat
             /\ Done(l, r) < Number(out[i]) /\ Number(out[i]) <= Done(l, q - 1)
             /\ Number(out[i]) <= Done(l, q)
             /\ \E j \in 1 .. q : l[j][1] = Number(out[i])
  <2>1. /\ out[i] = Payload(Number(out[i]))
        /\ Done(l, r) < Number(out[i]) /\ Number(out[i]) <= Done(l, q - 1)
        /\ \E j \in 1 .. q - 1 : l[j][1] = Number(out[i])
    BY DEF Found
  <2>2. PICK j \in 1 .. q - 1 : l[j][1] = Number(out[i])
    BY <2>1
  <2>3. j \in 1 .. Len(l) /\ j \in 1 .. q
    BY <1>1
  <2>4. l[j] \in Place
    BY <2>3, ChainIs
  <2>5. Number(out[i]) \in Nat
    BY <2>2, <2>4, PlaceIs
  <2>6. Number(out[i]) <= Done(l, q)
    BY <1>2, <2>1, <2>5
  <2>7. \E k \in 1 .. q : l[k][1] = Number(out[i])
    BY <2>2, <2>3
  <2> QED  BY <2>1, <2>5, <2>6, <2>7
<1>5. \A i, j \in 1 .. N : i < j => Number(out[i]) < Number(out[j])
  BY DEF Found
<1>6. Found(out, l, r, q)
  BY <1>4, <1>5 DEF Found
<1>7. ASSUME Final(l[q])
      PROVE  Found(new, l, r, q)
  <2>1. Payload(n) \in Seq(Symbol)
    <3>1. Payload(n) = <<Title(n), Body(n)>> /\ Title(n) \in Symbol /\ Body(n) \in Symbol
      BY <1>1, Symbols
    <3> QED  BY <3>1
  <2>2. Len(new) = N + 1 /\ new[N + 1] = Payload(n) /\ \A i \in 1 .. N : new[i] = out[i]
    BY <2>1, AppendProperties
  <2>3. Number(Payload(n)) = n
    BY <1>1, NumberIs
  <2> HIDE DEF N, n, new
  <2>4. \A i \in 1 .. N + 1 : i \in 1 .. N \/ i = N + 1
    BY <1>3
  <2>5. /\ Done(l, r) < n /\ n <= Done(l, q) /\ l[q][1] = n /\ n \in Nat /\ Done(l, q - 1) < n
    BY <1>1, <1>2, <1>7 DEF n
  <2>6. ASSUME NEW i \in 1 .. N + 1
        PROVE  /\ new[i] = Payload(Number(new[i]))
               /\ Done(l, r) < Number(new[i]) /\ Number(new[i]) <= Done(l, q)
               /\ \E j \in 1 .. q : l[j][1] = Number(new[i])
    <3>1. CASE i \in 1 .. N
      BY <1>4, <2>2, <3>1
    <3>2. CASE i = N + 1
      BY <1>1, <2>2, <2>3, <2>5, <3>2
    <3> QED  BY <2>4, <3>1, <3>2
  <2>7. ASSUME NEW i \in 1 .. N + 1, NEW j \in 1 .. N + 1, i < j
        PROVE  Number(new[i]) < Number(new[j])
    <3>1. i \in 1 .. N
      BY <1>3, <2>7
    <3>2. CASE j \in 1 .. N
      BY <1>5, <2>2, <2>7, <3>1, <3>2
    <3>3. CASE j = N + 1
      <4>1. Number(new[i]) \in Nat /\ Number(new[i]) <= Done(l, q - 1)
        BY <1>4, <2>2, <3>1
      <4>2. Number(new[j]) = n
        BY <2>2, <2>3, <3>3
      <4> QED  BY <1>2, <2>5, <4>1, <4>2
    <3> QED  BY <2>4, <3>2, <3>3
  <2> QED  BY <2>2, <2>6, <2>7 DEF Found
<1> QED  BY <1>6, <1>7

\* A parser that is fed what is from place r to place q finds what ended there.
LEMMA FeedOk ==
    ASSUME NEW l, Chain(l), NEW r \in 0 .. Len(l), NEW q \in 0 .. Len(l), r <= q,
           NEW data \in Seq(Symbol), Len(data) = q - r, \A i \in 1 .. q - r : data[i] = Token(l[r + i]),
           NEW p, IsParser(p), Fits(p, l, r)
    PROVE  LET n == Feed(p, data) IN IsParser(n) /\ Fits(n, l, q) /\ Found(n.out, l, r, q)
<1> DEFINE p0 == [p EXCEPT !.out = <<>>]
           N == q - r
<1>1. N \in Nat /\ Len(l) \in Nat /\ Len(data) = N /\ r + N = q
  BY ChainIs
<1>2. IsParser(p0) /\ p0.out = <<>> /\ p0.buf = p.buf /\ p0.osc = p.osc
  <2>1. \A x : [p EXCEPT !.out = x] = Made(p.buf, p.osc, x)
    BY DEF IsParser, Made
  <2>2. p0 = Made(p.buf, p.osc, <<>>)
    BY <2>1, Zenon
  <2>3. p.buf \in Seq(Symbol) /\ p.osc \in BOOLEAN /\ <<>> \in Seq(Seq(Symbol))
    BY DEF IsParser
  <2> HIDE DEF p0
  <2> QED  BY <2>2, <2>3 DEF IsParser, Made
<1>3. Fits(p0, l, r)
  <2> HIDE DEF p0
  <2> QED  BY <1>2 DEF Fits, FitsAt
<1> HIDE DEF p0
<1>4. PICK f : Folds(f, p0, data) /\ f[Len(data)] = FoldLeft(Fed, p0, data)
  BY FoldSteps
<1>5. Feed(p, data) = f[N]
  BY <1>1, <1>4 DEF Feed, p0
<1> DEFINE Good(k) == IsParser(f[k]) /\ Fits(f[k], l, r + k) /\ Found(f[k].out, l, r, r + k)
           S == {k \in Nat : k <= N => Good(k)}
<1>6. 0 \in S
  <2>1. f[0] = p0 /\ r + 0 = r
    BY <1>4 DEF Folds
  <2>2. Found(<<>>, l, r, r)
    BY DEF Found
  <2> QED  BY <1>2, <1>3, <2>1, <2>2
<1>7. ASSUME NEW k \in Nat, k \in S
      PROVE  k + 1 \in S
  <2> SUFFICES ASSUME k + 1 <= N
               PROVE  Good(k + 1)
    OBVIOUS
  <2>1. /\ k + 1 \in 1 .. N /\ r + (k + 1) \in 1 .. Len(l) /\ (r + (k + 1)) - 1 = r + k /\ (k + 1) - 1 = k
        /\ r < r + (k + 1) /\ k <= N
    BY <1>1
  <2>2. IsParser(f[k]) /\ Fits(f[k], l, r + k) /\ Found(f[k].out, l, r, r + k)
    BY <1>7, <2>1
  <2> DEFINE m == l[r + (k + 1)]
  <2>3. f[k + 1] = Fed(f[k], Token(m))
    <3>1. f[k + 1] = Fed(f[(k + 1) - 1], data[k + 1])
      BY <1>1, <1>4, <2>1 DEF Folds
    <3>2. data[k + 1] = Token(l[r + (k + 1)])
      BY <2>1
    <3> QED  BY <2>1, <3>1, <3>2
  <2>4. /\ IsParser(f[k + 1]) /\ Fits(f[k + 1], l, r + (k + 1))
        /\ \/ f[k + 1].out = f[k].out
           \/ Final(m) /\ f[k + 1].out = Append(f[k].out, Payload(m[1]))
    BY <2>1, <2>2, <2>3, ParserStep
  <2>5. f[k].out \in Seq(Seq(Symbol))
    BY <2>2 DEF IsParser
  <2>6. /\ Found(f[k].out, l, r, r + (k + 1))
        /\ Final(m) => Found(Append(f[k].out, Payload(m[1])), l, r, r + (k + 1))
    BY <2>1, <2>2, <2>5, FoundMore
  <2> HIDE DEF m
  <2> QED  BY <2>4, <2>6
<1>8. Nat \subseteq S
  <2> HIDE DEF S
  <2> QED  BY <1>6, <1>7, Induction
<1>9. Good(N)
  BY <1>1, <1>8
<1> QED  BY <1>1, <1>5, <1>9

-----------------------------------------------------------------------------
(* The invariant *)

Item == [tap : Nat \ {0}, raw : Seq(Symbol)]
Tap == [file : Nat, pos : Nat, ch : Seq(Seq(Symbol)),
        parser : [buf : Seq(Symbol), osc : BOOLEAN, out : Seq(Seq(Symbol))],
        cancelled : BOOLEAN, tail : BOOLEAN, reader : BOOLEAN, fresh : BOOLEAN]

Typed ==
    /\ files \in Seq(Seq(Symbol)) /\ pending \in Seq(Symbol)
    /\ cat \in [on : BOOLEAN, file : 0 .. Len(files)]
    /\ taps \in Seq(Tap) /\ current \in 0 .. Len(taps) /\ path \in 0 .. Len(files)
    /\ queue \in Seq(Item) /\ told \in Seq(Item) /\ said \in Nat

\* A cat writes the last file there is, or has none, and then the file under the
\* pane's name is an empty one.
CatOk ==
    cat.on => IF cat.file = 0 THEN path = 0 \/ (path = Len(files) /\ files[path] = <<>>)
              ELSE cat.file = Len(files)

\* Every tap has a file of its own, later taps later ones.
FilesOk ==
    /\ \A t \in 1 .. Len(taps) : taps[t].file \in 1 .. Len(files) /\ taps[t].pos <= Len(files[taps[t].file])
    /\ \A t, u \in 1 .. Len(taps) : t < u => taps[t].file < taps[u].file

\* What is in a file and what its cat has still to write; 0 is the file a cat has
\* still to open.
FileAt(f) == IF f = 0 THEN <<>> ELSE files[f]
Whole(f) == IF cat.on /\ cat.file = f THEN FileAt(f) \o pending ELSE FileAt(f)

Marks(l, s) == Len(l) = Len(s) /\ \A i \in 1 .. Len(s) : s[i] = Token(l[i])

UpTo(l, n) == \A i \in 1 .. Len(l) : l[i][1] <= n
Over(l) == l = <<>> \/ Final(l[Len(l)])
Earlier(l, m) == \A i \in 1 .. Len(l), j \in 1 .. Len(m) : l[i][1] < m[j][1]

Writes(f) == cat.on /\ cat.file = f

\* L has the places of what is in each file: the files go on from one another, and
\* what a cat has still to write is whole.
Streams(L) ==
    /\ \A f \in 0 .. Len(files) :
          /\ Chain(L[f]) /\ Marks(L[f], Whole(f)) /\ UpTo(L[f], said)
          /\ Writes(f) => Over(L[f])
    /\ \A f, g \in 0 .. Len(files) : f # 0 /\ (f < g \/ g = 0) => Earlier(L[f], L[g])

\* The chunks of ch were cut at the places c.
Cut(ch, l, c) ==
    \A k \in 1 .. Len(ch) :
        /\ c[k - 1] <= c[k] /\ Len(ch[k]) = c[k] - c[k - 1]
        /\ \A i \in 1 .. c[k] - c[k - 1] : ch[k][i] = Token(l[c[k - 1] + i])

Things == ToSet(told) \cup ToSet(queue)

\* A reader goes on where the last chunk ended, and has told of nothing beyond.
ReaderOk(t, l) ==
    \E c \in [0 .. Len(taps[t].ch) -> 0 .. taps[t].pos] :
        /\ c[Len(taps[t].ch)] = taps[t].pos /\ Cut(taps[t].ch, l, c)
        /\ Fits(taps[t].parser, l, c[0])
        /\ \A x \in Things : x.tap = t => Number(x.raw) <= Done(l, c[0])

\* What is told is a whole notification of the tap's file.
ThingOk(x, L) ==
    /\ x.tap \in 1 .. Len(taps) /\ x.raw = Payload(Number(x.raw))
    /\ \E j \in 1 .. Len(files[taps[x.tap].file]) : L[taps[x.tap].file][j][1] = Number(x.raw)

Rising(q) == \A i, j \in 1 .. Len(q) : i < j /\ q[i].tap = q[j].tap => Number(q[i].raw) < Number(q[j].raw)
Above(q, r) == \A i \in 1 .. Len(q), j \in 1 .. Len(r) : q[i].tap = r[j].tap => Number(q[i].raw) < Number(r[j].raw)

Known(L) ==
    /\ Streams(L)
    /\ \A t \in 1 .. Len(taps) : taps[t].reader => ReaderOk(t, L[taps[t].file])
    /\ \A x \in Things : ThingOk(x, L)

InOrder == Rising(told) /\ Rising(queue) /\ Above(told, queue)

TapsInv == Typed /\ CatOk /\ FilesOk /\ InOrder /\ \E L : Known(L)

-----------------------------------------------------------------------------
(* What stays *)

LEMMA TapIs ==
    ASSUME Typed, NEW t \in 1 .. Len(taps)
    PROVE  /\ taps[t] \in Tap /\ taps[t].file \in Nat /\ taps[t].pos \in Nat
           /\ taps[t].ch \in Seq(Seq(Symbol)) /\ IsParser(taps[t].parser)
           /\ taps[t].cancelled \in BOOLEAN /\ taps[t].tail \in BOOLEAN /\ taps[t].reader \in BOOLEAN
<1>1. taps[t] \in Tap
  BY ElementOfSeq DEF Typed
<1> QED  BY <1>1 DEF Tap, IsParser

LEMMA Counts ==
    ASSUME Typed
    PROVE  /\ Len(taps) \in Nat /\ DOMAIN taps = 1 .. Len(taps) /\ Len(files) \in Nat
           /\ \A f \in 1 .. Len(files) : files[f] \in Seq(Symbol) /\ Len(files[f]) \in Nat
           /\ Len(told) \in Nat /\ Len(queue) \in Nat
           /\ \A i \in 1 .. Len(told) : told[i] \in Item /\ told[i] \in Things
           /\ \A i \in 1 .. Len(queue) : queue[i] \in Item /\ queue[i] \in Things
<1>1. Len(taps) \in Nat /\ DOMAIN taps = 1 .. Len(taps) /\ Len(files) \in Nat
  BY LenProperties DEF Typed
<1>2. \A f \in 1 .. Len(files) : files[f] \in Seq(Symbol) /\ Len(files[f]) \in Nat
  BY ElementOfSeq, LenProperties DEF Typed
<1>3. Len(told) \in Nat /\ Len(queue) \in Nat
  BY LenProperties DEF Typed
<1>4. \A i \in 1 .. Len(told) : told[i] \in Item /\ told[i] \in Things
  BY ElementOfSeq, LenProperties DEF Typed, Things, ToSet
<1>5. \A i \in 1 .. Len(queue) : queue[i] \in Item /\ queue[i] \in Things
  BY ElementOfSeq, LenProperties DEF Typed, Things, ToSet
<1> QED  BY <1>1, <1>2, <1>3, <1>4, <1>5

\* What is true of a sequence at the places up to q is true of another that has them.
LEMMA SamePlaces ==
    ASSUME NEW l, NEW m, NEW n \in Nat, \A i \in 1 .. n : m[i] = l[i]
    PROVE  /\ \A r \in 0 .. n : Done(m, r) = Done(l, r)
           /\ \A r \in 0 .. n : \A p : Fits(p, l, r) => Fits(p, m, r)
           /\ \A ch, c : Len(ch) \in Nat /\ c \in [0 .. Len(ch) -> 0 .. n] /\ Cut(ch, l, c) => Cut(ch, m, c)
<1>1. \A r \in 0 .. n : Done(m, r) = Done(l, r)
  BY DEF Done
<1>2. \A r \in 0 .. n : \A p : Fits(p, l, r) => Fits(p, m, r)
  BY DEF Fits
<1>3. ASSUME NEW ch, NEW c, Len(ch) \in Nat, c \in [0 .. Len(ch) -> 0 .. n], Cut(ch, l, c)
      PROVE  Cut(ch, m, c)
  <2> SUFFICES ASSUME NEW k \in 1 .. Len(ch), NEW i \in 1 .. c[k] - c[k - 1]
               PROVE  m[c[k - 1] + i] = l[c[k - 1] + i]
    BY <1>3 DEF Cut
  <2>1. k - 1 \in 0 .. Len(ch) /\ k \in 0 .. Len(ch)
    BY <1>3
  <2>2. c[k - 1] \in 0 .. n /\ c[k] \in 0 .. n
    BY <1>3, <2>1
  <2>3. c[k - 1] + i \in 1 .. n
    BY <2>2
  <2> QED  BY <2>3
<1> QED  BY <1>1, <1>2, <1>3

\* A tap that has read no more, and whose reader has taken nothing or has ended.
TapKept(a, b) ==
    /\ b.file = a.file /\ b.pos = a.pos
    /\ b.reader => a.reader /\ b.ch = a.ch /\ b.parser = a.parser

TapsKept ==
    /\ Len(taps) \in Nat /\ Len(taps') \in Nat /\ Len(taps) <= Len(taps')
    /\ \A t \in 1 .. Len(taps) : TapKept(taps[t], taps'[t])
    /\ \A t \in 1 .. Len(taps') : \/ t \in 1 .. Len(taps)
                                 \/ /\ t = Len(taps) + 1 /\ taps'[t].pos = 0 /\ taps'[t].ch = <<>>
                                    /\ taps'[t].parser = NewParser
                                    /\ taps'[t].file = Len(files') /\ Len(files') = Len(files) + 1

\* Files get longer, or there is one more; M has the places of L.
Longer(L, M) ==
    /\ Len(files') \in Nat /\ Len(files) <= Len(files')
    /\ \A f \in 1 .. Len(files) : /\ Len(files'[f]) \in Nat /\ Len(files[f]) <= Len(files'[f])
                                 /\ \A i \in 1 .. Len(files[f]) : M[f][i] = L[f][i]

LEMMA FilesKept ==
    ASSUME Typed, FilesOk, TapsKept, NEW L, NEW M, Longer(L, M), \A f \in 1 .. Len(files') : Len(files'[f]) \in Nat
    PROVE  FilesOk'
<1>1. Len(files) \in Nat /\ \A f \in 1 .. Len(files) : Len(files[f]) \in Nat
  BY Counts
<1>2. ASSUME NEW t \in 1 .. Len(taps)
      PROVE  /\ t \in 1 .. Len(taps') /\ taps'[t].file = taps[t].file /\ taps'[t].pos = taps[t].pos
             /\ taps[t].file \in 1 .. Len(files) /\ taps[t].pos \in Nat
             /\ taps[t].pos <= Len(files[taps[t].file])
  BY TapIs DEF FilesOk, TapsKept, TapKept
<1>3. ASSUME NEW t \in 1 .. Len(taps')
      PROVE  taps'[t].file \in 1 .. Len(files') /\ taps'[t].pos <= Len(files'[taps'[t].file])
  <2>1. CASE t \in 1 .. Len(taps)
    <3> DEFINE f == taps[t].file
    <3>1. f \in 1 .. Len(files) /\ taps[t].pos \in Nat /\ taps[t].pos <= Len(files[f])
          /\ taps'[t].file = f /\ taps'[t].pos = taps[t].pos
      BY <1>2, <2>1
    <3> HIDE DEF f
    <3>2. Len(files'[f]) \in Nat /\ Len(files[f]) <= Len(files'[f]) /\ f \in 1 .. Len(files')
      BY <1>1, <3>1 DEF Longer
    <3> QED  BY <1>1, <3>1, <3>2
  <2>2. CASE t \notin 1 .. Len(taps)
    <3>1. taps'[t].pos = 0 /\ taps'[t].file = Len(files') /\ Len(files') = Len(files) + 1
      BY <2>2 DEF TapsKept
    <3> QED  BY <1>1, <3>1
  <2> QED  BY <2>1, <2>2
<1>4. ASSUME NEW t \in 1 .. Len(taps'), NEW u \in 1 .. Len(taps'), t < u
      PROVE  taps'[t].file < taps'[u].file
  <2>0. Len(taps) \in Nat /\ Len(taps') \in Nat
    BY DEF TapsKept
  <2>1. t \in 1 .. Len(taps)
    <3>1. u \in 1 .. Len(taps) \/ u = Len(taps) + 1
      BY DEF TapsKept
    <3> QED  BY <1>4, <2>0, <3>1
  <2>2. CASE u \in 1 .. Len(taps)
    BY <1>2, <1>4, <2>1, <2>2 DEF FilesOk
  <2>3. CASE u \notin 1 .. Len(taps)
    <3>1. taps'[u].file = Len(files') /\ Len(files') = Len(files) + 1
      BY <2>3 DEF TapsKept
    <3>2. taps'[t].file \in 1 .. Len(files)
      BY <1>2, <2>1
    <3> QED  BY <1>1, <3>1, <3>2
  <2> QED  BY <2>2, <2>3
<1> QED  BY <1>3, <1>4 DEF FilesOk

\* What is known of files, readers and what was told stays known.
LEMMA StaysKnown ==
    ASSUME Typed, FilesOk, NEW L, Known(L), NEW M, Streams(M)', TapsKept, Longer(L, M), Things' \subseteq Things
    PROVE  Known(M)'
<1>1. Len(files) \in Nat /\ \A f \in 1 .. Len(files) : Len(files[f]) \in Nat
  BY Counts
<1>2. ASSUME NEW t \in 1 .. Len(taps)
      PROVE  LET f == taps[t].file IN
             /\ TapKept(taps[t], taps'[t]) /\ f \in 1 .. Len(files) /\ taps[t].pos \in Nat /\ Len(files[f]) \in Nat
             /\ taps[t].pos <= Len(files[f])
             /\ \A i \in 1 .. Len(files[f]) : M[f][i] = L[f][i]
  BY <1>1, TapIs DEF FilesOk, TapsKept, Longer
<1>3. ASSUME NEW t \in 1 .. Len(taps'), taps'[t].reader
      PROVE  ReaderOk(t, M[taps[t].file])'
  <2>1. CASE t \in 1 .. Len(taps)
    <3> DEFINE tap == taps[t]
               l == L[tap.file]
               m == M[tap.file]
    <3>1. /\ taps'[t].file = tap.file /\ taps'[t].pos = tap.pos /\ tap.reader
          /\ taps'[t].ch = tap.ch /\ taps'[t].parser = tap.parser
      BY <1>2, <1>3, <2>1 DEF TapKept
    <3>2. PICK c \in [0 .. Len(tap.ch) -> 0 .. tap.pos] :
            /\ c[Len(tap.ch)] = tap.pos /\ Cut(tap.ch, l, c)
            /\ Fits(tap.parser, l, c[0])
            /\ \A x \in Things : x.tap = t => Number(x.raw) <= Done(l, c[0])
      BY <2>1, <3>1 DEF Known, ReaderOk
    <3>3. tap.pos \in Nat /\ \A i \in 1 .. tap.pos : m[i] = l[i]
      <4>1. PICK f, p, n : f = taps[t].file /\ p = taps[t].pos /\ n = Len(files[f])
        OBVIOUS
      <4>2. p \in Nat /\ n \in Nat /\ p <= n /\ \A i \in 1 .. n : M[f][i] = L[f][i]
        BY <1>2, <2>1, <4>1
      <4>3. \A i \in 1 .. p : i \in 1 .. n
        BY <4>2
      <4> QED  BY <4>1, <4>2, <4>3
    <3>4. Len(tap.ch) \in Nat /\ c[0] \in 0 .. tap.pos
      BY <2>1, TapIs, LenProperties
    <3> HIDE DEF tap, l, m
    <3>5. Cut(tap.ch, m, c) /\ Fits(tap.parser, m, c[0]) /\ Done(m, c[0]) = Done(l, c[0])
      BY <3>2, <3>3, <3>4, SamePlaces
    <3>6. \A x \in Things' : x.tap = t => Number(x.raw) <= Done(m, c[0])
      BY <3>2, <3>5
    <3>7. taps'[t].file = tap.file /\ M[taps'[t].file] = m
      BY <3>1 DEF m
    <3> QED  BY <3>1, <3>2, <3>5, <3>6, <3>7 DEF ReaderOk
  <2>2. CASE t \notin 1 .. Len(taps)
    <3>1. taps'[t].pos = 0 /\ taps'[t].ch = <<>> /\ taps'[t].parser = NewParser
      BY <2>2 DEF TapsKept
    <3> DEFINE c == [k \in 0 .. 0 |-> 0]
               m == M[taps'[t].file]
    <3>2. c \in [0 .. Len(taps'[t].ch) -> 0 .. taps'[t].pos] /\ c[Len(taps'[t].ch)] = taps'[t].pos /\ c[0] = 0
      BY <3>1
    <3> HIDE DEF c, m
    <3>3. Cut(taps'[t].ch, m, c)
      BY <3>1 DEF Cut
    <3>4. Fits(taps'[t].parser, m, c[0])
      BY <3>1, <3>2 DEF Fits, NewParser
    <3>5. \A x \in Things' : x.tap # t
      BY <2>2 DEF Known, ThingOk
    <3> QED  BY <3>2, <3>3, <3>4, <3>5 DEF ReaderOk, m
  <2> QED  BY <2>1, <2>2
<1>4. ASSUME NEW x \in Things'
      PROVE  ThingOk(x, M)'
  <2>1. ThingOk(x, L)
    BY DEF Known
  <2> DEFINE t == x.tap
             f == taps[t].file
  <2>2. /\ t \in 1 .. Len(taps) /\ t \in 1 .. Len(taps') /\ x.raw = Payload(Number(x.raw))
    BY <2>1 DEF ThingOk, TapsKept
  <2>3. PICK j \in 1 .. Len(files[f]) : L[f][j][1] = Number(x.raw)
    BY <2>1 DEF ThingOk
  <2>4. /\ taps'[t].file = f /\ f \in 1 .. Len(files) /\ M[f][j] = L[f][j]
        /\ j \in 1 .. Len(files'[f])
    <3>1. taps'[t].file = f /\ f \in 1 .. Len(files) /\ M[f][j] = L[f][j]
      BY <1>2, <2>2, <2>3 DEF TapKept
    <3> HIDE DEF f
    <3>2. Len(files'[f]) \in Nat /\ Len(files[f]) <= Len(files'[f]) /\ Len(files[f]) \in Nat
      BY <1>1, <3>1 DEF Longer
    <3> QED  BY <2>3, <3>1, <3>2
  <2> HIDE DEF f
  <2> QED  BY <2>2, <2>3, <2>4 DEF ThingOk
<1> QED  BY <1>3, <1>4 DEF Known

-----------------------------------------------------------------------------
(* What is printed, cut off and written *)

LEMMA Prefix ==
    ASSUME NEW l, Chain(l), NEW n \in 0 .. Len(l)
    PROVE  LET m == SubSeq(l, 1, n) IN
           /\ Chain(m) /\ Len(m) = n
           /\ \A i \in 1 .. n : i \in 1 .. Len(l) /\ m[i] = l[i]
<1> DEFINE m == SubSeq(l, 1, n)
<1>1. Len(l) \in Nat /\ n \in Nat /\ \A i \in 1 .. n : i \in 1 .. Len(l) /\ l[i] \in Place
  BY ChainIs
<1>2. m \in Seq(Place) /\ Len(m) = n /\ \A i \in 1 .. n : m[i] = l[i]
  <2>1. /\ m \in Seq(Place) /\ Len(m) = IF 1 <= n THEN n - 1 + 1 ELSE 0
        /\ \A i \in 1 .. n - 1 + 1 : m[i] = l[1 + i - 1]
    BY <1>1, SubSeqProperties
  <2> HIDE DEF m
  <2> QED  BY <1>1, <2>1
<1> HIDE DEF m
<1>3. m # <<>> => m[1][2] = 1
  <2> SUFFICES ASSUME m # <<>>
               PROVE  m[1][2] = 1
    OBVIOUS
  <2>1. 1 \in 1 .. n
    BY <1>1, <1>2, EmptySeq
  <2>2. l # <<>>
    BY <1>1, <2>1
  <2> QED  BY <1>2, <2>1, <2>2 DEF Chain
<1>4. \A i \in 1 .. n : m[i][2] <= Ends(m[i][1])
  BY <1>1, <1>2 DEF Chain
<1>5. \A i, j \in 1 .. n : j = i + 1 => Follows(m[i], m[j])
  BY <1>1, <1>2 DEF Chain
<1>6. Chain(m)
  BY <1>2, <1>3, <1>4, <1>5 DEF Chain
<1> QED  BY <1>1, <1>2, <1>6 DEF m

LEMMA NoPlaces == Chain(<<>>) /\ Len(<<>>) = 0 /\ Over(<<>>) /\ Marks(<<>>, <<>>)
<1>1. <<>> \in Seq(Place) /\ Len(<<>>) = 0
  BY EmptySeq
<1> QED  BY <1>1 DEF Chain, Over, Marks

\* The places of one notification.
Places(n) == [i \in 1 .. Ends(n) |-> <<n, i>>]

LEMMA OneMore ==
    ASSUME NEW l, Chain(l), Over(l), NEW n \in Nat, UpTo(l, n)
    PROVE  LET m == l \o Places(n + 1) IN
           /\ Chain(m) /\ Over(m) /\ UpTo(m, n + 1) /\ Len(m) = Len(l) + Ends(n + 1)
           /\ \A i \in 1 .. Len(l) : m[i] = l[i]
           /\ \A i \in 1 .. Ends(n + 1) : m[Len(l) + i] = <<n + 1, i>>
           /\ \A i \in 1 .. Len(m) : i \in 1 .. Len(l) \/ m[i][1] = n + 1
<1> DEFINE e == Ends(n + 1)
           s == Places(n + 1)
           m == l \o s
           k == Len(l)
<1>1. k \in Nat /\ e \in 5 .. 6 /\ \A i \in 1 .. k : l[i] \in Place /\ l[i][1] \in Nat
  <2>1. e \in 5 .. 6
    BY DEF Ends
  <2> QED  BY <2>1, ChainIs, PlaceIs
<1>2. s \in Seq(Place) /\ Len(s) = e /\ \A i \in 1 .. e : s[i] = <<n + 1, i>>
  <2> HIDE DEF e
  <2>1. \A i \in 1 .. e : <<n + 1, i>> \in Place
    BY <1>1 DEF Place
  <2>2. s = [i \in 1 .. e |-> <<n + 1, i>>]
    BY DEF Places, e
  <2> HIDE DEF s
  <2> QED  BY <1>1, <2>1, <2>2
<1> HIDE DEF e, s
<1>3. /\ m \in Seq(Place) /\ Len(m) = k + e
      /\ \A i \in 1 .. k + e : m[i] = IF i <= k THEN l[i] ELSE s[i - k]
  BY <1>2, ConcatProperties DEF Chain
<1> HIDE DEF m
<1>4. /\ \A i \in 1 .. k : m[i] = l[i]
      /\ \A i \in 1 .. e : m[k + i] = <<n + 1, i>>
  <2>1. ASSUME NEW i \in 1 .. e
        PROVE  m[k + i] = <<n + 1, i>>
    <3>1. k + i \in 1 .. k + e /\ ~(k + i <= k) /\ (k + i) - k = i
      BY <1>1
    <3> QED  BY <1>2, <1>3, <3>1
  <2>2. \A i \in 1 .. k : i \in 1 .. k + e /\ i <= k
    BY <1>1
  <2> QED  BY <1>3, <2>1, <2>2
<1>5. \A i \in 1 .. k + e : i \in 1 .. k \/ (i - k \in 1 .. e /\ i = k + (i - k))
  BY <1>1
<1>6. \A i \in 1 .. k + e : i \in 1 .. k \/ (m[i] = <<n + 1, i - k>> /\ m[i][1] = n + 1 /\ m[i][2] = i - k)
  <2> TAKE i \in 1 .. k + e
  <2>1. ASSUME i \notin 1 .. k
        PROVE  m[i] = <<n + 1, i - k>>
    BY <1>4, <1>5, <2>1
  <2> QED  BY <2>1
<1>7. Over(m)
  <2>1. e \in 1 .. e
    BY <1>1
  <2>2. m[k + e] = <<n + 1, e>>
    BY <1>4, <2>1
  <2>3. Final(m[k + e])
    BY <2>2 DEF Final, e
  <2> QED  BY <1>3, <2>3 DEF Over
<1>8. UpTo(m, n + 1)
  <2>1. ASSUME NEW i \in 1 .. k + e
        PROVE  m[i][1] <= n + 1
    <3>1. CASE i \in 1 .. k
      <4>1. m[i] = l[i] /\ l[i][1] \in Nat /\ l[i][1] <= n
        BY <1>1, <1>4, <3>1 DEF UpTo
      <4> QED  BY <4>1
    <3>2. CASE i \notin 1 .. k
      BY <1>6, <3>2
    <3> QED  BY <3>1, <3>2
  <2> QED  BY <1>3, <2>1 DEF UpTo
<1>9. m[1][2] = 1
  <2>1. CASE k = 0
    <3>1. 1 \in 1 .. k + e /\ 1 \notin 1 .. k /\ 1 - k = 1
      BY <1>1, <2>1
    <3> QED  BY <1>6, <3>1
  <2>2. CASE k # 0
    <3>1. 1 \in 1 .. k
      BY <1>1, <2>2
    <3>2. l # <<>>
      BY <1>1, <2>2
    <3> QED  BY <1>4, <3>1, <3>2 DEF Chain
  <2> QED  BY <2>1, <2>2
<1>10. \A i \in 1 .. k + e : m[i][2] <= Ends(m[i][1])
  <2> TAKE i \in 1 .. k + e
  <2>1. CASE i \in 1 .. k
    BY <1>4, <2>1 DEF Chain
  <2>2. CASE i \notin 1 .. k
    <3>1. m[i][1] = n + 1 /\ m[i][2] = i - k /\ i - k <= e
      BY <1>5, <1>6, <2>2
    <3> QED  BY <3>1 DEF e
  <2> QED  BY <2>1, <2>2
<1>11. ASSUME NEW i \in 1 .. k + e, NEW j \in 1 .. k + e, j = i + 1
       PROVE  Follows(m[i], m[j])
  <2>1. CASE j \in 1 .. k
    <3>1. i \in 1 .. k
      BY <1>1, <1>11, <2>1
    <3> QED  BY <1>4, <1>11, <2>1, <3>1 DEF Chain
  <2>2. CASE j \notin 1 .. k /\ i \in 1 .. k
    <3>1. i = k /\ j = k + 1 /\ j - k = 1
      BY <1>1, <1>11, <2>2
    <3>2. l # <<>> /\ Final(l[k])
      BY <1>1, <2>2, <3>1 DEF Over
    <3>3. m[i] = l[k] /\ m[j][1] = n + 1 /\ m[j][2] = 1 /\ l[k][1] \in Nat /\ l[k][1] <= n
      BY <1>1, <1>4, <1>6, <2>2, <3>1 DEF UpTo
    <3> QED  BY <3>2, <3>3 DEF Follows
  <2>3. CASE i \notin 1 .. k
    <3>1. j \notin 1 .. k /\ i - k < e /\ i - k \in Int /\ j - k = (i - k) + 1
      BY <1>1, <1>11, <2>3
    <3>2. m[i][1] = n + 1 /\ m[i][2] = i - k /\ m[j][1] = n + 1 /\ m[j][2] = j - k
      BY <1>6, <2>3, <3>1
    <3>3. ~Final(m[i])
      BY <1>1, <3>1, <3>2 DEF Final, e
    <3> QED  BY <3>1, <3>2, <3>3 DEF Follows
  <2> QED  BY <2>1, <2>2, <2>3
<1>12. Chain(m)
  BY <1>3, <1>9, <1>10, <1>11 DEF Chain
<1> QED  BY <1>3, <1>4, <1>6, <1>7, <1>8, <1>12 DEF m, s, e

LEMMA FourMore ==
    ASSUME NEW E, NEW a, NEW b, NEW x, NEW y, a \in E, b \in E, x \in E, y \in E, NEW c \in Seq(E)
    PROVE  LET o == (<<a, b>> \o <<x, y>>) \o c IN
           /\ o \in Seq(E) /\ Len(o) = Len(c) + 4
           /\ o[1] = a /\ o[2] = b /\ o[3] = x /\ o[4] = y
           /\ \A i \in 1 .. Len(c) : o[4 + i] = c[i]
<1> DEFINE h == <<a, b>> \o <<x, y>>
           o == h \o c
<1>1. <<a, b>> \in Seq(E) /\ <<x, y>> \in Seq(E) /\ Len(<<a, b>>) = 2 /\ Len(<<x, y>>) = 2
  OBVIOUS
<1>2. /\ h \in Seq(E) /\ Len(h) = 4
      /\ \A i \in 1 .. 2 + 2 : h[i] = IF i <= 2 THEN <<a, b>>[i] ELSE <<x, y>>[i - 2]
  BY <1>1, ConcatProperties
<1>3. h[1] = a /\ h[2] = b /\ h[3] = x /\ h[4] = y
  <2> HIDE DEF h
  <2>1. /\ h[1] = <<a, b>>[1] /\ h[2] = <<a, b>>[2] /\ h[3] = <<x, y>>[1] /\ h[4] = <<x, y>>[2]
    BY <1>2
  <2> QED  BY <2>1
<1> HIDE DEF h
<1>4. /\ Len(c) \in Nat /\ o \in Seq(E) /\ Len(o) = 4 + Len(c)
      /\ \A i \in 1 .. 4 + Len(c) : o[i] = IF i <= 4 THEN h[i] ELSE c[i - 4]
  <2>1. Len(c) \in Nat /\ h \in Seq(E) /\ Len(h) = 4
    BY <1>2, LenProperties
  <2>2. /\ o \in Seq(E) /\ Len(o) = Len(h) + Len(c)
        /\ \A i \in 1 .. Len(h) + Len(c) : o[i] = IF i <= Len(h) THEN h[i] ELSE c[i - Len(h)]
    BY <2>1, ConcatProperties
  <2> HIDE DEF o
  <2> QED  BY <2>1, <2>2
<1> HIDE DEF o
<1>5. o[1] = h[1] /\ o[2] = h[2] /\ o[3] = h[3] /\ o[4] = h[4]
  BY <1>4
<1>6. ASSUME NEW i \in 1 .. Len(c)
      PROVE  o[4 + i] = c[i]
  <2>1. 4 + i \in 1 .. 4 + Len(c) /\ ~(4 + i <= 4) /\ (4 + i) - 4 = i
    BY <1>4
  <2> QED  BY <1>4, <2>1
<1>7. o \in Seq(E) /\ Len(o) = Len(c) + 4
  BY <1>4
<1> QED  BY <1>3, <1>5, <1>6, <1>7 DEF o, h

LEMMA OscMarks ==
    ASSUME NEW n \in Nat
    PROVE  LET o == Osc(n + 1, n % 2 = 0) IN
           /\ o \in Seq(Symbol) /\ Len(o) = Ends(n + 1)
           /\ \A i \in 1 .. Ends(n + 1) : o[i] = Token(<<n + 1, i>>)
<1> DEFINE k == n + 1
           st == n % 2 = 0
<1>1. k \in Nat \ {0} /\ k - 1 = n
  OBVIOUS
<1>2. Ends(k) = (IF st THEN 6 ELSE 5) /\ Closing(k) = IF st THEN Esc ELSE Bel
  BY <1>1 DEF Ends, Closing
<1>3. {Esc, Open, Bel, Back, Title(k), Body(k)} \subseteq Symbol /\ Payload(k) = <<Title(k), Body(k)>>
  BY <1>1, Symbols
<1> DEFINE o == Osc(k, st)
           c == IF st THEN <<Esc, Back>> ELSE <<Bel>>
<1>4. /\ c \in Seq(Symbol) /\ Len(c) = Ends(k) - 4 /\ Ends(k) \in 5 .. 6
      /\ c[1] = Closing(k)
      /\ Ends(k) = 6 => c[2] = Back
  BY <1>2, <1>3
<1>5. /\ Token(<<k, 1>>) = Esc /\ Token(<<k, 2>>) = Open /\ Token(<<k, 3>>) = Title(k)
      /\ Token(<<k, 4>>) = Body(k) /\ Token(<<k, 5>>) = Closing(k) /\ Token(<<k, 6>>) = Back
  BY DEF Token
<1>6. o = (<<Esc, Open>> \o Payload(k)) \o c
  <2>1. \A x \in BOOLEAN : Osc(k, x) = (<<Esc, Open>> \o Payload(k)) \o IF x THEN <<Esc, Back>> ELSE <<Bel>>
    BY DEF Osc
  <2> QED  BY <2>1
<1>7. /\ o \in Seq(Symbol) /\ Len(o) = Ends(k)
      /\ o[1] = Esc /\ o[2] = Open /\ o[3] = Title(k) /\ o[4] = Body(k) /\ o[5] = c[1]
      /\ Ends(k) = 6 => o[6] = c[2]
  <2> HIDE DEF c
  <2> DEFINE q == (<<Esc, Open>> \o <<Title(k), Body(k)>>) \o c
  <2>1. o = q
    BY <1>3, <1>6
  <2>2. /\ q \in Seq(Symbol) /\ Len(q) = Len(c) + 4
        /\ q[1] = Esc /\ q[2] = Open /\ q[3] = Title(k) /\ q[4] = Body(k)
        /\ \A i \in 1 .. Len(c) : q[4 + i] = c[i]
    <3>1. Esc \in Symbol /\ Open \in Symbol /\ Title(k) \in Symbol /\ Body(k) \in Symbol /\ c \in Seq(Symbol)
      BY <1>3, <1>4
    <3> QED  BY <3>1, FourMore
  <2>3. /\ 1 \in 1 .. Len(c) /\ 4 + 1 = 5 /\ 4 + 2 = 6
        /\ Ends(k) = 6 => 2 \in 1 .. Len(c)
    BY <1>4
  <2>4. q[5] = c[1] /\ (Ends(k) = 6 => q[6] = c[2]) /\ Len(q) = Ends(k)
    BY <1>4, <2>2, <2>3
  <2> HIDE DEF q, o
  <2> QED  BY <2>1, <2>2, <2>4
<1> HIDE DEF o, c
<1>8. ASSUME NEW i \in 1 .. Ends(k)
      PROVE  o[i] = Token(<<k, i>>)
  <2>1. i = 1 \/ i = 2 \/ i = 3 \/ i = 4 \/ i = 5 \/ (i = 6 /\ Ends(k) = 6)
    BY <1>4
  <2> HIDE DEF k
  <2> QED  BY <1>4, <1>5, <1>7, <2>1, Zenon
<1> QED  BY <1>7, <1>8 DEF o

LEMMA MarksMore ==
    ASSUME NEW l, NEW s \in Seq(Symbol), Marks(l, s), NEW o \in Seq(Symbol), NEW m,
           Len(m) = Len(l) + Len(o), \A i \in 1 .. Len(l) : m[i] = l[i],
           \A i \in 1 .. Len(o) : o[i] = Token(m[Len(l) + i])
    PROVE  Marks(m, s \o o)
<1> DEFINE w == s \o o
<1>1. /\ Len(s) \in Nat /\ Len(o) \in Nat /\ Len(l) = Len(s) /\ Len(w) = Len(s) + Len(o)
      /\ \A i \in 1 .. Len(s) + Len(o) : w[i] = IF i <= Len(s) THEN s[i] ELSE o[i - Len(s)]
  BY ConcatProperties, LenProperties DEF Marks
<1> HIDE DEF w
<1>2. ASSUME NEW i \in 1 .. Len(s) + Len(o)
      PROVE  w[i] = Token(m[i])
  <2>1. CASE i <= Len(s)
    BY <1>1, <2>1 DEF Marks
  <2>2. CASE ~(i <= Len(s))
    <3>1. i - Len(s) \in 1 .. Len(o) /\ Len(l) + (i - Len(s)) = i
      BY <1>1, <2>2
    <3> QED  BY <1>1, <2>2, <3>1
  <2> QED  BY <2>1, <2>2
<1>3. Marks(m, w)
  BY <1>1, <1>2 DEF Marks
<1> QED  BY <1>3 DEF w

PartOf(m, l) == \A i \in 1 .. Len(m) : i \in 1 .. Len(l) /\ m[i] = l[i]

LEMMA Parts ==
    /\ \A m, l, n : PartOf(m, l) /\ UpTo(l, n) => UpTo(m, n)
    /\ \A m, l, n, k : PartOf(m, l) /\ PartOf(n, k) /\ Earlier(l, k) => Earlier(m, n)
    /\ \A n : UpTo(<<>>, n) /\ Earlier(<<>>, n) /\ Earlier(n, <<>>) /\ PartOf(<<>>, n)
<1>1. \A m, l, n : PartOf(m, l) /\ UpTo(l, n) => UpTo(m, n)
  BY DEF PartOf, UpTo
<1>2. \A m, l, n, k : PartOf(m, l) /\ PartOf(n, k) /\ Earlier(l, k) => Earlier(m, n)
  BY DEF PartOf, Earlier
<1>3. \A n : UpTo(<<>>, n) /\ Earlier(<<>>, n) /\ Earlier(n, <<>>) /\ PartOf(<<>>, n)
  BY NoPlaces DEF UpTo, Earlier, PartOf
<1> QED  BY <1>1, <1>2, <1>3

LEMMA CatIs ==
    ASSUME Typed
    PROVE  cat.on \in BOOLEAN /\ cat.file \in 0 .. Len(files) /\ DOMAIN cat = {"on", "file"}
  BY DEF Typed

LEMMA WholeIs ==
    ASSUME Typed, NEW f \in 1 .. Len(files)
    PROVE  /\ Whole(f) \in Seq(Symbol) /\ Len(files[f]) \in Nat /\ Len(files[f]) <= Len(Whole(f))
           /\ \A i \in 1 .. Len(files[f]) : Whole(f)[i] = files[f][i]
<1>1. /\ FileAt(f) = files[f] /\ files[f] \in Seq(Symbol) /\ pending \in Seq(Symbol) /\ Len(files[f]) \in Nat
      /\ Len(pending) \in Nat
  <2>1. f # 0
    BY Counts
  <2>2. pending \in Seq(Symbol) /\ Len(pending) \in Nat
    BY LenProperties DEF Typed
  <2> QED  BY <2>1, <2>2, Counts DEF FileAt
<1> DEFINE w == files[f] \o pending
<1>2. /\ w \in Seq(Symbol) /\ Len(w) = Len(files[f]) + Len(pending)
      /\ \A i \in 1 .. Len(files[f]) + Len(pending) : w[i] = IF i <= Len(files[f]) THEN files[f][i] ELSE pending[i - Len(files[f])]
  BY <1>1, ConcatProperties
<1>3. Whole(f) = w \/ Whole(f) = files[f]
  BY <1>1 DEF Whole
<1> HIDE DEF w
<1>4. \A i \in 1 .. Len(files[f]) : i \in 1 .. Len(files[f]) + Len(pending) /\ i <= Len(files[f])
  BY <1>1
<1> QED  BY <1>1, <1>2, <1>3, <1>4

LEMMA SameStreams ==
    ASSUME Typed, NEW L, Streams(L), UNCHANGED <<files, cat, pending, said>>
    PROVE  Streams(L)' /\ Longer(L, L)
<1>1. \A f : Whole(f)' = Whole(f) /\ Writes(f)' = Writes(f)
  BY DEF Whole, FileAt, Writes
<1>2. Streams(L)'
  BY <1>1 DEF Streams
<1> QED  BY <1>2, Counts DEF Longer

LEMMA FilesMore ==
    ASSUME Typed, files' = files \/ files' = Append(files, <<>>)
    PROVE  /\ Len(files') \in Nat /\ Len(files) \in Nat /\ Len(files) <= Len(files')
           /\ files' \in Seq(Seq(Symbol))
           /\ \A f \in 1 .. Len(files') : Len(files'[f]) \in Nat
           /\ \A f \in 1 .. Len(files) : files'[f] = files[f]
           /\ \A f \in 1 .. Len(files') : f \in 1 .. Len(files) \/ (f = Len(files) + 1 /\ f = Len(files') /\ files'[f] = <<>>)
<1>1. Len(files) \in Nat /\ files \in Seq(Seq(Symbol)) /\ \A f \in 1 .. Len(files) : Len(files[f]) \in Nat
  BY Counts DEF Typed
<1>2. CASE files' = files
  BY <1>1, <1>2
<1>3. CASE files' = Append(files, <<>>)
  <2>1. <<>> \in Seq(Symbol) /\ Len(<<>>) = 0
    BY EmptySeq
  <2>2. /\ files' \in Seq(Seq(Symbol)) /\ Len(files') = Len(files) + 1
        /\ \A f \in 1 .. Len(files) : files'[f] = files[f]
        /\ files'[Len(files) + 1] = <<>>
    BY <1>1, <1>3, <2>1, AppendProperties
  <2>3. \A f \in 1 .. Len(files') : f \in 1 .. Len(files) \/ f = Len(files) + 1
    BY <1>1, <2>2
  <2> QED  BY <1>1, <2>1, <2>2, <2>3
<1> QED  BY <1>2, <1>3

\* A pipe is closed, or a new one opened: what its cat has not written is lost.
LEMMA CutStreams ==
    ASSUME Typed, NEW L, Streams(L), said' = said,
           files' = files \/ files' = Append(files, <<>>),
           cat'.on => pending' = <<>> /\ cat'.file \notin 1 .. Len(files)
    PROVE  \E M : Streams(M)' /\ Longer(L, M)
<1> PICK M : M = [f \in Nat |-> IF f \in 1 .. Len(files) THEN SubSeq(L[f], 1, Len(files[f])) ELSE <<>>]
  OBVIOUS
<1>1. /\ Len(files') \in Nat /\ Len(files) \in Nat /\ Len(files) <= Len(files')
      /\ \A f \in 1 .. Len(files') : Len(files'[f]) \in Nat
      /\ \A f \in 1 .. Len(files) : files'[f] = files[f]
      /\ \A f \in 1 .. Len(files') : f \in 1 .. Len(files) \/ files'[f] = <<>>
  BY FilesMore
<1>2. ASSUME NEW f \in 1 .. Len(files)
      PROVE  /\ Chain(M[f]) /\ Marks(M[f], files[f]) /\ Len(M[f]) = Len(files[f]) /\ Len(files[f]) \in Nat
             /\ PartOf(M[f], L[f])
  <2>1. f \in Nat /\ f \in 0 .. Len(files)
    BY <1>1
  <2>2. M[f] = SubSeq(L[f], 1, Len(files[f]))
    BY <2>1
  <2>3. Chain(L[f]) /\ Marks(L[f], Whole(f))
    BY <2>1 DEF Streams
  <2>4. /\ Len(files[f]) \in Nat /\ Len(files[f]) <= Len(Whole(f)) /\ Len(Whole(f)) = Len(L[f]) /\ Len(L[f]) \in Nat
        /\ \A i \in 1 .. Len(files[f]) : Whole(f)[i] = files[f][i]
    BY <2>3, WholeIs, ChainIs DEF Marks
  <2>5. Len(files[f]) \in 0 .. Len(L[f])
    BY <2>4
  <2>6. /\ Chain(M[f]) /\ Len(M[f]) = Len(files[f])
        /\ \A i \in 1 .. Len(files[f]) : i \in 1 .. Len(L[f]) /\ M[f][i] = L[f][i]
    BY <2>2, <2>3, <2>5, Prefix
  <2>7. \A i \in 1 .. Len(files[f]) : files[f][i] = Token(M[f][i])
    <3> TAKE i \in 1 .. Len(files[f])
    <3>1. Whole(f)[i] = files[f][i] /\ i \in 1 .. Len(Whole(f)) /\ M[f][i] = L[f][i]
      BY <2>4, <2>6
    <3>2. Whole(f)[i] = Token(L[f][i])
      BY <2>3, <3>1 DEF Marks
    <3> QED  BY <3>1, <3>2
  <2> QED  BY <2>4, <2>6, <2>7 DEF Marks, PartOf
<1>3. \A f \in 0 .. Len(files') : f \in 1 .. Len(files) \/ (M[f] = <<>> /\ FileAt(f)' = <<>>)
  <2> TAKE f \in 0 .. Len(files')
  <2>1. CASE f \notin 1 .. Len(files)
    <3>1. f \in Nat /\ (f = 0 \/ f \in 1 .. Len(files'))
      BY <1>1
    <3>2. M[f] = <<>>
      BY <2>1, <3>1
    <3>3. FileAt(f)' = <<>>
      BY <1>1, <2>1, <3>1 DEF FileAt
    <3> QED  BY <3>2, <3>3
  <2> QED  BY <2>1
<1>4. ASSUME NEW f \in 1 .. Len(files)
      PROVE  FileAt(f)' = files[f] /\ ~Writes(f)' /\ Whole(f)' = files[f]
  <2>1. f # 0 /\ files'[f] = files[f]
    BY <1>1
  <2>2. FileAt(f)' = files[f]
    BY <2>1 DEF FileAt
  <2>3. ~(cat'.on /\ cat'.file = f)
    OBVIOUS
  <2> QED  BY <2>2, <2>3 DEF Writes, Whole
<1>5. ASSUME NEW f \in 0 .. Len(files'), f \notin 1 .. Len(files)
      PROVE  M[f] = <<>> /\ Whole(f)' = <<>>
  <2>1. M[f] = <<>> /\ FileAt(f)' = <<>>
    BY <1>3, <1>5
  <2>2. <<>> \o <<>> = <<>>
    BY ConcatEmptySeq, EmptySeq
  <2>3. cat'.on => pending' = <<>>
    OBVIOUS
  <2> QED  BY <2>1, <2>2, <2>3 DEF Whole
<1>6. ASSUME NEW f \in 0 .. Len(files')
      PROVE  Chain(M[f]) /\ Marks(M[f], Whole(f)') /\ UpTo(M[f], said') /\ (Writes(f)' => Over(M[f]))
  <2>1. CASE f \in 1 .. Len(files)
    <3>1. UpTo(L[f], said)
      BY <1>1, <2>1 DEF Streams
    <3>2. UpTo(M[f], said)
      BY <1>2, <2>1, <3>1, Parts
    <3> QED  BY <1>2, <1>4, <2>1, <3>2
  <2>2. CASE f \notin 1 .. Len(files)
    <3>1. M[f] = <<>> /\ Whole(f)' = <<>>
      BY <1>5, <2>2
    <3>2. UpTo(M[f], said')
      BY <3>1, Parts
    <3> QED  BY <3>1, <3>2, NoPlaces
  <2> QED  BY <2>1, <2>2
<1>7. ASSUME NEW f \in 0 .. Len(files'), NEW g \in 0 .. Len(files'), f # 0 /\ (f < g \/ g = 0)
      PROVE  Earlier(M[f], M[g])
  <2>1. CASE f \in 1 .. Len(files) /\ g \in 1 .. Len(files)
    <3>1. Earlier(L[f], L[g])
      BY <1>1, <1>7, <2>1 DEF Streams
    <3> QED  BY <1>2, <2>1, <3>1, Parts
  <2>2. CASE ~(f \in 1 .. Len(files) /\ g \in 1 .. Len(files))
    <3>1. M[f] = <<>> \/ M[g] = <<>>
      BY <1>3, <2>2
    <3> QED  BY <3>1, Parts
  <2> QED  BY <2>1, <2>2
<1>8. Streams(M)'
  BY <1>6, <1>7 DEF Streams
<1>9. Longer(L, M)
  BY <1>1, <1>2 DEF Longer, PartOf
<1> QED  BY <1>8, <1>9

\* A cat opens its file: what the pane had printed for it is now of that file.
LEMMA OpenStreams ==
    ASSUME Typed, CatOk, NEW L, Streams(L), UNCHANGED <<pending, said>>, cat.on, cat.file = 0,
           cat'.on, cat'.file = Len(files'),
           (files' = files /\ files # <<>> /\ files[Len(files)] = <<>>) \/ files' = Append(files, <<>>)
    PROVE  \E M : Streams(M)' /\ Longer(L, M)
<1> PICK n : n = Len(files')
  OBVIOUS
<1> PICK M : M = [f \in Nat |-> IF f = n THEN L[0] ELSE IF f = 0 THEN <<>> ELSE L[f]]
  OBVIOUS
<1>1. /\ n \in Nat /\ Len(files) \in Nat /\ Len(files) <= n
      /\ \A f \in 1 .. n : Len(files'[f]) \in Nat
      /\ \A f \in 1 .. Len(files) : files'[f] = files[f]
      /\ \A f \in 1 .. n : f \in 1 .. Len(files) \/ files'[f] = <<>>
  BY FilesMore
<1>2. n # 0 /\ files'[n] = <<>> /\ (n \in 1 .. Len(files) => files[n] = <<>>)
      /\ \A f \in 1 .. n : f = n \/ f \in 1 .. Len(files)
  <2>1. CASE files' = files /\ files # <<>> /\ files[Len(files)] = <<>>
    <3>1. n = Len(files) /\ n # 0
      BY <2>1, EmptySeq DEF Typed
    <3> QED  BY <1>1, <2>1, <3>1
  <2>2. CASE files' = Append(files, <<>>)
    <3>1. n = Len(files) + 1 /\ files'[n] = <<>>
      <4>1. <<>> \in Seq(Symbol)
        OBVIOUS
      <4> QED  BY <2>2, <4>1, AppendProperties DEF Typed
    <3> QED  BY <1>1, <3>1
  <2> QED  BY <2>1, <2>2
<1>3. M[n] = L[0] /\ M[0] = <<>> /\ \A f \in 1 .. n : f # n => M[f] = L[f] /\ f \in 1 .. Len(files)
  BY <1>1, <1>2
<1>4. Chain(L[0]) /\ Marks(L[0], pending) /\ UpTo(L[0], said) /\ Over(L[0])
  <2>1. Chain(L[0]) /\ Marks(L[0], Whole(0)) /\ UpTo(L[0], said) /\ Over(L[0])
    BY <1>1 DEF Streams, Writes
  <2>2. Whole(0) = <<>> \o pending
    BY DEF Whole, FileAt
  <2>3. <<>> \o pending = pending
    BY ConcatEmptySeq DEF Typed
  <2> QED  BY <2>1, <2>2, <2>3
<1>5. Whole(n)' = pending /\ Whole(0)' = <<>>
  <2>1. FileAt(n)' = <<>> /\ FileAt(0)' = <<>>
    BY <1>2 DEF FileAt
  <2>2. <<>> \o pending = pending
    BY ConcatEmptySeq DEF Typed
  <2>3. Whole(n)' = <<>> \o pending /\ Whole(0)' = <<>>
    BY <1>2, <2>1 DEF Whole
  <2> QED  BY <2>2, <2>3
<1>6. ASSUME NEW f \in 1 .. n, f # n
      PROVE  /\ Chain(M[f]) /\ Marks(M[f], Whole(f)') /\ UpTo(M[f], said') /\ ~Writes(f)'
  <2>1. f \in 1 .. Len(files) /\ f \in 0 .. Len(files) /\ f # 0 /\ M[f] = L[f] /\ files'[f] = files[f]
    BY <1>1, <1>3, <1>6
  <2>2. Whole(f) = files[f] /\ Whole(f)' = files[f]
    BY <1>6, <2>1 DEF Whole, FileAt
  <2>3. Chain(L[f]) /\ Marks(L[f], Whole(f)) /\ UpTo(L[f], said)
    BY <2>1 DEF Streams
  <2> QED  BY <1>6, <2>1, <2>2, <2>3 DEF Writes
<1>7. ASSUME NEW f \in 0 .. Len(files')
      PROVE  Chain(M[f]) /\ Marks(M[f], Whole(f)') /\ UpTo(M[f], said') /\ (Writes(f)' => Over(M[f]))
  <2>1. CASE f = n
    <3>1. M[f] = L[0] /\ Whole(f)' = pending
      BY <1>3, <1>5, <2>1
    <3> QED  BY <1>4, <3>1
  <2>2. CASE f # n /\ f # 0
    <3>1. f \in 1 .. n
      BY <1>1, <2>2
    <3> QED  BY <1>6, <2>2, <3>1
  <2>3. CASE f # n /\ f = 0
    <3>1. M[f] = <<>> /\ Whole(f)' = <<>>
      BY <1>3, <1>5, <2>3
    <3>2. UpTo(M[f], said')
      BY <3>1, Parts
    <3> QED  BY <3>1, <3>2, NoPlaces
  <2> QED  BY <2>1, <2>2, <2>3
<1>8. ASSUME NEW f \in 0 .. Len(files'), NEW g \in 0 .. Len(files'), f # 0 /\ (f < g \/ g = 0)
      PROVE  Earlier(M[f], M[g])
  <2>1. CASE g = 0
    <3>1. M[g] = <<>>
      BY <1>3, <2>1
    <3> QED  BY <3>1, Parts
  <2>2. CASE g # 0
    <3>1. f \in 1 .. n /\ f # n /\ f \in 1 .. Len(files) /\ M[f] = L[f]
      BY <1>1, <1>3, <1>8, <2>2
    <3>2. CASE g = n
      <4>1. M[g] = L[0]
        BY <1>3, <3>2
      <4>2. Earlier(L[f], L[0])
        BY <1>1, <3>1 DEF Streams
      <4> QED  BY <3>1, <4>1, <4>2
    <3>3. CASE g # n
      <4>1. g \in 1 .. Len(files) /\ M[g] = L[g]
        BY <1>1, <1>3, <2>2, <3>3
      <4>2. Earlier(L[f], L[g])
        BY <1>1, <1>8, <2>2, <3>1, <4>1 DEF Streams
      <4> QED  BY <3>1, <4>1, <4>2
    <3> QED  BY <3>2, <3>3
  <2> QED  BY <2>1, <2>2
<1>9. Streams(M)'
  BY <1>7, <1>8 DEF Streams
<1>10. Longer(L, M)
  <2>1. ASSUME NEW f \in 1 .. Len(files)
        PROVE  /\ Len(files'[f]) \in Nat /\ Len(files[f]) <= Len(files'[f])
               /\ \A i \in 1 .. Len(files[f]) : M[f][i] = L[f][i]
    <3>1. f \in 1 .. n /\ files'[f] = files[f] /\ Len(files'[f]) \in Nat
      BY <1>1
    <3>2. f = n => Len(files[f]) = 0
      BY <1>2
    <3>3. f # n => M[f] = L[f]
      BY <1>3, <3>1
    <3> QED  BY <3>1, <3>2, <3>3
  <2> QED  BY <1>1, <2>1 DEF Longer
<1> QED  BY <1>9, <1>10

LEMMA Halves ==
    ASSUME NEW E, NEW q \in Seq(E), NEW n \in 1 .. Len(q)
    PROVE  LET a == SubSeq(q, 1, n)  b == SubSeq(q, n + 1, Len(q)) IN
           a \in Seq(E) /\ b \in Seq(E) /\ a \o b = q
<1> DEFINE a == SubSeq(q, 1, n)
           b == SubSeq(q, n + 1, Len(q))
<1>1. /\ Len(q) \in Nat /\ n \in Int /\ 1 \in Int /\ n + 1 \in Int /\ Len(q) \in Int
      /\ \A i \in 1 .. Len(q) : q[i] \in E
  BY ElementOfSeq, LenProperties
<1>2. (\A i \in 1 .. n : q[i] \in E) /\ (\A i \in n + 1 .. Len(q) : q[i] \in E)
  BY <1>1
<1>3. a \in Seq(E)
  BY <1>1, <1>2, SubSeqProperties
<1>4. b \in Seq(E)
  BY <1>1, <1>2, SubSeqProperties
<1>5. a \o b = q
  <2>1. 1 \in 1 .. Len(q) + 1 /\ n \in 1 - 1 .. Len(q) /\ Len(q) \in n .. Len(q)
    BY <1>1
  <2>2. a \o b = SubSeq(q, 1, Len(q))
    BY <2>1, ConcatAdjacentSubSeq
  <2> QED  BY <2>2, SubSeqFull
<1> QED  BY <1>3, <1>4, <1>5

Halved(E, s, a, b) ==
    /\ s \o a \in Seq(E) /\ Len(s \o a) \in Nat /\ Len(s) <= Len(s \o a) /\ Len(s) \in Nat
    /\ (s \o a) \o b = s \o (a \o b)

LEMMA ConcatHalves ==
    ASSUME NEW E, NEW s \in Seq(E), NEW a \in Seq(E), NEW b \in Seq(E)
    PROVE  Halved(E, s, a, b)
<1>1. Len(s) \in Nat /\ Len(a) \in Nat /\ s \o a \in Seq(E) /\ Len(s \o a) = Len(s) + Len(a)
  BY ConcatProperties, LenProperties
<1>2. (s \o a) \o b = s \o (a \o b)
  BY ConcatAssociative
<1> QED  BY <1>1, <1>2 DEF Halved

\* The file of a cat gets what the cat no longer has.
LEMMA WriteStreams ==
    ASSUME Typed, NEW L, Streams(L), CatWrites
    PROVE  /\ Streams(L)' /\ Longer(L, L)
           /\ files' \in Seq(Seq(Symbol)) /\ pending' \in Seq(Symbol) /\ Len(files') = Len(files)
           /\ \A f \in 1 .. Len(files') : Len(files'[f]) \in Nat
<1>0. PICK c : c = cat.file
  OBVIOUS
<1>1. c \in 1 .. Len(files) /\ cat.on /\ cat' = cat /\ said' = said /\ Len(files) \in Nat /\ c # 0
  BY <1>0, CatIs, Counts DEF CatWrites
<1>2. PICK a \in Seq(Symbol), b \in Seq(Symbol) :
        files' = [files EXCEPT ![c] = files[c] \o a] /\ pending' = b /\ a \o b = pending
  <2> DEFINE n == Min({WriteSize, Len(pending)})
  <2>1. Len(pending) \in Nat \ {0} /\ WriteSize \in Nat \ {0} /\ pending \in Seq(Symbol)
    BY TapAssumption, EmptySeq DEF Typed, CatWrites
  <2>2. {WriteSize, Len(pending)} \in SUBSET Nat /\ {WriteSize, Len(pending)} # {} /\ Len(pending) \in {WriteSize, Len(pending)}
    BY <2>1
  <2>3. n \in {WriteSize, Len(pending)} /\ n <= Len(pending)
    BY <2>2, MinOfSet
  <2>4. n \in 1 .. Len(pending)
    BY <2>1, <2>3
  <2>5. files' = [files EXCEPT ![c] = files[c] \o SubSeq(pending, 1, n)] /\ pending' = SubSeq(pending, n + 1, Len(pending))
    BY <1>0 DEF CatWrites
  <2>6. /\ SubSeq(pending, 1, n) \in Seq(Symbol) /\ SubSeq(pending, n + 1, Len(pending)) \in Seq(Symbol)
        /\ SubSeq(pending, 1, n) \o SubSeq(pending, n + 1, Len(pending)) = pending
    <3> HIDE DEF n
    <3> QED  BY <2>1, <2>4, Halves
  <2> HIDE DEF n
  <2> QED  BY <2>5, <2>6, Zenon
<1>3. PICK x : x = files[c] \o a
  OBVIOUS
<1>4. /\ files[c] \in Seq(Symbol) /\ Len(files[c]) \in Nat /\ x \in Seq(Symbol)
      /\ Len(x) \in Nat /\ Len(files[c]) <= Len(x)
      /\ x \o b = files[c] \o pending
  <2>1. files[c] \in Seq(Symbol)
    BY <1>1, Counts
  <2>2. ASSUME NEW s \in Seq(Symbol)
        PROVE  /\ s \o a \in Seq(Symbol) /\ Len(s \o a) \in Nat /\ Len(s) <= Len(s \o a)
               /\ Len(s) \in Nat
               /\ (s \o a) \o b = s \o (a \o b)
    <3>1. Halved(Symbol, s, a, b)
      BY ConcatHalves
    <3> QED  BY <3>1 DEF Halved
  <2>3. a \o b = pending
    BY <1>2
  <2> QED  BY <1>3, <2>1, <2>2, <2>3, Zenon
<1>5. /\ files' \in Seq(Seq(Symbol)) /\ Len(files') = Len(files)
      /\ \A f \in 1 .. Len(files) : files'[f] = IF f = c THEN x ELSE files[f]
  <2>1. files \in Seq(Seq(Symbol)) /\ files' = [files EXCEPT ![c] = x]
    BY <1>2, <1>3 DEF Typed
  <2> QED  BY <1>1, <1>4, <2>1
<1>6. \A f \in 0 .. Len(files) : Whole(f)' = Whole(f) /\ Writes(f)' = Writes(f)
  <2> TAKE f \in 0 .. Len(files)
  <2>1. CASE f = c
    <3>1. FileAt(f)' = x /\ FileAt(f) = files[c]
      BY <1>1, <1>5, <2>1 DEF FileAt
    <3>2. Whole(f)' = x \o b /\ Whole(f) = files[c] \o pending
      BY <1>0, <1>1, <1>2, <2>1, <3>1 DEF Whole
    <3> QED  BY <1>1, <1>4, <3>2 DEF Writes
  <2>2. CASE f # c
    <3>1. FileAt(f)' = FileAt(f)
      BY <1>1, <1>5, <2>2 DEF FileAt
    <3> QED  BY <1>0, <1>1, <2>2, <3>1 DEF Whole, Writes
  <2> QED  BY <2>1, <2>2
<1>7. Streams(L)'
  BY <1>1, <1>5, <1>6 DEF Streams
<1>8. \A f \in 1 .. Len(files) : Len(files'[f]) \in Nat /\ Len(files[f]) <= Len(files'[f])
  BY <1>1, <1>4, <1>5, Counts
<1>9. Longer(L, L)
  BY <1>1, <1>5, <1>8 DEF Longer
<1> QED  BY <1>1, <1>2, <1>5, <1>7, <1>8, <1>9

\* What is printed is the next notification, of the file of the cat.
LEMMA SayStreams ==
    ASSUME Typed, CatOk, NEW L, Streams(L), Say
    PROVE  (\E M : Streams(M)' /\ Longer(L, M)) /\ pending' \in Seq(Symbol) /\ said' = said + 1
<1>0. /\ said \in Nat /\ said' = said + 1 /\ files' = files /\ cat' = cat /\ Len(files) \in Nat
      /\ \A f \in 1 .. Len(files) : Len(files[f]) \in Nat
  BY Counts DEF Typed, Say
<1>1. \A l, k : Chain(l) /\ UpTo(l, said) => UpTo(l, said')
  <2> SUFFICES ASSUME NEW l, Chain(l), UpTo(l, said), NEW i \in 1 .. Len(l)
               PROVE  l[i][1] <= said + 1
    BY <1>0 DEF UpTo
  <2>1. l[i] \in Place /\ l[i][1] \in Nat /\ l[i][1] <= said
    BY ChainIs, PlaceIs DEF UpTo
  <2> QED  BY <1>0, <2>1
<1>2. \A f \in 0 .. Len(files) : Chain(L[f]) /\ Marks(L[f], Whole(f)) /\ UpTo(L[f], said) /\ (Writes(f) => Over(L[f]))
  BY DEF Streams
<1>3. \A f, g \in 0 .. Len(files) : f # 0 /\ (f < g \/ g = 0) => Earlier(L[f], L[g])
  BY DEF Streams
<1>4. \A f : Writes(f)' = Writes(f) /\ FileAt(f)' = FileAt(f)
  BY <1>0 DEF Writes, FileAt
<1>5. CASE ~cat.on
  <2>1. pending' = pending
    BY <1>5 DEF Say
  <2>2. \A f : Whole(f)' = Whole(f)
    BY <1>0, <1>4, <2>1 DEF Whole
  <2>3. Streams(L)'
    BY <1>0, <1>1, <1>2, <1>3, <1>4, <2>2 DEF Streams
  <2>4. Longer(L, L)
    BY <1>0 DEF Longer
  <2> QED  BY <1>0, <2>1, <2>3, <2>4 DEF Typed
<1>6. CASE cat.on
  <2>1. PICK c \in 0 .. Len(files) : c = cat.file
    BY CatIs
  <2>2. PICK o : o = Osc(said + 1, said % 2 = 0)
    OBVIOUS
  <2>3. /\ o \in Seq(Symbol) /\ Len(o) = Ends(said + 1)
        /\ \A i \in 1 .. Ends(said + 1) : o[i] = Token(<<said + 1, i>>)
    BY <1>0, <2>2, OscMarks
  <2>4. pending' = pending \o o
    <3>1. pending' = pending \o Osc(said', said % 2 = 0)
      BY <1>6 DEF Say
    <3> QED  BY <1>0, <2>2, <3>1
  <2>5. pending' \in Seq(Symbol)
    <3>1. pending \in Seq(Symbol)
      BY DEF Typed
    <3> QED  BY <2>3, <2>4, <3>1, ConcatProperties
  <2>6. PICK m : m = L[c] \o Places(said + 1)
    OBVIOUS
  <2>7. /\ Chain(m) /\ Over(m) /\ UpTo(m, said') /\ Len(m) = Len(L[c]) + Ends(said + 1)
        /\ \A i \in 1 .. Len(L[c]) : m[i] = L[c][i]
        /\ \A i \in 1 .. Ends(said + 1) : m[Len(L[c]) + i] = <<said + 1, i>>
        /\ \A i \in 1 .. Len(m) : i \in 1 .. Len(L[c]) \/ m[i][1] = said + 1
    <3>1. Chain(L[c]) /\ Over(L[c]) /\ UpTo(L[c], said)
      BY <1>2, <1>6, <2>1 DEF Writes
    <3> QED  BY <1>0, <2>6, <3>1, OneMore
  <2>8. Whole(c) \in Seq(Symbol) /\ Whole(c)' = Whole(c) \o o
    <3>1. FileAt(c) \in Seq(Symbol) /\ pending \in Seq(Symbol)
      BY <2>1, Counts DEF FileAt, Typed
    <3>2. Whole(c) = FileAt(c) \o pending /\ Whole(c)' = FileAt(c) \o (pending \o o)
      BY <1>0, <1>4, <1>6, <2>1, <2>4 DEF Whole
    <3>3. FileAt(c) \o pending \in Seq(Symbol) /\ (FileAt(c) \o pending) \o o = FileAt(c) \o (pending \o o)
      <4>1. ASSUME NEW s \in Seq(Symbol), NEW p \in Seq(Symbol)
            PROVE  s \o p \in Seq(Symbol) /\ (s \o p) \o o = s \o (p \o o)
        <5>1. Halved(Symbol, s, p, o)
          BY <2>3, ConcatHalves
        <5> QED  BY <5>1 DEF Halved
      <4> QED  BY <3>1, <4>1, Zenon
    <3> QED  BY <3>2, <3>3
  <2>9. Marks(m, Whole(c)')
    <3>1. Marks(L[c], Whole(c))
      BY <1>2
    <3>2. \A i \in 1 .. Len(o) : o[i] = Token(m[Len(L[c]) + i])
      BY <2>3, <2>7
    <3> QED  BY <2>3, <2>7, <2>8, <3>1, <3>2, MarksMore
  <2>10. PICK M : /\ M[c] = m
                  /\ \A f \in 0 .. Len(files) : f # c => M[f] = L[f]
    <3>1. [f \in 0 .. Len(files) |-> IF f = c THEN m ELSE L[f]][c] = m
      OBVIOUS
    <3>2. \A f \in 0 .. Len(files) : f # c => [g \in 0 .. Len(files) |-> IF g = c THEN m ELSE L[g]][f] = L[f]
      OBVIOUS
    <3> QED  BY <3>1, <3>2
  <2>11. ASSUME NEW f \in 0 .. Len(files)
         PROVE  Chain(M[f]) /\ Marks(M[f], Whole(f)') /\ UpTo(M[f], said') /\ (Writes(f)' => Over(M[f]))
    <3>1. CASE f = c
      BY <2>7, <2>9, <2>10, <3>1
    <3>2. CASE f # c
      <4>1. M[f] = L[f] /\ Whole(f)' = Whole(f)
        BY <1>0, <1>4, <2>1, <2>10, <3>2 DEF Whole
      <4> QED  BY <1>1, <1>2, <1>4, <4>1
    <3> QED  BY <3>1, <3>2
  <2>12. ASSUME NEW f \in 0 .. Len(files), NEW g \in 0 .. Len(files), f # 0 /\ (f < g \/ g = 0)
         PROVE  Earlier(M[f], M[g])
    <3>1. Earlier(L[f], L[g])
      BY <1>3, <2>12
    <3>2. CASE f # c /\ g # c
      BY <2>10, <3>1, <3>2
    <3>3. CASE f # c /\ g = c
      <4>1. M[f] = L[f] /\ M[g] = m
        BY <2>10, <3>3
      <4>2. ASSUME NEW i \in 1 .. Len(L[f]), NEW j \in 1 .. Len(m)
            PROVE  L[f][i][1] < m[j][1]
        <5>1. L[f][i] \in Place /\ L[f][i][1] \in Nat /\ L[f][i][1] <= said
          BY <1>2, ChainIs, PlaceIs DEF UpTo
        <5>2. CASE j \in 1 .. Len(L[c])
          BY <2>7, <3>1, <3>3, <5>2 DEF Earlier
        <5>3. CASE m[j][1] = said + 1
          BY <1>0, <5>1, <5>3
        <5> QED  BY <2>7, <5>2, <5>3
      <4> QED  BY <4>1, <4>2 DEF Earlier
    <3>4. CASE f = c
      <4>1. c # 0 /\ c = Len(files)
        BY <1>6, <2>1, <2>12, <3>4 DEF CatOk
      <4>2. g = 0 /\ g # c
        BY <1>0, <2>12, <3>4, <4>1
      <4>3. Marks(L[0], <<>>)
        <5>1. Whole(0) = <<>>
          BY <2>1, <4>1 DEF Whole, FileAt
        <5> QED  BY <1>0, <1>2, <5>1
      <4>4. Len(M[g]) = 0
        BY <2>10, <4>2, <4>3, EmptySeq DEF Marks
      <4> QED  BY <4>4 DEF Earlier
    <3> QED  BY <3>2, <3>3, <3>4
  <2>13. Streams(M)'
    BY <1>0, <2>11, <2>12 DEF Streams
  <2>14. Longer(L, M)
    <3>1. ASSUME NEW f \in 1 .. Len(files), NEW i \in 1 .. Len(files[f])
          PROVE  M[f][i] = L[f][i]
      <4>1. f \in 0 .. Len(files)
        OBVIOUS
      <4>2. Len(files[f]) <= Len(L[f]) /\ Len(L[f]) \in Nat /\ Len(files[f]) \in Nat
        BY <1>2, <4>1, WholeIs, ChainIs DEF Marks
      <4>3. i \in 1 .. Len(L[f])
        BY <4>2
      <4> QED  BY <2>7, <2>10, <4>1, <4>3
    <3> QED  BY <1>0, <3>1 DEF Longer
  <2> QED  BY <1>0, <2>5, <2>13, <2>14
<1> QED  BY <1>5, <1>6

-----------------------------------------------------------------------------
(* The goroutines *)

LEMMA NewParserIs == IsParser(NewParser) /\ NewParser \in [buf : Seq(Symbol), osc : BOOLEAN, out : Seq(Seq(Symbol))]
<1>1. NewParser = [buf |-> <<>>, osc |-> FALSE, out |-> <<>>] /\ <<>> \in Seq(Symbol) /\ <<>> \in Seq(Seq(Symbol))
  BY EmptySeq DEF NewParser
<1> QED  BY <1>1 DEF IsParser

LEMMA NewTapIs ==
    ASSUME NEW f \in Nat, NEW old
    PROVE  /\ NewTap(f, old) \in Tap /\ NewTap(f, old).file = f /\ NewTap(f, old).pos = 0
           /\ NewTap(f, old).ch = <<>> /\ NewTap(f, old).parser = NewParser
<1> DEFINE b == \A t \in DOMAIN old : ~old[t].tail
<1>1. NewTap(f, old) = [file |-> f, pos |-> 0, ch |-> <<>>, parser |-> NewParser, cancelled |-> FALSE,
                        tail |-> TRUE, reader |-> TRUE, fresh |-> b]
  BY DEF NewTap
<1>2. b \in BOOLEAN /\ <<>> \in Seq(Seq(Symbol))
  BY EmptySeq
<1> HIDE DEF b
<1> QED  BY <1>1, <1>2, NewParserIs DEF Tap

EndedTap(a) == [a EXCEPT !.tail = FALSE, !.reader = FALSE, !.ch = <<>>, !.parser = NewParser]
ReadNoMore(a) == [a EXCEPT !.reader = FALSE, !.ch = <<>>, !.parser = NewParser]

LEMMA TapChanged ==
    ASSUME NEW a \in Tap
    PROVE  LET e == EndedTap(a)
               c == [a EXCEPT !.cancelled = TRUE]
               q == [a EXCEPT !.tail = FALSE]
               r == ReadNoMore(a)
           IN  /\ e \in Tap /\ c \in Tap /\ q \in Tap /\ r \in Tap
               /\ TapKept(a, e) /\ TapKept(a, c) /\ TapKept(a, q) /\ TapKept(a, r) /\ TapKept(a, a)
<1> DEFINE e == EndedTap(a)
           c == [a EXCEPT !.cancelled = TRUE]
           q == [a EXCEPT !.tail = FALSE]
           r == ReadNoMore(a)
<1>1. <<>> \in Seq(Seq(Symbol))
  BY EmptySeq
<1>2. e \in Tap /\ e.file = a.file /\ e.pos = a.pos /\ e.reader = FALSE
  BY <1>1, NewParserIs DEF Tap, EndedTap
<1>3. c \in Tap /\ c.file = a.file /\ c.pos = a.pos /\ c.reader = a.reader /\ c.ch = a.ch /\ c.parser = a.parser
  BY DEF Tap
<1>4. q \in Tap /\ q.file = a.file /\ q.pos = a.pos /\ q.reader = a.reader /\ q.ch = a.ch /\ q.parser = a.parser
  BY DEF Tap
<1>5. r \in Tap /\ r.file = a.file /\ r.pos = a.pos /\ r.reader = FALSE
  BY <1>1, NewParserIs DEF Tap, ReadNoMore
<1> HIDE DEF e, c, q, r
<1>6. TapKept(a, e) /\ TapKept(a, c) /\ TapKept(a, q) /\ TapKept(a, r) /\ TapKept(a, a)
  BY <1>2, <1>3, <1>4, <1>5 DEF TapKept
<1> QED  BY <1>2, <1>3, <1>4, <1>5, <1>6 DEF e, c, q, r

\* Its chunks and place, or its chunks and parser.
TailWas(a, ch, p) == [a EXCEPT !.ch = ch, !.pos = p]
ReaderWas(a, ch, q) == [a EXCEPT !.ch = ch, !.parser = q]

LEMMA TapRead ==
    ASSUME NEW a \in Tap, NEW ch \in Seq(Seq(Symbol)), NEW p \in Nat, NEW q, IsParser(q)
    PROVE  LET x == TailWas(a, ch, p)
               y == ReaderWas(a, ch, q)
           IN  /\ x \in Tap /\ x.file = a.file /\ x.pos = p /\ x.ch = ch /\ x.parser = a.parser /\ x.reader = a.reader
               /\ y \in Tap /\ y.file = a.file /\ y.pos = a.pos /\ y.ch = ch /\ y.parser = q /\ y.reader = a.reader
<1> DEFINE x == TailWas(a, ch, p)
           y == ReaderWas(a, ch, q)
<1>1. x \in Tap /\ x.file = a.file /\ x.pos = p /\ x.ch = ch /\ x.parser = a.parser /\ x.reader = a.reader
  BY DEF Tap, TailWas
<1>2. y \in Tap /\ y.file = a.file /\ y.pos = a.pos /\ y.ch = ch /\ y.parser = q /\ y.reader = a.reader
  BY DEF Tap, IsParser, ReaderWas
<1> QED  BY <1>1, <1>2

\* Sequences of taps in which each is as it was, or changed in one of these ways.
KeptIn(ts) ==
    /\ ts \in Seq(Tap) /\ Len(ts) = Len(taps)
    /\ \A t \in 1 .. Len(taps) : TapKept(taps[t], ts[t])

LEMMA KeptSeqs ==
    ASSUME Typed
    PROVE  /\ KeptIn(taps) /\ KeptIn(Cancelled) /\ KeptIn(Ended)
           /\ \A t \in 1 .. Len(taps) :
                 /\ KeptIn([taps EXCEPT ![t].tail = FALSE])
                 /\ KeptIn([taps EXCEPT ![t].reader = FALSE, ![t].ch = <<>>, ![t].parser = NewParser])
<1> DEFINE n == Len(taps)
<1>1. n \in Nat /\ DOMAIN taps = 1 .. n /\ taps \in Seq(Tap) /\ \A t \in 1 .. n : taps[t] \in Tap
  BY Counts, ElementOfSeq DEF Typed
<1>2. \A ts : (DOMAIN ts = 1 .. n /\ ts = [t \in 1 .. n |-> ts[t]]
               /\ \A t \in 1 .. n : ts[t] \in Tap /\ TapKept(taps[t], ts[t])) => KeptIn(ts)
  <2> TAKE ts
  <2> SUFFICES ASSUME DOMAIN ts = 1 .. n, ts = [t \in 1 .. n |-> ts[t]], \A t \in 1 .. n : ts[t] \in Tap /\ TapKept(taps[t], ts[t])
               PROVE  KeptIn(ts)
    OBVIOUS
  <2>1. ts \in Seq(Tap) /\ Len(ts) = n
    BY <1>1
  <2> QED  BY <2>1 DEF KeptIn
<1>3. KeptIn(taps)
  BY <1>1, TapChanged DEF KeptIn
<1>4. KeptIn(Cancelled)
  <2> DEFINE ts == Cancelled
  <2>1. /\ DOMAIN ts = 1 .. n /\ ts = [t \in 1 .. n |-> ts[t]]
        /\ \A t \in 1 .. n : ts[t] = taps[t] \/ ts[t] = [taps[t] EXCEPT !.cancelled = TRUE]
    BY <1>1 DEF Cancelled
  <2> HIDE DEF ts
  <2>2. \A t \in 1 .. n : ts[t] \in Tap /\ TapKept(taps[t], ts[t])
    BY <1>1, <2>1, TapChanged
  <2> QED  BY <1>2, <2>1, <2>2 DEF ts
<1>5. KeptIn(Ended)
  <2> DEFINE ts == Ended
  <2>1. /\ DOMAIN ts = 1 .. n /\ ts = [t \in 1 .. n |-> ts[t]]
        /\ \A t \in 1 .. n : ts[t] = EndedTap(taps[t])
    BY <1>1 DEF Ended, EndedTap
  <2> HIDE DEF ts
  <2>2. \A t \in 1 .. n : ts[t] \in Tap /\ TapKept(taps[t], ts[t])
    BY <1>1, <2>1, TapChanged
  <2> QED  BY <1>2, <2>1, <2>2 DEF ts
<1>6. ASSUME NEW u \in 1 .. n
      PROVE  KeptIn([taps EXCEPT ![u].tail = FALSE])
  <2> DEFINE ts == [taps EXCEPT ![u].tail = FALSE]
  <2>1. /\ DOMAIN ts = 1 .. n /\ ts = [t \in 1 .. n |-> ts[t]]
        /\ \A t \in 1 .. n : ts[t] = taps[t] \/ ts[t] = [taps[t] EXCEPT !.tail = FALSE]
    BY <1>1
  <2> HIDE DEF ts
  <2>2. \A t \in 1 .. n : ts[t] \in Tap /\ TapKept(taps[t], ts[t])
    BY <1>1, <2>1, TapChanged
  <2> QED  BY <1>2, <2>1, <2>2 DEF ts
<1>7. ASSUME NEW u \in 1 .. n
      PROVE  KeptIn([taps EXCEPT ![u].reader = FALSE, ![u].ch = <<>>, ![u].parser = NewParser])
  <2> DEFINE ts == [taps EXCEPT ![u].reader = FALSE, ![u].ch = <<>>, ![u].parser = NewParser]
  <2>1. /\ DOMAIN ts = 1 .. n /\ ts = [t \in 1 .. n |-> ts[t]]
        /\ \A t \in 1 .. n : ts[t] = taps[t] \/ ts[t] = ReadNoMore(taps[t])
    BY <1>1 DEF ReadNoMore
  <2> HIDE DEF ts
  <2>2. \A t \in 1 .. n : ts[t] \in Tap /\ TapKept(taps[t], ts[t])
    BY <1>1, <2>1, TapChanged
  <2> QED  BY <1>2, <2>1, <2>2 DEF ts
<1> QED  BY <1>3, <1>4, <1>5, <1>6, <1>7

LEMMA KeptTaps ==
    ASSUME Typed, taps' \in Seq(Tap)
    PROVE  /\ KeptIn(taps') => TapsKept
           /\ \A ts, f, old : /\ KeptIn(ts) /\ taps' = Append(ts, NewTap(f, old)) /\ f \in Nat
                              /\ Len(files') = Len(files) + 1 /\ f = Len(files')
                              => TapsKept /\ Len(taps') = Len(taps) + 1
<1>1. Len(taps) \in Nat /\ Len(taps') \in Nat
  BY Counts, LenProperties
<1>2. KeptIn(taps') => TapsKept
  BY <1>1 DEF KeptIn, TapsKept
<1>3. ASSUME NEW ts, NEW f \in Nat, NEW old, KeptIn(ts), taps' = Append(ts, NewTap(f, old)),
             Len(files') = Len(files) + 1, f = Len(files')
      PROVE  TapsKept /\ Len(taps') = Len(taps) + 1
  <2> DEFINE new == NewTap(f, old)
  <2>1. /\ new \in Tap /\ new.file = f /\ new.pos = 0 /\ new.ch = <<>> /\ new.parser = NewParser
    BY NewTapIs
  <2>2. taps' = Append(ts, new)
    BY <1>3
  <2> HIDE DEF new
  <2>3. /\ ts \in Seq(Tap) /\ Len(ts) = Len(taps)
        /\ \A t \in 1 .. Len(taps) : TapKept(taps[t], ts[t])
    BY <1>3 DEF KeptIn
  <2>4. /\ Len(taps') = Len(taps) + 1 /\ \A t \in 1 .. Len(taps) : taps'[t] = ts[t]
        /\ taps'[Len(taps) + 1] = new
    BY <2>1, <2>2, <2>3, AppendProperties
  <2>5. \A t \in 1 .. Len(taps') : t \in 1 .. Len(taps) \/ t = Len(taps) + 1
    BY <1>1, <2>4
  <2> QED  BY <1>1, <1>3, <2>1, <2>3, <2>4, <2>5 DEF TapsKept
<1> QED  BY <1>2, <1>3

\* A step that tells of nothing new keeps the invariant with the taps, files and places.
LEMMA Kept ==
    ASSUME TapsInv, NEW L, Known(L), NEW M, Streams(M)', Longer(L, M), TapsKept, Typed', CatOk',
           \/ told' = told /\ (queue' = queue \/ queue' = <<>>)
           \/ Things' \subseteq Things /\ InOrder'
    PROVE  TapsInv'
<1>1. Typed /\ FilesOk /\ InOrder
  BY DEF TapsInv
<1>2. \A f \in 1 .. Len(files') : Len(files'[f]) \in Nat
  BY ElementOfSeq, LenProperties DEF Typed
<1>3. FilesOk'
  BY <1>1, <1>2, FilesKept
<1>4. Len(<<>>) = 0 /\ DOMAIN <<>> = {}
  OBVIOUS
<1>5. Things' \subseteq Things
  BY <1>4 DEF Things, ToSet
<1>6. Known(M)'
  BY <1>1, <1>5, StaysKnown
<1>7. InOrder'
  BY <1>1, <1>4 DEF InOrder, Rising, Above
<1> QED  BY <1>3, <1>6, <1>7 DEF TapsInv

-----------------------------------------------------------------------------
(* The steps *)

\* A step of neither the pane nor its cat that reads nothing.
LEMMA QuietStep ==
    ASSUME TapsInv, UNCHANGED <<files, cat, pending, said, told>>, KeptIn(taps'),
           current' = current \/ current' = 0, path' = path \/ path' = 0, queue' = queue \/ queue' = <<>>
    PROVE  TapsInv'
<1>1. Typed /\ CatOk
  BY DEF TapsInv
<1>2. PICK L : Known(L)
  BY DEF TapsInv
<1>3. Streams(L)' /\ Longer(L, L)
  BY <1>1, <1>2, SameStreams DEF Known
<1>4. taps' \in Seq(Tap) /\ Len(taps') = Len(taps) /\ TapsKept
  BY <1>1, KeptTaps DEF KeptIn
<1>5. Typed'
  <2>1. current' \in 0 .. Len(taps') /\ path' \in 0 .. Len(files')
    BY <1>1, <1>4, Counts DEF Typed
  <2>2. queue' \in Seq(Item)
    BY <1>1, EmptySeq DEF Typed
  <2> QED  BY <1>1, <1>4, <2>1, <2>2 DEF Typed
<1>6. CatOk'
  BY <1>1 DEF CatOk
<1> QED  BY <1>2, <1>3, <1>4, <1>5, <1>6, Kept

\* The pipe is closed with the tap.
LEMMA StopStep ==
    ASSUME TapsInv, ClosePipe, UNCHANGED <<files, said, told>>, KeptIn(taps'),
           current' = 0, path' = 0 \/ path' = path, queue' = queue \/ queue' = <<>>
    PROVE  TapsInv'
<1>1. CASE current = 0
  BY <1>1, QuietStep DEF ClosePipe
<1>2. CASE current # 0
  <2>1. Typed /\ CatOk
    BY DEF TapsInv
  <2>2. PICK L : Known(L)
    BY DEF TapsInv
  <2>3. cat' = [on |-> FALSE, file |-> 0] /\ pending' = <<>>
    BY <1>2 DEF ClosePipe, NoCat
  <2>4. ~cat'.on
    BY <2>3
  <2>5. PICK M : Streams(M)' /\ Longer(L, M)
    BY <2>1, <2>2, <2>4, CutStreams DEF Known
  <2>6. taps' \in Seq(Tap) /\ Len(taps') = Len(taps) /\ TapsKept
    BY <2>1, KeptTaps DEF KeptIn
  <2>7. Typed'
    <3>1. cat' \in [on : BOOLEAN, file : 0 .. Len(files)]
      BY <2>1, <2>3, Counts
    <3>2. current' \in 0 .. Len(taps') /\ path' \in 0 .. Len(files')
      BY <2>1, <2>6, Counts DEF Typed
    <3>3. queue' \in Seq(Item) /\ pending' \in Seq(Symbol)
      BY <2>1, <2>3, EmptySeq DEF Typed
    <3> QED  BY <2>1, <2>6, <3>1, <3>2, <3>3 DEF Typed
  <2>8. CatOk'
    BY <2>4 DEF CatOk
  <2> QED  BY <2>2, <2>5, <2>6, <2>7, <2>8, Kept
<1> QED  BY <1>1, <1>2

LEMMA StartStep ==
    ASSUME TapsInv, StartTap, UNCHANGED <<queue, said, told>>
    PROVE  TapsInv'
<1>1. Typed /\ CatOk
  BY DEF TapsInv
<1>2. CASE StopTap
  <2>1. KeptIn(taps')
    BY <1>1, <1>2, KeptSeqs DEF StopTap
  <2> QED  BY <1>2, <2>1, StopStep DEF StopTap
<1>3. CASE ~StopTap
  <2> DEFINE n == Len(files) + 1
  <2>1. /\ taps' = Append(Cancelled, NewTap(n, Cancelled))
        /\ current' = Len(taps) + 1 /\ files' = Append(files, <<>>) /\ path' = n
        /\ \E opened \in BOOLEAN : cat' = [on |-> TRUE, file |-> IF opened THEN n ELSE 0]
        /\ pending' = <<>>
    BY <1>3 DEF StartTap, TapFile
  <2>2. PICK L : Known(L)
    BY DEF TapsInv
  <2>3. /\ Len(files) \in Nat /\ n \in Nat /\ Len(files') = n /\ files'[n] = <<>> /\ files' \in Seq(Seq(Symbol))
        /\ n \notin 1 .. Len(files)
    <3>1. Len(files) \in Nat /\ <<>> \in Seq(Symbol) /\ files \in Seq(Seq(Symbol))
      BY <1>1, EmptySeq, Counts DEF Typed
    <3> QED  BY <2>1, <3>1, AppendProperties
  <2>4. cat' \in [on : BOOLEAN, file : 0 .. Len(files')] /\ (cat'.file = 0 \/ cat'.file = n)
    BY <2>1, <2>3
  <2>5. cat'.file \notin 1 .. Len(files)
    BY <2>3, <2>4
  <2>6. PICK M : Streams(M)' /\ Longer(L, M)
    BY <1>1, <2>1, <2>2, <2>5, CutStreams DEF Known
  <2>7. KeptIn(Cancelled) /\ NewTap(n, Cancelled) \in Tap
    BY <1>1, <2>3, KeptSeqs, NewTapIs
  <2>8. taps' \in Seq(Tap)
    BY <2>1, <2>7, AppendProperties DEF KeptIn
  <2>9. TapsKept /\ Len(taps') = Len(taps) + 1
    BY <1>1, <2>1, <2>3, <2>7, <2>8, KeptTaps
  <2>10. Typed'
    <3>1. current' \in 0 .. Len(taps') /\ path' \in 0 .. Len(files') /\ pending' \in Seq(Symbol)
      BY <1>1, <2>1, <2>3, <2>9, EmptySeq, Counts
    <3>2. queue' \in Seq(Item) /\ told' \in Seq(Item) /\ said' \in Nat
      BY <1>1 DEF Typed
    <3> QED  BY <2>3, <2>4, <2>8, <3>1, <3>2 DEF Typed
  <2>11. CatOk'
    BY <2>1, <2>3, <2>4 DEF CatOk
  <2> QED  BY <2>2, <2>6, <2>9, <2>10, <2>11, Kept
<1> QED  BY <1>2, <1>3

LEMMA OpenStep ==
    ASSUME TapsInv, CatOpens
    PROVE  TapsInv'
<1>1. Typed /\ CatOk
  BY DEF TapsInv
<1>2. PICK L : Known(L)
  BY DEF TapsInv
<1> DEFINE n == Len(files')
<1>3. Len(files) \in Nat /\ \A x : cat' = [cat EXCEPT !.file = x] => cat' = [on |-> TRUE, file |-> x]
  BY <1>1, Counts DEF CatOpens, Typed
<1>4. /\ (files' = files /\ files # <<>> /\ files[Len(files)] = <<>>) \/ files' = Append(files, <<>>)
      /\ cat' = [on |-> TRUE, file |-> n] /\ n \in Nat /\ path' = n /\ files' \in Seq(Seq(Symbol))
  <2>1. CASE path # 0
    <3>1. files' = files /\ path' = path /\ cat' = [on |-> TRUE, file |-> path]
      BY <1>3, <2>1 DEF CatOpens
    <3>2. path = Len(files) /\ files[path] = <<>>
      BY <1>1, <2>1 DEF CatOk, CatOpens
    <3>3. files # <<>>
      BY <2>1, <3>2
    <3> QED  BY <1>1, <1>3, <3>1, <3>2, <3>3 DEF Typed
  <2>2. CASE path = 0
    <3>1. files' = Append(files, <<>>) /\ path' = Len(files) + 1 /\ cat' = [on |-> TRUE, file |-> Len(files) + 1]
      BY <1>3, <2>2 DEF CatOpens
    <3>2. <<>> \in Seq(Symbol) /\ files \in Seq(Seq(Symbol))
      BY <1>1, EmptySeq DEF Typed
    <3>3. Len(files') = Len(files) + 1 /\ files' \in Seq(Seq(Symbol))
      BY <3>1, <3>2, AppendProperties
    <3> QED  BY <1>3, <3>1, <3>3
  <2> QED  BY <2>1, <2>2
<1>5. PICK M : Streams(M)' /\ Longer(L, M)
  <2>1. cat.on /\ cat.file = 0 /\ cat'.on /\ cat'.file = n /\ UNCHANGED <<pending, said>>
    BY <1>4 DEF CatOpens
  <2> QED  BY <1>1, <1>2, <1>4, <2>1, OpenStreams DEF Known
<1>6. taps' = taps /\ told' = told /\ queue' = queue /\ TapsKept
  <2>1. taps' = taps /\ taps \in Seq(Tap)
    BY <1>1 DEF Typed, CatOpens
  <2>2. KeptIn(taps')
    BY <1>1, <2>1, KeptSeqs
  <2> QED  BY <1>1, <2>1, <2>2, KeptTaps DEF CatOpens
<1>7. Typed'
  <2>1. cat' \in [on : BOOLEAN, file : 0 .. n] /\ path' \in 0 .. n
    BY <1>4
  <2>2. taps' \in Seq(Tap) /\ current' \in 0 .. Len(taps') /\ queue' \in Seq(Item) /\ told' \in Seq(Item) /\ said' \in Nat
        /\ pending' \in Seq(Symbol)
    BY <1>1 DEF Typed, CatOpens
  <2> QED  BY <1>4, <2>1, <2>2 DEF Typed
<1>8. CatOk'
  <2>1. n # 0
    <3>1. files' # <<>>
      BY <1>4
    <3> QED  BY <1>4, <3>1, EmptySeq
  <2> QED  BY <1>4, <2>1 DEF CatOk
<1> QED  BY <1>2, <1>5, <1>6, <1>7, <1>8, Kept

LEMMA WriteStep ==
    ASSUME TapsInv, CatWrites
    PROVE  TapsInv'
<1>1. Typed /\ CatOk
  BY DEF TapsInv
<1>2. PICK L : Known(L)
  BY DEF TapsInv
<1>3. /\ Streams(L)' /\ Longer(L, L)
      /\ files' \in Seq(Seq(Symbol)) /\ pending' \in Seq(Symbol) /\ Len(files') = Len(files)
  BY <1>1, <1>2, WriteStreams DEF Known
<1>4. UNCHANGED <<current, taps, path, cat, queue, said, told>> /\ cat.on /\ cat.file # 0
  BY DEF CatWrites
<1>5. TapsKept
  BY <1>1, <1>4, KeptSeqs, KeptTaps DEF Typed
<1>6. Typed'
  BY <1>1, <1>3, <1>4 DEF Typed
<1>7. CatOk'
  BY <1>1, <1>3, <1>4 DEF CatOk
<1> QED  BY <1>2, <1>3, <1>4, <1>5, <1>6, <1>7, Kept

LEMMA SayStep ==
    ASSUME TapsInv, Say
    PROVE  TapsInv'
<1>1. Typed /\ CatOk
  BY DEF TapsInv
<1>2. PICK L : Known(L)
  BY DEF TapsInv
<1>3. (\E M : Streams(M)' /\ Longer(L, M)) /\ pending' \in Seq(Symbol) /\ said' = said + 1
  BY <1>1, <1>2, SayStreams DEF Known
<1>4. PICK M : Streams(M)' /\ Longer(L, M)
  BY <1>3
<1>5. UNCHANGED <<current, taps, path, files, cat, queue, told>>
  BY DEF Say
<1>6. TapsKept
  BY <1>1, <1>5, KeptSeqs, KeptTaps DEF Typed
<1>7. Typed'
  BY <1>1, <1>3, <1>5 DEF Typed
<1>8. CatOk'
  BY <1>1, <1>5 DEF CatOk
<1> QED  BY <1>2, <1>4, <1>5, <1>6, <1>7, <1>8, Kept

\* A chunk is read: one more place where the file was cut.
LEMMA CutMore ==
    ASSUME NEW l, NEW ch \in Seq(Seq(Symbol)), NEW p \in Nat, NEW c \in [0 .. Len(ch) -> 0 .. p],
           c[Len(ch)] = p, Cut(ch, l, c), NEW d \in Seq(Symbol), \A i \in 1 .. Len(d) : d[i] = Token(l[p + i])
    PROVE  \E e \in [0 .. Len(Append(ch, d)) -> 0 .. p + Len(d)] :
             e[Len(Append(ch, d))] = p + Len(d) /\ Cut(Append(ch, d), l, e) /\ e[0] = c[0]
<1>1. PICK n \in Nat, m \in Nat : n = Len(ch) /\ m = Len(d)
  BY LenProperties
<1>2. PICK a : a = Append(ch, d)
  OBVIOUS
<1>3. Len(a) = n + 1 /\ a[n + 1] = d /\ \A k \in 1 .. n : a[k] = ch[k]
  BY <1>1, <1>2, AppendProperties
<1>4. PICK e : e = [k \in 0 .. n + 1 |-> IF k = n + 1 THEN p + m ELSE c[k]]
  OBVIOUS
<1>5. e \in [0 .. n + 1 -> 0 .. p + m] /\ e[n + 1] = p + m /\ \A k \in 0 .. n : e[k] = c[k]
  BY <1>1, <1>4
<1>6. ASSUME NEW k \in 1 .. n + 1
      PROVE  /\ e[k - 1] <= e[k] /\ Len(a[k]) = e[k] - e[k - 1]
             /\ \A i \in 1 .. e[k] - e[k - 1] : a[k][i] = Token(l[e[k - 1] + i])
  <2>1. CASE k = n + 1
    <3>1. e[k] = p + m /\ e[k - 1] = p /\ a[k] = d /\ k - 1 = n
      BY <1>1, <1>3, <1>5, <2>1
    <3>2. e[k] - e[k - 1] = m
      BY <3>1
    <3> QED  BY <1>1, <3>1, <3>2
  <2>2. CASE k # n + 1
    <3>1. k \in 1 .. n /\ k - 1 \in 0 .. n /\ k \in 0 .. n
      BY <2>2
    <3>2. e[k] = c[k] /\ e[k - 1] = c[k - 1] /\ a[k] = ch[k]
      BY <1>3, <1>5, <3>1
    <3>3. /\ c[k - 1] <= c[k] /\ Len(ch[k]) = c[k] - c[k - 1]
          /\ \A i \in 1 .. c[k] - c[k - 1] : ch[k][i] = Token(l[c[k - 1] + i])
      BY <1>1, <3>1 DEF Cut
    <3> QED  BY <3>2, <3>3
  <2> QED  BY <2>1, <2>2
<1>7. Cut(a, l, e)
  BY <1>3, <1>6 DEF Cut
<1>8. e[0] = c[0]
  BY <1>5
<1> QED  BY <1>1, <1>2, <1>3, <1>5, <1>7, <1>8

HeadCut(l, ch, p, c) ==
    /\ c[0] \in 0 .. p /\ c[1] \in 0 .. p /\ c[0] <= c[1]
    /\ Head(ch) \in Seq(Symbol) /\ Len(Head(ch)) = c[1] - c[0]
    /\ \A i \in 1 .. c[1] - c[0] : Head(ch)[i] = Token(l[c[0] + i])
    /\ \E e \in [0 .. Len(Tail(ch)) -> 0 .. p] :
         e[Len(Tail(ch))] = p /\ Cut(Tail(ch), l, e) /\ e[0] = c[1]

\* The first chunk is taken.
LEMMA CutLess ==
    ASSUME NEW l, NEW ch \in Seq(Seq(Symbol)), ch # <<>>, NEW p \in Nat, NEW c \in [0 .. Len(ch) -> 0 .. p],
           c[Len(ch)] = p, Cut(ch, l, c)
    PROVE  HeadCut(l, ch, p, c)
<1>1. PICK n \in Nat \ {0} : n = Len(ch)
  BY EmptySeq
<1>2. PICK a : a = Tail(ch)
  OBVIOUS
<1>3. Len(a) = n - 1 /\ (\A k \in 1 .. n - 1 : a[k] = ch[k + 1]) /\ Head(ch) = ch[1] /\ Head(ch) \in Seq(Symbol)
  BY <1>1, <1>2, HeadTailProperties
<1>4. PICK e : e = [k \in 0 .. n - 1 |-> c[k + 1]]
  OBVIOUS
<1>5. e \in [0 .. n - 1 -> 0 .. p] /\ \A k \in 0 .. n - 1 : e[k] = c[k + 1]
  BY <1>1, <1>4
<1>6. ASSUME NEW k \in 1 .. n - 1
      PROVE  /\ e[k - 1] <= e[k] /\ Len(a[k]) = e[k] - e[k - 1]
             /\ \A i \in 1 .. e[k] - e[k - 1] : a[k][i] = Token(l[e[k - 1] + i])
  <2>1. k + 1 \in 1 .. n /\ (k + 1) - 1 = k /\ k - 1 \in 0 .. n - 1 /\ k \in 0 .. n - 1 /\ (k - 1) + 1 = k
    OBVIOUS
  <2>2. e[k] = c[k + 1] /\ e[k - 1] = c[k] /\ a[k] = ch[k + 1]
    BY <1>3, <1>5, <2>1
  <2>3. /\ c[(k + 1) - 1] <= c[k + 1] /\ Len(ch[k + 1]) = c[k + 1] - c[(k + 1) - 1]
        /\ \A i \in 1 .. c[k + 1] - c[(k + 1) - 1] : ch[k + 1][i] = Token(l[c[(k + 1) - 1] + i])
    BY <1>1, <2>1 DEF Cut
  <2> QED  BY <2>1, <2>2, <2>3
<1>7. Cut(a, l, e)
  BY <1>3, <1>6 DEF Cut
<1>8. e[0] = c[1] /\ e[n - 1] = p
  BY <1>1, <1>5
<1>9. /\ c[0] <= c[1] /\ Len(ch[1]) = c[1] - c[0]
      /\ \A i \in 1 .. c[1] - c[0] : ch[1][i] = Token(l[c[0] + i])
  <2>1. 1 \in 1 .. Len(ch) /\ 1 - 1 = 0
    BY <1>1
  <2> QED  BY <2>1 DEF Cut
<1>10. c[0] \in 0 .. p /\ c[1] \in 0 .. p
  BY <1>1
<1> QED  BY <1>2, <1>3, <1>5, <1>7, <1>8, <1>9, <1>10 DEF HeadCut

\* A step of the tap t that leaves files, pane and cat alone.
LEMMA ReadStep ==
    ASSUME TapsInv, NEW L, Known(L), NEW t \in 1 .. Len(taps),
           UNCHANGED <<current, path, files, cat, pending, said>>,
           taps' \in Seq(Tap), Len(taps') = Len(taps),
           \A u \in 1 .. Len(taps) : u # t => taps'[u] = taps[u],
           taps'[t].file = taps[t].file, taps'[t].pos <= Len(files[taps[t].file]),
           queue' \in Seq(Item), told' \in Seq(Item),
           \A x \in Things' : x \in Things \/ (x.tap = t /\ ThingOk(x, L)),
           taps'[t].reader => ReaderOk(t, L[taps[t].file])',
           InOrder'
    PROVE  TapsInv'
<1>1. Typed /\ CatOk /\ FilesOk
  BY DEF TapsInv
<1>2. Streams(L)'
  BY <1>1, SameStreams DEF Known
<1>3. Typed'
  BY <1>1 DEF Typed
<1>4. CatOk'
  BY <1>1 DEF CatOk
<1>5. \A u \in 1 .. Len(taps) : taps'[u].file = taps[u].file
  OBVIOUS
<1>6. FilesOk'
  <2>1. ASSUME NEW u \in 1 .. Len(taps)
        PROVE  taps'[u].file \in 1 .. Len(files) /\ taps'[u].pos <= Len(files[taps'[u].file])
    BY <1>1, <1>5 DEF FilesOk
  <2> QED  BY <1>1, <1>5, <2>1 DEF FilesOk
<1>7. ASSUME NEW u \in 1 .. Len(taps), taps'[u].reader
      PROVE  ReaderOk(u, L[taps[u].file])'
  <2>1. CASE u = t
    BY <1>7, <2>1
  <2>2. CASE u # t
    <3>1. taps'[u] = taps[u] /\ taps[u].reader
      BY <1>7, <2>2
    <3>2. ReaderOk(u, L[taps[u].file])
      BY <3>1 DEF Known
    <3>3. \A x \in Things' : x.tap = u => x \in Things
      BY <2>2
    <3> QED  BY <3>1, <3>2, <3>3 DEF ReaderOk
  <2> QED  BY <2>1, <2>2
<1>8. ASSUME NEW x \in Things'
      PROVE  ThingOk(x, L)'
  <2>1. ThingOk(x, L)
    BY DEF Known
  <2> QED  BY <1>5, <2>1 DEF ThingOk
<1>9. Known(L)'
  BY <1>2, <1>7, <1>8 DEF Known
<1> QED  BY <1>3, <1>4, <1>6, <1>9 DEF TapsInv

LEMMA TailReadStep ==
    ASSUME TapsInv, NEW t \in DOMAIN taps, TailRead(t)
    PROVE  TapsInv'
<1>1. Typed /\ CatOk /\ FilesOk /\ InOrder /\ t \in 1 .. Len(taps) /\ DOMAIN taps = 1 .. Len(taps) /\ Len(taps) \in Nat
  BY Counts DEF TapsInv
<1>2. PICK L : Known(L)
  BY DEF TapsInv
<1>3. PICK f, p \in Nat : f = taps[t].file /\ p = taps[t].pos
  BY <1>1, TapIs
<1>4. PICK d : d = SubSeq(files[f], p + 1, Min({p + ChunkSize, Len(files[f])}))
  OBVIOUS
<1>5. /\ p \in Nat /\ taps[t] \in Tap /\ taps[t].ch \in Seq(Seq(Symbol)) /\ f \in 1 .. Len(files) /\ p <= Len(files[f])
      /\ Len(files[f]) \in Nat /\ files[f] \in Seq(Symbol)
  BY <1>1, <1>3, TapIs, Counts DEF FilesOk
<1>6. /\ d \in Seq(Symbol) /\ Len(d) \in Nat /\ p + Len(d) <= Len(files[f])
      /\ \A i \in 1 .. Len(d) : p + i \in 1 .. Len(files[f]) /\ d[i] = files[f][p + i]
  <2>1. PICK n : n = Min({p + ChunkSize, Len(files[f])})
    OBVIOUS
  <2>2. n \in Nat /\ n <= Len(files[f])
    <3> DEFINE S == {p + ChunkSize, Len(files[f])}
    <3>1. S \in SUBSET Nat /\ S # {} /\ Len(files[f]) \in S
      BY <1>5, TapAssumption
    <3>2. Min(S) \in S /\ \A i \in S : Min(S) <= i
      BY <3>1, MinOfSet
    <3> QED  BY <2>1, <3>1, <3>2
  <2>3. \A i \in p + 1 .. n : i \in 1 .. Len(files[f]) /\ files[f][i] \in Symbol
    BY <1>5, <2>2, ElementOfSeq
  <2>4. /\ d \in Seq(Symbol) /\ Len(d) = IF p + 1 <= n THEN n - (p + 1) + 1 ELSE 0
        /\ \A i \in 1 .. n - (p + 1) + 1 : d[i] = files[f][(p + 1) + i - 1]
    <3>1. p + 1 \in Int /\ n \in Int /\ d = SubSeq(files[f], p + 1, n)
      BY <1>4, <1>5, <2>1, <2>2
    <3> QED  BY <2>3, <3>1, SubSeqProperties
  <2>5. Len(d) \in Nat /\ p + Len(d) <= Len(files[f])
    BY <1>5, <2>2, <2>4
  <2>6. ASSUME NEW i \in 1 .. Len(d)
        PROVE  p + i \in 1 .. Len(files[f]) /\ d[i] = files[f][p + i]
    <3>1. i \in 1 .. n - (p + 1) + 1 /\ (p + 1) + i - 1 = p + i
      BY <1>5, <2>2, <2>4
    <3> QED  BY <1>5, <2>4, <2>5, <3>1
  <2> QED  BY <2>4, <2>5, <2>6
<1>7. \A i \in 1 .. Len(d) : d[i] = Token(L[f][p + i])
  <2> TAKE i \in 1 .. Len(d)
  <2>1. Marks(L[f], Whole(f))
    <3>1. f \in 0 .. Len(files)
      BY <1>1, <1>5, Counts
    <3> QED  BY <1>2, <3>1 DEF Known, Streams
  <2>2. p + i \in 1 .. Len(Whole(f)) /\ Whole(f)[p + i] = files[f][p + i]
    <3>1. /\ Len(files[f]) <= Len(Whole(f)) /\ Len(Whole(f)) \in Nat
          /\ \A k \in 1 .. Len(files[f]) : Whole(f)[k] = files[f][k]
      BY <1>1, <1>5, WholeIs, LenProperties
    <3> QED  BY <1>5, <1>6, <3>1
  <2> QED  BY <1>6, <2>1, <2>2 DEF Marks
<1>8. /\ taps' = [taps EXCEPT ![t] = TailWas(taps[t], Append(taps[t].ch, d), p + Len(d))]
      /\ UNCHANGED <<current, path, files, cat, pending, queue, said, told>>
  BY <1>3, <1>4 DEF TailRead, TailWas
<1>9. PICK y : y = Append(taps[t].ch, d)
  OBVIOUS
<1>10. y \in Seq(Seq(Symbol))
  BY <1>5, <1>6, <1>9, AppendProperties
<1>11. PICK x : x = TailWas(taps[t], y, p + Len(d))
  OBVIOUS
<1>12. /\ x \in Tap /\ x.file = f /\ x.pos = p + Len(d) /\ x.ch = y /\ x.parser = taps[t].parser
       /\ x.reader = taps[t].reader
  <2>1. PICK o, m : o = taps[t] /\ m = p + Len(d)
    OBVIOUS
  <2>2. o \in Tap /\ y \in Seq(Seq(Symbol)) /\ m \in Nat
    BY <1>5, <1>6, <1>10, <2>1
  <2>3. /\ TailWas(o, y, m) \in Tap /\ TailWas(o, y, m).file = o.file /\ TailWas(o, y, m).pos = m
        /\ TailWas(o, y, m).ch = y /\ TailWas(o, y, m).parser = o.parser /\ TailWas(o, y, m).reader = o.reader
    BY <2>2, NewParserIs, TapRead
  <2> QED  BY <1>3, <1>11, <2>1, <2>3
<1>13. /\ taps' \in Seq(Tap) /\ Len(taps') = Len(taps) /\ taps'[t] = x
       /\ \A u \in 1 .. Len(taps) : u # t => taps'[u] = taps[u]
  <2>1. taps \in Seq(Tap) /\ taps' = [taps EXCEPT ![t] = x]
    BY <1>1, <1>8, <1>9, <1>11 DEF Typed
  <2> QED  BY <1>1, <1>12, <2>1
<1>14. Things' = Things
  BY <1>8 DEF Things
<1>15. ASSUME taps'[t].reader
       PROVE  ReaderOk(t, L[taps[t].file])'
  <2>1. taps[t].reader
    BY <1>12, <1>13, <1>15
  <2>2. PICK c \in [0 .. Len(taps[t].ch) -> 0 .. p] :
          /\ c[Len(taps[t].ch)] = p /\ Cut(taps[t].ch, L[f], c)
          /\ Fits(taps[t].parser, L[f], c[0])
          /\ \A z \in Things : z.tap = t => Number(z.raw) <= Done(L[f], c[0])
    BY <1>1, <1>2, <1>3, <2>1 DEF Known, ReaderOk
  <2>3. PICK e \in [0 .. Len(y) -> 0 .. p + Len(d)] :
          e[Len(y)] = p + Len(d) /\ Cut(y, L[f], e) /\ e[0] = c[0]
    <3>1. PICK ch, l : ch = taps[t].ch /\ l = L[f]
      OBVIOUS
    <3>2. /\ ch \in Seq(Seq(Symbol)) /\ p \in Nat /\ c \in [0 .. Len(ch) -> 0 .. p] /\ c[Len(ch)] = p /\ Cut(ch, l, c)
          /\ d \in Seq(Symbol) /\ \A i \in 1 .. Len(d) : d[i] = Token(l[p + i])
      BY <1>5, <1>6, <1>7, <2>2, <3>1
    <3>3. \E e \in [0 .. Len(Append(ch, d)) -> 0 .. p + Len(d)] :
             e[Len(Append(ch, d))] = p + Len(d) /\ Cut(Append(ch, d), l, e) /\ e[0] = c[0]
      BY <3>2, CutMore
    <3>4. y = Append(ch, d)
      BY <1>9, <3>1
    <3> QED  BY <3>1, <3>3, <3>4
  <2>4. Fits(x.parser, L[f], e[0]) /\ \A z \in Things : z.tap = t => Number(z.raw) <= Done(L[f], e[0])
    BY <1>12, <2>2, <2>3
  <2> QED  BY <1>12, <1>13, <1>14, <2>3, <2>4 DEF ReaderOk
<1>16. InOrder'
  BY <1>1, <1>8 DEF InOrder, Rising, Above
<1>17. queue' \in Seq(Item) /\ told' \in Seq(Item)
  BY <1>1, <1>8 DEF Typed
<1> QED  BY <1>1, <1>2, <1>3, <1>6, <1>8, <1>12, <1>13, <1>14, <1>15, <1>16, <1>17, ReadStep

-----------------------------------------------------------------------------
(* What is told *)

LEMMA RisingConcat ==
    ASSUME NEW q \in Seq(Item), NEW r \in Seq(Item), NEW s \in Seq(Item), Rising(q), Rising(r), Above(q, r), Above(s, q), Above(s, r)
    PROVE  Rising(q \o r) /\ Above(s, q \o r)
<1>1. PICK n \in Nat, m \in Nat : n = Len(q) /\ m = Len(r)
  BY LenProperties
<1>2. PICK a : a = q \o r
  OBVIOUS
<1>3. Len(a) = n + m /\ \A i \in 1 .. n + m : a[i] = IF i <= n THEN q[i] ELSE r[i - n]
  BY <1>1, <1>2, ConcatProperties
<1>4. \A i \in 1 .. n + m : (i \in 1 .. n /\ a[i] = q[i]) \/ (i - n \in 1 .. m /\ a[i] = r[i - n] /\ ~(i <= n))
  BY <1>3
<1>5. ASSUME NEW i \in 1 .. n + m, NEW j \in 1 .. n + m, i < j, a[i].tap = a[j].tap
      PROVE  Number(a[i].raw) < Number(a[j].raw)
  <2>1. CASE j \in 1 .. n /\ a[j] = q[j]
    <3>1. i \in 1 .. n
      BY <1>5, <2>1
    <3>2. a[i] = q[i]
      BY <1>3, <3>1
    <3> QED  BY <1>1, <1>5, <2>1, <3>1, <3>2 DEF Rising
  <2>2. CASE j - n \in 1 .. m /\ a[j] = r[j - n] /\ i \in 1 .. n /\ a[i] = q[i]
    BY <1>1, <1>5, <2>2 DEF Above
  <2>3. CASE j - n \in 1 .. m /\ a[j] = r[j - n] /\ i - n \in 1 .. m /\ a[i] = r[i - n]
    <3>1. i - n < j - n
      BY <1>5
    <3> QED  BY <1>1, <1>5, <2>3, <3>1 DEF Rising
  <2> QED  BY <1>4, <2>1, <2>2, <2>3
<1>6. ASSUME NEW i \in 1 .. Len(s), NEW j \in 1 .. n + m, s[i].tap = a[j].tap
      PROVE  Number(s[i].raw) < Number(a[j].raw)
  BY <1>1, <1>4, <1>6 DEF Above
<1> QED  BY <1>2, <1>3, <1>5, <1>6 DEF Rising, Above

LEMMA LoopStep ==
    ASSUME TapsInv, LoopTakes
    PROVE  TapsInv'
<1>1. Typed /\ CatOk /\ FilesOk /\ InOrder
  BY DEF TapsInv
<1>2. PICK L : Known(L)
  BY DEF TapsInv
<1>3. UNCHANGED <<current, taps, path, files, cat, pending, said>>
  BY DEF LoopTakes
<1>4. PICK h, r : h = Head(queue) /\ r = Tail(queue)
  OBVIOUS
<1>5. /\ queue \in Seq(Item) /\ queue # <<>> /\ told \in Seq(Item) /\ h \in Item /\ r \in Seq(Item)
      /\ queue' = r /\ (told' = told \/ told' = Append(told, h))
  BY <1>1, <1>4, HeadTailProperties DEF Typed, LoopTakes
<1>6. PICK n \in Nat, m \in Nat : n = Len(told) /\ m = Len(r)
  BY <1>5, LenProperties
<1>7. /\ Len(queue) = m + 1 /\ queue[1] = h /\ \A i \in 1 .. m : r[i] = queue[i + 1] /\ i + 1 \in 1 .. m + 1
      /\ 1 \in 1 .. m + 1 /\ \A i \in 1 .. m : 1 < i + 1
  <2>1. /\ m = Len(queue) - 1 /\ Len(queue) \in Nat /\ h = queue[1] /\ \A i \in 1 .. m : r[i] = queue[i + 1]
    BY <1>4, <1>5, <1>6, HeadTailProperties, LenProperties
  <2> QED  BY <1>6, <2>1
<1>8. Rising(told) /\ Rising(queue) /\ Above(told, queue)
  BY <1>1 DEF InOrder
<1>9. Rising(r) /\ Above(told, r)
  <2>1. ASSUME NEW i \in 1 .. m, NEW j \in 1 .. m, i < j, r[i].tap = r[j].tap
        PROVE  Number(r[i].raw) < Number(r[j].raw)
    <3>1. i + 1 < j + 1
      BY <2>1
    <3> QED  BY <1>7, <1>8, <2>1, <3>1 DEF Rising
  <2>2. Above(told, r)
    BY <1>6, <1>7, <1>8 DEF Above
  <2> QED  BY <1>6, <2>1, <2>2 DEF Rising
<1>10. CASE told' = told
  <2>1. InOrder'
    BY <1>5, <1>8, <1>9, <1>10 DEF InOrder, Rising, Above
  <2>2. ToSet(r) \subseteq ToSet(queue)
    BY <1>4, <1>5, TailSet
  <2>3. Things' \subseteq Things
    BY <1>5, <1>10, <2>2 DEF Things
  <2>4. Streams(L)' /\ Longer(L, L) /\ TapsKept
    BY <1>1, <1>2, <1>3, SameStreams, KeptSeqs, KeptTaps DEF Known, Typed
  <2>5. Typed' /\ CatOk'
    BY <1>1, <1>3, <1>5, <1>10 DEF Typed, CatOk
  <2> QED  BY <1>2, <2>1, <2>3, <2>4, <2>5, Kept
<1>11. CASE told' = Append(told, h)
  <2>1. /\ Len(told') = n + 1 /\ told' \in Seq(Item) /\ told'[n + 1] = h /\ \A i \in 1 .. n : told'[i] = told[i]
        /\ \A i \in 1 .. n + 1 : i \in 1 .. n \/ i = n + 1
    BY <1>5, <1>6, <1>11, AppendProperties
  <2>2. ASSUME NEW i \in 1 .. n + 1, NEW j \in 1 .. n + 1, i < j, told'[i].tap = told'[j].tap
        PROVE  Number(told'[i].raw) < Number(told'[j].raw)
    <3>1. i \in 1 .. n /\ told'[i] = told[i]
      BY <2>1, <2>2
    <3>2. CASE j \in 1 .. n
      <4>1. told'[j] = told[j]
        BY <2>1, <3>2
      <4> QED  BY <1>6, <1>8, <2>2, <3>1, <3>2, <4>1 DEF Rising
    <3>3. CASE j = n + 1
      BY <1>6, <1>7, <1>8, <2>1, <2>2, <3>1, <3>3 DEF Above
    <3> QED  BY <2>1, <3>2, <3>3
  <2>3. ASSUME NEW i \in 1 .. n + 1, NEW j \in 1 .. m, told'[i].tap = r[j].tap
        PROVE  Number(told'[i].raw) < Number(r[j].raw)
    <3>1. CASE i \in 1 .. n
      <4>1. told'[i] = told[i]
        BY <2>1, <3>1
      <4> QED  BY <1>6, <1>9, <2>3, <3>1, <4>1 DEF Above
    <3>2. CASE i = n + 1
      <4>1. told'[i] = queue[1] /\ r[j] = queue[j + 1] /\ 1 < j + 1 /\ j + 1 \in 1 .. m + 1 /\ 1 \in 1 .. m + 1
        BY <1>7, <2>1, <3>2
      <4> QED  BY <1>7, <1>8, <2>3, <4>1 DEF Rising
    <3> QED  BY <2>1, <3>1, <3>2
  <2>4. InOrder'
    <3>1. Rising(told')
      BY <2>1, <2>2 DEF Rising
    <3>2. Above(told', r)
      BY <1>6, <2>1, <2>3 DEF Above
    <3> QED  BY <1>5, <1>9, <3>1, <3>2 DEF InOrder, Rising, Above
  <2>5. Things' \subseteq Things
    <3>1. ToSet(queue) = {h} \cup ToSet(r)
      BY <1>4, <1>5, TailSet
    <3>2. ToSet(told') = ToSet(told) \cup {h}
      BY <1>5, <1>11, AppendSet
    <3>3. Things' = ToSet(told') \cup ToSet(r)
      BY <1>5 DEF Things
    <3> QED  BY <3>1, <3>2, <3>3 DEF Things
  <2>6. Streams(L)' /\ Longer(L, L) /\ TapsKept
    BY <1>1, <1>2, <1>3, SameStreams, KeptSeqs, KeptTaps DEF Known, Typed
  <2>7. Typed' /\ CatOk'
    BY <1>1, <1>3, <1>5, <2>1 DEF Typed, CatOk
  <2> QED  BY <1>2, <2>4, <2>5, <2>6, <2>7, Kept
<1> QED  BY <1>5, <1>10, <1>11

FoundAll(s, t, l, r, q) ==
    /\ s \in Seq(Item) /\ Rising(s)
    /\ \A x \in ToSet(s) : /\ x.tap = t /\ x.raw = Payload(Number(x.raw))
                           /\ Done(l, r) < Number(x.raw) /\ Number(x.raw) <= Done(l, q)
                           /\ \E j \in 1 .. q : l[j][1] = Number(x.raw)

Items(t, out) == [i \in DOMAIN out |-> [tap |-> t, raw |-> out[i]]]

\* The notifications a chunk ends, up to the first n of them.
LEMMA HeardOfChunk ==
    ASSUME NEW l, NEW r, NEW q, NEW out \in Seq(Seq(Symbol)), Found(out, l, r, q), NEW t \in Nat \ {0}, NEW n \in 0 .. Len(out),
           NEW s, s = SubSeq(Items(t, out), 1, n)
    PROVE  FoundAll(s, t, l, r, q)
<1>1. Len(out) \in Nat /\ DOMAIN out = 1 .. Len(out) /\ \A i \in 1 .. Len(out) : out[i] \in Seq(Symbol)
  BY ElementOfSeq, LenProperties
<1>2. PICK f : f = Items(t, out)
  OBVIOUS
<1>3. \A i \in 1 .. Len(out) : f[i] \in Item /\ f[i].tap = t /\ f[i].raw = out[i]
  BY <1>1, <1>2 DEF Item, Items
<1>4. s = SubSeq(f, 1, n)
  BY <1>2
<1>5. s \in Seq(Item) /\ Len(s) = n /\ \A i \in 1 .. n : s[i] = f[i] /\ i \in 1 .. Len(out)
  <2>1. n \in Int /\ 1 \in Int /\ n \in Nat /\ \A i \in 1 .. n : i \in 1 .. Len(out) /\ f[i] \in Item
    BY <1>1, <1>3
  <2>2. /\ s \in Seq(Item) /\ Len(s) = IF 1 <= n THEN n - 1 + 1 ELSE 0
        /\ \A i \in 1 .. n - 1 + 1 : s[i] = f[1 + i - 1]
    BY <1>4, <2>1, SubSeqProperties
  <2> QED  BY <2>1, <2>2
<1>6. \A i \in 1 .. n : s[i].tap = t /\ s[i].raw = out[i] /\ i \in 1 .. Len(out)
  BY <1>3, <1>5
<1>7. Rising(s)
  <2>1. ASSUME NEW i \in 1 .. n, NEW j \in 1 .. n, i < j
        PROVE  Number(s[i].raw) < Number(s[j].raw)
    <3>1. Number(out[i]) < Number(out[j])
      BY <1>6, <2>1 DEF Found
    <3> QED  BY <1>6, <3>1
  <2> QED  BY <1>5, <2>1 DEF Rising
<1>8. ASSUME NEW x \in ToSet(s)
      PROVE  /\ x.tap = t /\ x.raw = Payload(Number(x.raw))
             /\ Done(l, r) < Number(x.raw) /\ Number(x.raw) <= Done(l, q)
             /\ \E j \in 1 .. q : l[j][1] = Number(x.raw)
  <2>1. PICK i \in 1 .. n : x = s[i]
    <3>1. DOMAIN s = 1 .. n
      BY <1>5, LenProperties
    <3> QED  BY <3>1 DEF ToSet
  <2>2. x.tap = t /\ x.raw = out[i] /\ i \in 1 .. Len(out)
    BY <1>6, <2>1
  <2>3. /\ out[i] = Payload(Number(out[i])) /\ Done(l, r) < Number(out[i]) /\ Number(out[i]) <= Done(l, q)
        /\ \E j \in 1 .. q : l[j][1] = Number(out[i])
    BY <2>2 DEF Found
  <2> QED  BY <2>2, <2>3
<1> QED  BY <1>5, <1>7, <1>8 DEF FoundAll

LEMMA ReadTapStep ==
    ASSUME TapsInv, NEW t \in DOMAIN taps, ReadTap(t)
    PROVE  TapsInv'
<1>1. Typed /\ CatOk /\ FilesOk /\ InOrder /\ t \in 1 .. Len(taps) /\ DOMAIN taps = 1 .. Len(taps) /\ Len(taps) \in Nat
  BY Counts DEF TapsInv
<1>2. PICK L : Known(L)
  BY DEF TapsInv
<1>3. PICK f, p, ch, a : p \in Nat /\ f = taps[t].file /\ p = taps[t].pos /\ ch = taps[t].ch /\ a = taps[t].parser
  BY <1>1, TapIs
<1>4. /\ taps[t] \in Tap /\ ch \in Seq(Seq(Symbol)) /\ ch # <<>> /\ f \in 1 .. Len(files) /\ p <= Len(files[f])
      /\ Len(files[f]) \in Nat /\ IsParser(a)
  BY <1>1, <1>3, TapIs, Counts DEF FilesOk, ReadTap
<1>5. PICK l : l = L[f]
  OBVIOUS
<1>6. PICK c \in [0 .. Len(ch) -> 0 .. p] :
        /\ c[Len(ch)] = p /\ Cut(ch, l, c) /\ Fits(a, l, c[0])
        /\ \A z \in Things : z.tap = t => Number(z.raw) <= Done(l, c[0])
  BY <1>1, <1>2, <1>3, <1>5 DEF Known, ReaderOk, ReadTap
<1>7. Chain(l) /\ Len(l) \in Nat /\ p <= Len(l)
  <2>1. f \in 0 .. Len(files)
    BY <1>1, <1>4, Counts
  <2>2. Chain(l) /\ Marks(l, Whole(f))
    BY <1>2, <1>5, <2>1 DEF Known, Streams
  <2>3. Len(files[f]) <= Len(Whole(f)) /\ Len(l) = Len(Whole(f)) /\ Len(l) \in Nat
    BY <1>1, <1>4, <2>2, WholeIs, ChainIs DEF Marks
  <2> QED  BY <1>3, <1>4, <2>2, <2>3
<1>8. /\ c[0] \in 0 .. p /\ c[1] \in 0 .. p /\ c[0] <= c[1]
      /\ Head(ch) \in Seq(Symbol) /\ Len(Head(ch)) = c[1] - c[0]
      /\ \A i \in 1 .. c[1] - c[0] : Head(ch)[i] = Token(l[c[0] + i])
      /\ \E e \in [0 .. Len(Tail(ch)) -> 0 .. p] :
           e[Len(Tail(ch))] = p /\ Cut(Tail(ch), l, e) /\ e[0] = c[1]
  <2>1. /\ ch \in Seq(Seq(Symbol)) /\ ch # <<>> /\ p \in Nat /\ c \in [0 .. Len(ch) -> 0 .. p]
        /\ c[Len(ch)] = p /\ Cut(ch, l, c)
    BY <1>3, <1>4, <1>6
  <2>2. HeadCut(l, ch, p, c)
    BY <2>1, CutLess
  <2> QED  BY <2>2 DEF HeadCut
<1>9. PICK r, q, d : r \in Nat /\ q \in Nat /\ r = c[0] /\ q = c[1] /\ d = Head(ch)
  BY <1>3, <1>8
<1>10. r \in 0 .. Len(l) /\ q \in 0 .. Len(l) /\ r <= q /\ q <= p
  BY <1>3, <1>7, <1>8, <1>9
<1>11. PICK b : b = Feed(a, d)
  OBVIOUS
<1>12. IsParser(b) /\ Fits(b, l, q) /\ Found(b.out, l, r, q)
  <2>1. d \in Seq(Symbol) /\ Len(d) = q - r /\ Fits(a, l, r) /\ \A i \in 1 .. q - r : d[i] = Token(l[r + i])
    BY <1>6, <1>8, <1>9
  <2> QED  BY <1>4, <1>7, <1>10, <1>11, <2>1, FeedOk
<1>13. PICK n, s : n \in 0 .. Len(b.out) /\
         /\ s = SubSeq(Items(t, b.out), 1, n)
         /\ queue' = queue \o s
         /\ taps' = [taps EXCEPT ![t].ch = Tail(@), ![t].parser = b]
  <2> DEFINE g == Items(t, b.out)
  <2>1. PICK room \in 0 .. QueueCap - Len(queue) :
          /\ queue' = queue \o SubSeq(g, 1, Min({Len(g), room}))
          /\ taps' = [taps EXCEPT ![t].ch = Tail(@), ![t].parser = b]
    BY <1>3, <1>9, <1>11 DEF ReadTap, Items
  <2>2. Len(g) = Len(b.out) /\ Len(b.out) \in Nat
    <3>1. Len(b.out) \in Nat /\ DOMAIN b.out = 1 .. Len(b.out)
      BY <1>12, LenProperties DEF IsParser
    <3> QED  BY <3>1 DEF Items
  <2>3. Min({Len(g), room}) \in 0 .. Len(b.out)
    <3> DEFINE S == {Len(g), room}
    <3> HIDE DEF g
    <3>1. S \in SUBSET Nat /\ S # {} /\ Len(g) \in S
      BY <2>2
    <3>2. Min(S) \in S /\ \A i \in S : Min(S) <= i
      BY <3>1, MinOfSet
    <3> QED  BY <2>2, <3>1, <3>2
  <2> QED  BY <2>1, <2>3
<1>14. /\ s \in Seq(Item) /\ Rising(s)
       /\ \A x \in ToSet(s) : /\ x.tap = t /\ x.raw = Payload(Number(x.raw))
                              /\ Done(l, r) < Number(x.raw) /\ Number(x.raw) <= Done(l, q)
                              /\ \E j \in 1 .. q : l[j][1] = Number(x.raw)
  <2>1. b.out \in Seq(Seq(Symbol)) /\ t \in Nat \ {0}
    BY <1>1, <1>12 DEF IsParser
  <2>2. PICK o : o = b.out
    OBVIOUS
  <2>3. o \in Seq(Seq(Symbol)) /\ Found(o, l, r, q) /\ n \in 0 .. Len(o) /\ s = SubSeq(Items(t, o), 1, n)
    BY <1>12, <1>13, <2>1, <2>2
  <2>4. FoundAll(s, t, l, r, q)
    BY <2>1, <2>3, HeardOfChunk
  <2> QED  BY <2>4 DEF FoundAll
<1>15. UNCHANGED <<current, path, files, cat, pending, said, told>>
  BY DEF ReadTap
<1>16. queue \in Seq(Item) /\ told \in Seq(Item) /\ queue' \in Seq(Item) /\ told' \in Seq(Item)
  <2>1. queue \in Seq(Item) /\ told \in Seq(Item)
    BY <1>1 DEF Typed
  <2> QED  BY <1>13, <1>14, <1>15, <2>1, ConcatProperties
<1>17. Things' = Things \cup ToSet(s)
  <2>1. ToSet(queue') = ToSet(queue) \cup ToSet(s)
    BY <1>13, <1>14, <1>16, ConcatSet
  <2> QED  BY <1>15, <2>1 DEF Things
<1>18. PICK y : y = Tail(ch)
  OBVIOUS
<1>19. y \in Seq(Seq(Symbol))
  BY <1>4, <1>18, HeadTailProperties
<1>20. PICK x : x = ReaderWas(taps[t], y, b)
  OBVIOUS
<1>21. x \in Tap /\ x.file = f /\ x.pos = p /\ x.ch = y /\ x.parser = b
  <2>1. PICK o : o = taps[t]
    OBVIOUS
  <2>2. o \in Tap /\ IsParser(b) /\ y \in Seq(Seq(Symbol)) /\ p \in Nat
    BY <1>3, <1>4, <1>12, <1>19, <2>1
  <2>3. /\ ReaderWas(o, y, b) \in Tap /\ ReaderWas(o, y, b).file = o.file /\ ReaderWas(o, y, b).pos = o.pos
        /\ ReaderWas(o, y, b).ch = y /\ ReaderWas(o, y, b).parser = b
    BY <2>2, TapRead
  <2> QED  BY <1>3, <1>20, <2>1, <2>3
<1>22. /\ taps' \in Seq(Tap) /\ Len(taps') = Len(taps) /\ taps'[t] = x
       /\ \A u \in 1 .. Len(taps) : u # t => taps'[u] = taps[u]
  <2>1. taps \in Seq(Tap) /\ taps' = [taps EXCEPT ![t] = x]
    BY <1>1, <1>3, <1>13, <1>18, <1>20 DEF Typed, ReaderWas
  <2> QED  BY <1>1, <1>21, <2>1
<1>23. ASSUME NEW z \in ToSet(s)
       PROVE  z.tap = t /\ ThingOk(z, L)
  <2>1. /\ z.tap = t /\ z.raw = Payload(Number(z.raw))
        /\ \E j \in 1 .. q : l[j][1] = Number(z.raw)
    BY <1>14
  <2>2. PICK j \in 1 .. q : l[j][1] = Number(z.raw)
    BY <2>1
  <2>3. j \in 1 .. Len(files[f])
    BY <1>3, <1>4, <1>9, <1>10
  <2> QED  BY <1>1, <1>3, <1>5, <2>1, <2>2, <2>3 DEF ThingOk
<1>24. Done(l, r) \in Nat /\ Done(l, q) \in Nat /\ Done(l, r) <= Done(l, q)
  BY <1>7, <1>9, <1>10, DoneMore
<1>25. ASSUME NEW z \in Things, z.tap = t
       PROVE  Number(z.raw) \in Nat /\ Number(z.raw) <= Done(l, r)
  <2>1. Number(z.raw) <= Done(l, r)
    BY <1>6, <1>9, <1>25
  <2>2. PICK j \in 1 .. Len(files[f]) : l[j][1] = Number(z.raw)
    BY <1>2, <1>3, <1>5, <1>25 DEF Known, ThingOk
  <2>3. /\ Len(files[f]) \in Nat /\ j \in 1 .. Len(l)
    <3>1. Len(files[f]) <= Len(Whole(f)) /\ Len(l) = Len(Whole(f))
      <4>1. f \in 0 .. Len(files)
        BY <1>1, <1>4, Counts
      <4>2. Marks(l, Whole(f))
        BY <1>2, <1>5, <4>1 DEF Known, Streams
      <4> QED  BY <1>1, <1>4, <4>2, WholeIs DEF Marks
    <3> QED  BY <1>4, <1>7, <3>1
  <2>4. Number(z.raw) \in Nat
    BY <1>7, <2>2, <2>3, ChainIs, PlaceIs
  <2> QED  BY <2>1, <2>4
<1>26. \A z \in Things, w \in ToSet(s) : z.tap = w.tap => Number(z.raw) < Number(w.raw)
  <2> TAKE z \in Things, w \in ToSet(s)
  <2> SUFFICES ASSUME z.tap = w.tap
               PROVE  Number(z.raw) < Number(w.raw)
    OBVIOUS
  <2>1. w.tap = t /\ Done(l, r) < Number(w.raw) /\ \E j \in 1 .. q : l[j][1] = Number(w.raw)
    BY <1>14
  <2>2. Number(z.raw) \in Nat /\ Number(z.raw) <= Done(l, r)
    BY <1>25, <2>1
  <2>3. PICK j \in 1 .. q : l[j][1] = Number(w.raw)
    BY <2>1
  <2>4. Number(w.raw) \in Nat
    <3>1. j \in 1 .. Len(l)
      BY <1>7, <1>9, <1>10
    <3> QED  BY <1>7, <2>3, <3>1, ChainIs, PlaceIs
  <2> QED  BY <1>24, <2>1, <2>2, <2>4
<1>27. InOrder'
  <2>1. \A v : v \in Seq(Item) => \A i \in 1 .. Len(v) : v[i] \in ToSet(v)
    <3> TAKE v
    <3> SUFFICES ASSUME v \in Seq(Item), NEW i \in 1 .. Len(v)
                 PROVE  v[i] \in ToSet(v)
      OBVIOUS
    <3>1. DOMAIN v = 1 .. Len(v)
      BY LenProperties
    <3> QED  BY <3>1 DEF ToSet
  <2>2. \A i \in 1 .. Len(s) : s[i] \in ToSet(s)
    BY <1>14, <2>1
  <2>3. \A i \in 1 .. Len(queue) : queue[i] \in Things
    BY <1>1, Counts
  <2>4. \A i \in 1 .. Len(told) : told[i] \in Things
    BY <1>1, Counts
  <2>5. Above(queue, s) /\ Above(told, s)
    BY <1>26, <2>2, <2>3, <2>4 DEF Above
  <2>6. Rising(told) /\ Rising(queue) /\ Above(told, queue)
    BY <1>1 DEF InOrder
  <2>7. Rising(queue \o s) /\ Above(told, queue \o s)
    BY <1>14, <1>16, <2>5, <2>6, RisingConcat
  <2>8. Rising(queue') /\ Above(told, queue')
    BY <1>13, <2>7
  <2> QED  BY <1>15, <2>6, <2>8 DEF InOrder, Rising, Above
<1>28. ReaderOk(t, L[taps[t].file])'
  <2>1. PICK e \in [0 .. Len(y) -> 0 .. p] : e[Len(y)] = p /\ Cut(y, l, e) /\ e[0] = q
    BY <1>8, <1>9, <1>18
  <2>2. \A z \in Things' : z.tap = t => Number(z.raw) <= Done(l, q)
    <3> TAKE z \in Things'
    <3>1. CASE z \in ToSet(s)
      BY <1>14, <3>1
    <3>2. CASE z \in Things
      BY <1>24, <1>25, <3>2
    <3> QED  BY <1>17, <3>1, <3>2
  <2>3. L[taps'[t].file] = l
    BY <1>5, <1>21, <1>22
  <2>4. \E k \in [0 .. Len(taps'[t].ch) -> 0 .. taps'[t].pos] :
           /\ k[Len(taps'[t].ch)] = taps'[t].pos /\ Cut(taps'[t].ch, l, k)
           /\ Fits(taps'[t].parser, l, k[0])
           /\ \A z \in Things' : z.tap = t => Number(z.raw) <= Done(l, k[0])
    BY <1>12, <1>21, <1>22, <2>1, <2>2
  <2> QED  BY <2>3, <2>4 DEF ReaderOk
<1> QED
  <2>1. \A z \in Things' : z \in Things \/ (z.tap = t /\ ThingOk(z, L))
    BY <1>17, <1>23
  <2>2. taps'[t].file = taps[t].file /\ taps'[t].pos <= Len(files[taps[t].file])
    BY <1>3, <1>4, <1>21, <1>22
  <2> QED  BY <1>1, <1>2, <1>15, <1>16, <1>22, <1>27, <1>28, <2>1, <2>2, ReadStep

-----------------------------------------------------------------------------
(* The theorem *)

LEMMA TapsInvInit == Init => TapsInv
<1> SUFFICES ASSUME Init
             PROVE  TapsInv
  OBVIOUS
<1>1. Len(<<>>) = 0 /\ DOMAIN <<>> = {}
  OBVIOUS
<1>2. \A E : <<>> \in Seq(E)
  BY EmptySeq
<1>3. Typed
  <2>1. cat \in [on : BOOLEAN, file : 0 .. Len(files)]
    BY <1>1 DEF Init, NoCat
  <2> QED  BY <1>1, <1>2, <2>1 DEF Init, Typed
<1>4. CatOk
  BY DEF Init, CatOk, NoCat
<1>5. FilesOk /\ InOrder
  BY <1>1 DEF Init, FilesOk, InOrder, Rising, Above
<1>6. Things = {}
  BY <1>1 DEF Init, Things, ToSet
<1>7. PICK L : L = [f \in {0} |-> <<>>]
  OBVIOUS
<1>8. Streams(L)
  <2>1. 0 .. Len(files) = {0} /\ ~cat.on /\ L[0] = <<>>
    BY <1>1, <1>7 DEF Init, NoCat
  <2>2. Whole(0) = <<>> /\ ~Writes(0)
    BY <2>1 DEF Whole, FileAt, Writes
  <2>3. UpTo(<<>>, said)
    BY <1>1 DEF UpTo
  <2>4. Earlier(<<>>, <<>>)
    BY <1>1 DEF Earlier
  <2> QED  BY <2>1, <2>2, <2>3, <2>4, NoPlaces DEF Streams
<1>9. Known(L)
  BY <1>1, <1>6, <1>8 DEF Init, Known
<1> QED  BY <1>3, <1>4, <1>5, <1>9 DEF TapsInv

LEMMA TapsInvNext ==
    ASSUME TapsInv, [Next]_vars
    PROVE  TapsInv'
<1>1. Typed /\ DOMAIN taps = 1 .. Len(taps)
  BY Counts DEF TapsInv
<1>2. /\ KeptIn(taps) /\ KeptIn(Cancelled) /\ KeptIn(Ended)
      /\ \A t \in 1 .. Len(taps) :
            /\ KeptIn([taps EXCEPT ![t].tail = FALSE])
            /\ KeptIn([taps EXCEPT ![t].reader = FALSE, ![t].ch = <<>>, ![t].parser = NewParser])
  BY <1>1, KeptSeqs
<1>3. CASE RegisterPane
  BY <1>3, StartStep DEF RegisterPane
<1>4. CASE StartRestoredTaps
  <2>1. CASE frame = "live"
    BY <1>4, <2>1, StartStep DEF StartRestoredTaps
  <2>2. CASE frame # "live"
    <3>1. UNCHANGED <<current, taps, path, files, cat, pending, queue, said, told>>
      BY <1>4, <2>2 DEF StartRestoredTaps
    <3> QED  BY <1>2, <3>1, QuietStep
  <2> QED  BY <2>1, <2>2
<1>5. CASE UnregisterPane
  <2>1. CASE current # 0
    <3>1. /\ taps' = Cancelled /\ current' = 0 /\ path' = 0 /\ ClosePipe
          /\ UNCHANGED <<files, queue, said, told>>
      BY <1>5, <2>1 DEF UnregisterPane, StopTap
    <3> QED  BY <1>2, <3>1, StopStep
  <2>2. CASE current = 0
    <3>1. UNCHANGED <<current, taps, path, files, cat, pending, queue, said, told>>
      BY <1>5, <2>2 DEF UnregisterPane
    <3> QED  BY <1>2, <3>1, QuietStep
  <2> QED  BY <2>1, <2>2
<1>6. CASE Crash
  <2>1. /\ taps' = Ended /\ current' = 0 /\ queue' = <<>>
        /\ UNCHANGED <<path, files, cat, pending, said, told>>
    BY <1>6 DEF Crash
  <2> QED  BY <1>2, <2>1, QuietStep
<1>7. CASE Exit
  <2>1. /\ taps' = Ended /\ current' = 0 /\ queue' = <<>> /\ ClosePipe
        /\ (path' = 0 \/ path' = path) /\ UNCHANGED <<files, said, told>>
    BY <1>7 DEF Exit
  <2> QED  BY <1>2, <2>1, StopStep
<1>8. CASE Boot
  <2>1. UNCHANGED <<current, taps, path, files, cat, pending, queue, said, told>>
    BY <1>8 DEF Boot
  <2> QED  BY <1>2, <2>1, QuietStep
<1>9. CASE Say \/ CatOpens \/ CatWrites \/ LoopTakes
  BY <1>9, SayStep, OpenStep, WriteStep, LoopStep
<1>10. ASSUME NEW t \in DOMAIN taps, Reading(t)
       PROVE  TapsInv'
  <2>1. CASE TailRead(t)
    BY <2>1, TailReadStep
  <2>2. CASE TailQuit(t)
    <3>1. /\ taps' = [taps EXCEPT ![t].tail = FALSE] /\ path' = 0
          /\ UNCHANGED <<current, files, cat, pending, queue, said, told>>
      BY <2>2 DEF TailQuit
    <3> QED  BY <1>1, <1>2, <3>1, QuietStep
  <2>3. CASE ReadTap(t)
    BY <2>3, ReadTapStep
  <2>4. CASE ReadQuit(t)
    <3>1. /\ taps' = [taps EXCEPT ![t].reader = FALSE, ![t].ch = <<>>, ![t].parser = NewParser]
          /\ UNCHANGED <<current, path, files, cat, pending, queue, said, told>>
      BY <2>4 DEF ReadQuit
    <3> QED  BY <1>1, <1>2, <3>1, QuietStep
  <2> QED  BY <1>10, <2>1, <2>2, <2>3, <2>4 DEF Reading
<1>11. CASE UNCHANGED vars
  <2>1. UNCHANGED <<current, taps, path, files, cat, pending, queue, said, told>>
    BY <1>11 DEF vars
  <2> QED  BY <1>2, <2>1, QuietStep
<1> QED  BY <1>3, <1>4, <1>5, <1>6, <1>7, <1>8, <1>9, <1>10, <1>11 DEF Next, Running

LEMMA HeardIn ==
    ASSUME TapsInv
    PROVE  HeardOnce
<1>1. Typed /\ FilesOk /\ InOrder /\ DOMAIN taps = 1 .. Len(taps) /\ Len(told) \in Nat /\ Len(files) \in Nat
  BY Counts DEF TapsInv
<1>2. PICK L : Known(L)
  BY DEF TapsInv
<1>3. DOMAIN told = 1 .. Len(told) /\ \A i \in 1 .. Len(told) : told[i] \in Item /\ ThingOk(told[i], L)
  BY <1>1, <1>2, Counts, LenProperties DEF Known, Typed
<1>4. ASSUME NEW i \in 1 .. Len(told)
      PROVE  /\ told[i].raw = Payload(Number(told[i].raw)) /\ told[i].tap \in 1 .. Len(taps)
             /\ taps[told[i].tap].file \in 1 .. Len(files)
             /\ \E j \in 1 .. Len(L[taps[told[i].tap].file]) : L[taps[told[i].tap].file][j][1] = Number(told[i].raw)
             /\ Number(told[i].raw) \in Nat
  <2>1. /\ told[i].tap \in 1 .. Len(taps) /\ told[i].raw = Payload(Number(told[i].raw))
        /\ \E j \in 1 .. Len(files[taps[told[i].tap].file]) : L[taps[told[i].tap].file][j][1] = Number(told[i].raw)
    BY <1>3 DEF ThingOk
  <2>2. PICK f : f = taps[told[i].tap].file
    OBVIOUS
  <2>3. f \in 1 .. Len(files) /\ f \in 0 .. Len(files)
    BY <1>1, <2>1, <2>2 DEF FilesOk
  <2>4. Chain(L[f]) /\ Len(L[f]) = Len(Whole(f))
    BY <1>2, <2>3 DEF Known, Streams, Marks
  <2>5. Len(files[f]) \in Nat /\ Len(files[f]) <= Len(L[f]) /\ Len(L[f]) \in Nat
    BY <1>1, <2>3, <2>4, WholeIs, ChainIs
  <2>6. PICK j \in 1 .. Len(files[f]) : L[f][j][1] = Number(told[i].raw)
    BY <2>1, <2>2
  <2>7. j \in 1 .. Len(L[f])
    BY <2>5
  <2>8. Number(told[i].raw) \in Nat
    BY <2>4, <2>6, <2>7, ChainIs, PlaceIs
  <2> QED  BY <2>1, <2>2, <2>3, <2>6, <2>7, <2>8
<1>5. ASSUME NEW i \in 1 .. Len(told), NEW j \in 1 .. Len(told), told[i].tap < told[j].tap
      PROVE  Number(told[i].raw) < Number(told[j].raw)
  <2>1. PICK f, g : f = taps[told[i].tap].file /\ g = taps[told[j].tap].file
    OBVIOUS
  <2>2. f < g /\ f \in 0 .. Len(files) /\ g \in 0 .. Len(files) /\ f # 0
    <3>1. told[i].tap \in 1 .. Len(taps) /\ told[j].tap \in 1 .. Len(taps) /\ f \in 1 .. Len(files) /\ g \in 1 .. Len(files)
      BY <1>4, <2>1
    <3>2. f < g
      BY <1>1, <1>5, <2>1, <3>1 DEF FilesOk
    <3> QED  BY <1>1, <3>1, <3>2
  <2>3. Earlier(L[f], L[g])
    BY <1>2, <2>2 DEF Known, Streams
  <2>4. PICK a \in 1 .. Len(L[f]), b \in 1 .. Len(L[g]) :
          L[f][a][1] = Number(told[i].raw) /\ L[g][b][1] = Number(told[j].raw)
    BY <1>4, <2>1
  <2> QED  BY <2>3, <2>4 DEF Earlier
<1>6. ASSUME NEW i \in 1 .. Len(told), NEW j \in 1 .. Len(told), i < j, told[i].tap = told[j].tap
      PROVE  Number(told[i].raw) < Number(told[j].raw)
  BY <1>1, <1>6 DEF InOrder, Rising
<1>7. ASSUME NEW i \in 1 .. Len(told), NEW j \in 1 .. Len(told), i # j
      PROVE  Number(told[i].raw) # Number(told[j].raw)
  <2>1. i < j \/ j < i
    BY <1>1, <1>7
  <2>2. /\ told[i].tap \in Nat /\ told[j].tap \in Nat
        /\ Number(told[i].raw) \in Nat /\ Number(told[j].raw) \in Nat
    BY <1>3, <1>4 DEF Item
  <2>3. Number(told[i].raw) < Number(told[j].raw) \/ Number(told[j].raw) < Number(told[i].raw)
    <3>1. CASE told[i].tap < told[j].tap
      BY <1>5, <3>1
    <3>2. CASE told[j].tap < told[i].tap
      BY <1>5, <3>2
    <3>3. CASE told[i].tap = told[j].tap
      BY <1>6, <2>1, <3>3
    <3> QED  BY <2>2, <3>1, <3>2, <3>3
  <2> QED  BY <2>2, <2>3
<1> QED  BY <1>3, <1>4, <1>6, <1>7 DEF HeardOnce, Number

\* What the loop is told of a pane is whole and in the order of the program, and
\* nothing is told twice, for any sizes of writes, reads and channels and however
\* starts and stops of taps and daemons interleave with their goroutines
\* (tap_manager.go, tmux_pipe_tap.go, osc_parser.go).
THEOREM HeardTheorem == Spec => []HeardOnce
<1>1. Init => TapsInv
  BY TapsInvInit
<1>2. TapsInv /\ [Next]_vars => TapsInv'
  BY TapsInvNext
<1>3. TapsInv => HeardOnce
  BY HeardIn
<1> QED  BY <1>1, <1>2, <1>3, PTL DEF Spec

-----------------------------------------------------------------------------
(* The relay *)

CONSTANTS MaxLines, MaxTables, MaxTurns, Backlog, MaxLog
VARIABLES lost, stage, active, tables, wire, cur, tabs, tab, view, renderer, fills, turns, fresh

\* The file relay with the daemon's loop and the log program around it.
R == INSTANCE Relay

\* The place in its file of the i-th line of s.
PlaceOf(s, i) == s[i][2]

\* The entry e of file p, of which the lines of s were sent: its offset is
\* behind all of them and not beyond the file.
EntryOk(e, p, s, n, gone) ==
  /\ n \in Nat
  /\ s \in Seq({p} \X Nat)
  /\ \A i \in 1 .. Len(s) : PlaceOf(s, i) <= n
  /\ \A i, j \in 1 .. Len(s) : i < j => PlaceOf(s, i) < PlaceOf(s, j)
  /\ DOMAIN e = {"on", "frame", "kind", "offset", "dirty"} /\ e.on \in BOOLEAN
  /\ e.on => /\ e.offset \in Nat /\ e.offset <= n
             /\ \A i \in 1 .. Len(s) : PlaceOf(s, i) <= e.offset
             /\ e.frame = IF p = R!App THEN R!NoFrame ELSE R!RootFrame(p[2])
             /\ ~gone

\* A piece that was read goes on from the offset its entry still has, or the
\* entry is gone for good.
PieceOk(r) ==
  /\ r.path \in R!Files /\ r.to \in Nat /\ r.to <= size[r.path]
  /\ IF entry[r.path].on THEN r.to > entry[r.path].offset ELSE r.path # R!App /\ stage[r.path[2]] = 4

GoneFile(p) == p # R!App /\ stage[p[2]] = 4

RelayInv ==
  /\ size = [p \in R!Files |-> size[p]] /\ entry = [p \in R!Files |-> entry[p]]
  /\ sent = [p \in R!Files |-> sent[p]] /\ stage = [s \in Sessions |-> stage[s]]
  /\ entry[R!App].on
  /\ \A p \in R!Files : EntryOk(entry[p], p, sent[p], size[p], GoneFile(p))
  /\ \A r \in read : PieceOk(r)

-----------------------------------------------------------------------------
LEMMA FileFacts ==
  /\ R!App \in R!Files
  /\ \A p \in R!Files : /\ p = <<p[1], p[2]>>
                        /\ p # R!App => p[2] \in Sessions /\ p[1] \in {"transcript", "events"}
                        /\ p = R!App => p[1] = "app"
  BY DEF R!Files, R!App, R!Transcript, R!Events

\* Lines have places, and those of a piece come one after the other.
LEMMA LinePlaces ==
    ASSUME NEW p, NEW s \in Seq({p} \X Nat)
    PROVE  Len(s) \in Nat /\ DOMAIN s = 1 .. Len(s) /\ \A i \in 1 .. Len(s) : PlaceOf(s, i) \in Nat
<1>1. Len(s) \in Nat /\ DOMAIN s = 1 .. Len(s)
  BY LenProperties
<1>2. \A i \in 1 .. Len(s) : s[i] \in {p} \X Nat
  BY ElementOfSeq
<1>3. \A x \in {p} \X Nat : x[2] \in Nat
  OBVIOUS
<1> QED  BY <1>1, <1>2, <1>3 DEF PlaceOf

LEMMA PieceLines ==
    ASSUME NEW p, NEW from \in Nat, NEW to \in Nat, from <= to
    PROVE  /\ R!LinesOf(p, from, to) \in Seq({p} \X Nat) /\ Len(R!LinesOf(p, from, to)) = to - from
           /\ \A i \in 1 .. (to - from) : PlaceOf(R!LinesOf(p, from, to), i) = from + i
<1> DEFINE n == to - from
           new == R!LinesOf(p, from, to)
<1>1. n \in Nat
  OBVIOUS
<1>2. new = [i \in 1 .. n |-> <<p, from + i>>]
  BY DEF R!LinesOf
<1>3. \A i \in 1 .. n : <<p, from + i>> \in {p} \X Nat
  OBVIOUS
<1>4. new \in [1 .. n -> {p} \X Nat]
  <2> HIDE DEF n, new
  <2> QED  BY <1>2, <1>3
<1>5. new \in Seq({p} \X Nat)
  <2> HIDE DEF n, new
  <2>1. Seq({p} \X Nat) = UNION {[1 .. k -> {p} \X Nat] : k \in Nat}
    BY SeqDef
  <2>2. [1 .. n -> {p} \X Nat] \in {[1 .. k -> {p} \X Nat] : k \in Nat}
    BY <1>1
  <2> QED  BY <1>4, <2>1, <2>2
<1>6. Len(new) = n
  <2>1. DOMAIN new = 1 .. n
    BY <1>2
  <2>2. Len(new) \in Nat /\ DOMAIN new = 1 .. Len(new)
    BY <1>5, LenProperties
  <2> HIDE DEF n, new
  <2> QED  BY <1>1, <2>1, <2>2
<1>7. \A i \in 1 .. n : PlaceOf(new, i) = from + i
  BY <1>2 DEF PlaceOf
<1> QED  BY <1>5, <1>6, <1>7

\* What a step of the daemon leaves of an entry, the lines sent being the same.
LEMMA EntryKeeps ==
    ASSUME NEW e, NEW p, NEW s, NEW n, NEW gone, EntryOk(e, p, s, n, gone)
    PROVE  /\ \A more \in Nat : more >= n => EntryOk(e, p, s, more, gone)
           /\ \A g \in BOOLEAN : EntryOk(R!NoEntry, p, s, n, g)
           /\ \A g \in BOOLEAN : ~e.on => EntryOk(e, p, s, n, g)
<1>1. \A more \in Nat : more >= n => EntryOk(e, p, s, more, gone)
  <2> SUFFICES ASSUME NEW more \in Nat, more >= n
               PROVE  EntryOk(e, p, s, more, gone)
    OBVIOUS
  <2>1. \A i \in 1 .. Len(s) : PlaceOf(s, i) \in Nat
    BY LinePlaces DEF EntryOk
  <2> QED  BY <2>1 DEF EntryOk
<1>2. \A g \in BOOLEAN : EntryOk(R!NoEntry, p, s, n, g)
  BY DEF EntryOk, R!NoEntry
<1>3. \A g \in BOOLEAN : ~e.on => EntryOk(e, p, s, n, g)
  BY DEF EntryOk
<1> QED  BY <1>1, <1>2, <1>3

LEMMA EntryDirty ==
    ASSUME NEW e, NEW p, NEW s, NEW n, NEW gone, EntryOk(e, p, s, n, gone),
           NEW marked,
           marked = [e EXCEPT !.dirty = TRUE] \/ marked = [e EXCEPT !.dirty = FALSE]
    PROVE  EntryOk(marked, p, s, n, gone) /\ marked.on = e.on /\ marked.offset = e.offset
  BY DEF EntryOk

\* A piece that goes on from the offset puts its lines behind all those sent.
LEMMA Appended ==
    ASSUME NEW p, NEW s \in Seq({p} \X Nat), NEW from \in Nat, NEW to \in Nat, from < to,
           \A i \in 1 .. Len(s) : PlaceOf(s, i) <= from,
           \A i, j \in 1 .. Len(s) : i < j => PlaceOf(s, i) < PlaceOf(s, j),
           NEW all, all = s \o R!LinesOf(p, from, to)
    PROVE  /\ all \in Seq({p} \X Nat)
           /\ \A i \in 1 .. Len(all) : PlaceOf(all, i) <= to
           /\ \A i, j \in 1 .. Len(all) : i < j => PlaceOf(all, i) < PlaceOf(all, j)
<1> DEFINE new == R!LinesOf(p, from, to)
           n == to - from
<1>0. from <= to
  OBVIOUS
<1>1. Len(s) \in Nat /\ \A i \in 1 .. Len(s) : PlaceOf(s, i) \in Nat
  BY LinePlaces
<1>2. /\ new \in Seq({p} \X Nat) /\ Len(new) = n
      /\ \A i \in 1 .. n : PlaceOf(new, i) = from + i
  BY <1>0, PieceLines
<1>3. n \in Nat /\ from + n = to
  OBVIOUS
<1> HIDE DEF new, n
<1>4. /\ all \in Seq({p} \X Nat) /\ Len(all) = Len(s) + n
      /\ \A i \in 1 .. Len(s) + n : all[i] = IF i <= Len(s) THEN s[i] ELSE new[i - Len(s)]
  BY <1>2, ConcatProperties DEF new
<1>5. \A i \in 1 .. Len(s) + n : i <= Len(s) => PlaceOf(all, i) = PlaceOf(s, i)
  BY <1>4 DEF PlaceOf
<1>6. \A i \in 1 .. Len(s) + n : i > Len(s) => PlaceOf(all, i) = from + (i - Len(s))
  <2> SUFFICES ASSUME NEW i \in 1 .. Len(s) + n, i > Len(s)
               PROVE  PlaceOf(all, i) = from + (i - Len(s))
    OBVIOUS
  <2>1. i - Len(s) \in 1 .. n /\ ~(i <= Len(s))
    BY <1>1, <1>3
  <2>2. all[i] = new[i - Len(s)]
    BY <1>4, <2>1
  <2>3. PlaceOf(all, i) = PlaceOf(new, i - Len(s))
    BY <2>2 DEF PlaceOf
  <2> QED  BY <1>2, <2>1, <2>3
<1>7. ASSUME NEW i \in 1 .. Len(s) + n
      PROVE  PlaceOf(all, i) <= to /\ (i <= Len(s) => PlaceOf(all, i) <= from) /\ PlaceOf(all, i) \in Nat
  <2>1. CASE i <= Len(s)
    <3>1. i \in 1 .. Len(s)
      BY <1>1, <1>3, <2>1
    <3>2. PlaceOf(all, i) = PlaceOf(s, i) /\ PlaceOf(s, i) <= from /\ PlaceOf(s, i) \in Nat
      BY <1>1, <1>5, <2>1, <3>1
    <3> QED  BY <3>2
  <2>2. CASE i > Len(s)
    <3>1. i - Len(s) \in 1 .. n
      BY <1>1, <1>3, <2>2
    <3> QED  BY <1>1, <1>3, <1>6, <2>2, <3>1
  <2> QED  BY <1>1, <1>3, <2>1, <2>2
<1>8. ASSUME NEW i \in 1 .. Len(s) + n, NEW j \in 1 .. Len(s) + n, i < j
      PROVE  PlaceOf(all, i) < PlaceOf(all, j)
  <2>1. CASE j <= Len(s)
    <3>1. i \in 1 .. Len(s) /\ j \in 1 .. Len(s) /\ i <= Len(s)
      BY <1>1, <1>3, <1>8, <2>1
    <3>2. PlaceOf(all, i) = PlaceOf(s, i) /\ PlaceOf(all, j) = PlaceOf(s, j)
      BY <1>5, <2>1, <3>1
    <3> QED  BY <1>8, <3>1, <3>2
  <2>2. CASE j > Len(s) /\ i <= Len(s)
    <3>1. PlaceOf(all, j) = from + (j - Len(s)) /\ j - Len(s) \in 1 .. n
      BY <1>1, <1>3, <1>6, <2>2
    <3>2. PlaceOf(all, i) <= from /\ PlaceOf(all, i) \in Nat
      BY <1>7, <2>2
    <3> QED  BY <3>1, <3>2
  <2>3. CASE j > Len(s) /\ i > Len(s)
    <3>1. PlaceOf(all, j) = from + (j - Len(s)) /\ PlaceOf(all, i) = from + (i - Len(s))
      BY <1>6, <2>3
    <3> QED  BY <1>1, <1>3, <1>8, <3>1
  <2> QED  BY <1>1, <1>3, <2>1, <2>2, <2>3
<1> QED  BY <1>4, <1>7, <1>8

LEMMA PieceSent ==
    ASSUME NEW e, NEW p, NEW s, NEW n, NEW gone, EntryOk(e, p, s, n, gone), e.on,
           NEW to \in Nat, e.offset < to, to <= n
    PROVE  EntryOk([e EXCEPT !.offset = to], p, s \o R!LinesOf(p, e.offset, to), n, gone)
<1> DEFINE all == s \o R!LinesOf(p, e.offset, to)
<1>1. /\ n \in Nat /\ e.offset \in Nat /\ s \in Seq({p} \X Nat)
      /\ \A i \in 1 .. Len(s) : PlaceOf(s, i) <= e.offset
      /\ \A i, j \in 1 .. Len(s) : i < j => PlaceOf(s, i) < PlaceOf(s, j)
  BY DEF EntryOk
<1>2. /\ all \in Seq({p} \X Nat)
      /\ \A i \in 1 .. Len(all) : PlaceOf(all, i) <= to
      /\ \A i, j \in 1 .. Len(all) : i < j => PlaceOf(all, i) < PlaceOf(all, j)
  BY <1>1, Appended
<1> HIDE DEF all
<1>3. Len(all) \in Nat /\ \A i \in 1 .. Len(all) : PlaceOf(all, i) \in Nat
  BY <1>2, LinePlaces
<1>4. \A i \in 1 .. Len(all) : PlaceOf(all, i) <= n
  BY <1>1, <1>2, <1>3
<1>5. EntryOk([e EXCEPT !.offset = to], p, all, n, gone)
  BY <1>1, <1>2, <1>4 DEF EntryOk
<1> QED  BY <1>5 DEF all

LEMMA RelayInit == R!Init => RelayInv
<1> SUFFICES ASSUME R!Init
             PROVE  RelayInv
  OBVIOUS
<1>1. EntryOk([R!NoEntry EXCEPT !.on = TRUE], R!App, << >>, 0, FALSE)
  BY DEF EntryOk, R!NoEntry
<1>2. \A p \in R!Files, g \in BOOLEAN : EntryOk(R!NoEntry, p, << >>, 0, g)
  BY DEF EntryOk, R!NoEntry
<1>3. entry = [p \in R!Files |-> IF p = R!App THEN [R!NoEntry EXCEPT !.on = TRUE] ELSE R!NoEntry]
      /\ size = [p \in R!Files |-> 0] /\ sent = [p \in R!Files |-> << >>] /\ read = {}
      /\ stage = [s \in Sessions |-> 0]
  BY DEF R!Init
<1>4. [R!NoEntry EXCEPT !.on = TRUE].on = TRUE
  BY DEF R!NoEntry
<1>5. \A p \in R!Files : EntryOk(entry[p], p, sent[p], size[p], GoneFile(p))
  <2> SUFFICES ASSUME NEW p \in R!Files
               PROVE  EntryOk(entry[p], p, << >>, 0, GoneFile(p))
    BY <1>3
  <2>1. CASE p = R!App
    BY <1>1, <1>3, <2>1 DEF GoneFile
  <2>2. CASE p # R!App
    BY <1>2, <1>3, <2>2 DEF GoneFile
  <2> QED  BY <2>1, <2>2
<1> QED  BY <1>3, <1>4, <1>5, FileFacts DEF RelayInv

-----------------------------------------------------------------------------
LEMMA RelayWrite == ASSUME RelayInv, NEW p \in R!Files, R!Write(p) PROVE RelayInv'
<1>1. /\ size' = [size EXCEPT ![p] = @ + 1]
      /\ UNCHANGED <<entry, read, sent, stage>>
  BY DEF R!Write
<1>2. size = [q \in R!Files |-> size[q]] /\ \A q \in R!Files : size[q] \in Nat
  BY DEF RelayInv, EntryOk
<1>3. size' = [q \in R!Files |-> size'[q]] /\ \A q \in R!Files : size'[q] \in Nat /\ size'[q] >= size[q]
  BY <1>1, <1>2
<1>4. \A q \in R!Files : EntryOk(entry'[q], q, sent'[q], size'[q], GoneFile(q)')
  <2> SUFFICES ASSUME NEW q \in R!Files
               PROVE  EntryOk(entry[q], q, sent[q], size'[q], GoneFile(q))
    BY <1>1 DEF GoneFile
  <2>1. EntryOk(entry[q], q, sent[q], size[q], GoneFile(q))
    BY DEF RelayInv
  <2> QED  BY <1>3, <2>1, EntryKeeps
<1>5. \A r \in read' : PieceOk(r)'
  <2> SUFFICES ASSUME NEW r \in read
               PROVE  PieceOk(r)'
    BY <1>1
  <2>1. PieceOk(r)
    BY DEF RelayInv
  <2>2. r.to \in Nat /\ r.to <= size'[r.path]
    BY <1>2, <1>3, <2>1 DEF PieceOk
  <2> QED  BY <1>1, <2>1, <2>2 DEF PieceOk
<1> QED  BY <1>1, <1>3, <1>4, <1>5 DEF RelayInv

LEMMA RelayWatchLoop == ASSUME RelayInv, NEW p \in R!Files, R!WatchLoop(p), UNCHANGED stage PROVE RelayInv'
<1>1. /\ entry' = IF entry[p].on THEN [entry EXCEPT ![p].dirty = TRUE] ELSE entry
      /\ UNCHANGED <<size, read, sent, stage>>
  BY DEF R!WatchLoop, R!Following
<1>2. entry = [q \in R!Files |-> entry[q]]
  BY DEF RelayInv
<1>3. \A q \in R!Files : entry'[q] = entry[q] \/ entry'[q] = [entry[q] EXCEPT !.dirty = TRUE]
  BY <1>1, <1>2
<1>4. entry' = [q \in R!Files |-> entry'[q]]
  BY <1>1, <1>2
<1>5. \A q \in R!Files : /\ EntryOk(entry'[q], q, sent[q], size[q], GoneFile(q))
                        /\ entry'[q].on = entry[q].on /\ entry'[q].offset = entry[q].offset
  <2> SUFFICES ASSUME NEW q \in R!Files
               PROVE  /\ EntryOk(entry'[q], q, sent[q], size[q], GoneFile(q))
                      /\ entry'[q].on = entry[q].on /\ entry'[q].offset = entry[q].offset
    OBVIOUS
  <2>1. EntryOk(entry[q], q, sent[q], size[q], GoneFile(q))
    BY DEF RelayInv
  <2>2. CASE entry'[q] = entry[q]
    BY <2>1, <2>2
  <2>3. CASE entry'[q] = [entry[q] EXCEPT !.dirty = TRUE]
    BY <2>1, <2>3, EntryDirty
  <2> QED  BY <1>3, <2>2, <2>3
<1>6. \A r \in read' : PieceOk(r)'
  BY <1>1, <1>5 DEF RelayInv, PieceOk
<1>7. \A q \in R!Files : EntryOk(entry'[q], q, sent'[q], size'[q], GoneFile(q)')
  BY <1>1, <1>5 DEF GoneFile
<1> QED  BY <1>1, <1>4, <1>5, <1>6, <1>7, FileFacts DEF RelayInv

LEMMA RelaySweep == ASSUME RelayInv, R!Sweep, UNCHANGED stage PROVE RelayInv'
<1>1. /\ entry' = [q \in R!Files |-> [entry[q] EXCEPT !.dirty = FALSE]]
      /\ read = {} /\ UNCHANGED <<size, read, sent, stage>>
  BY DEF R!Sweep
<1>2. entry' = [q \in R!Files |-> entry'[q]] /\ \A q \in R!Files : entry'[q] = [entry[q] EXCEPT !.dirty = FALSE]
  BY <1>1
<1>3. \A q \in R!Files : EntryOk(entry'[q], q, sent[q], size[q], GoneFile(q)) /\ entry'[q].on = entry[q].on
  <2> SUFFICES ASSUME NEW q \in R!Files
               PROVE  EntryOk(entry'[q], q, sent[q], size[q], GoneFile(q)) /\ entry'[q].on = entry[q].on
    OBVIOUS
  <2>1. EntryOk(entry[q], q, sent[q], size[q], GoneFile(q))
    BY DEF RelayInv
  <2> QED  BY <1>2, <2>1, EntryDirty
<1>4. \A q \in R!Files : EntryOk(entry'[q], q, sent'[q], size'[q], GoneFile(q)')
  BY <1>1, <1>3 DEF GoneFile
<1> QED  BY <1>1, <1>2, <1>3, <1>4, FileFacts DEF RelayInv

LEMMA RelayReadFrom == ASSUME RelayInv, NEW p \in R!Files, R!ReadFrom(p), UNCHANGED stage PROVE RelayInv'
<1>1. UNCHANGED <<size, entry, sent, stage>>
  BY DEF R!ReadFrom
<1>2. \A r \in read' : r.path = p /\ r.to = size[p] /\ entry[p].on /\ size[p] > entry[p].offset
  BY DEF R!ReadFrom, R!Following
<1>3. size[p] \in Nat
  BY DEF RelayInv, EntryOk
<1>4. \A r \in read' : PieceOk(r)'
  BY <1>1, <1>2, <1>3 DEF PieceOk
<1> QED  BY <1>1, <1>4 DEF RelayInv, GoneFile

\* Only the goroutine that read a piece sends it, and the offset has not moved.
LEMMA RelayBroadcast == ASSUME RelayInv, NEW r \in read, R!Broadcast(r) PROVE RelayInv'
<1> DEFINE p == r.path
<1>1. p \in R!Files /\ r.to \in Nat /\ r.to <= size[p] /\ entry[p].on /\ r.to > entry[p].offset
  BY DEF RelayInv, PieceOk, R!Broadcast, R!Following
<1>2. R!Piece(r).lines = R!LinesOf(p, entry[p].offset, r.to)
  BY DEF R!Piece
<1>3. /\ entry' = [entry EXCEPT ![p].offset = r.to] /\ read' = {} /\ UNCHANGED <<size, stage>>
      /\ sent' = [sent EXCEPT ![p] = @ \o R!LinesOf(p, entry[p].offset, r.to)]
  BY <1>2 DEF R!Broadcast
<1>4. entry = [q \in R!Files |-> entry[q]] /\ sent = [q \in R!Files |-> sent[q]]
  BY DEF RelayInv
<1>5. /\ entry' = [q \in R!Files |-> entry'[q]] /\ sent' = [q \in R!Files |-> sent'[q]]
      /\ entry'[p] = [entry[p] EXCEPT !.offset = r.to]
      /\ sent'[p] = sent[p] \o R!LinesOf(p, entry[p].offset, r.to)
      /\ \A q \in R!Files : q # p => entry'[q] = entry[q] /\ sent'[q] = sent[q]
  BY <1>1, <1>3, <1>4
<1>6. \A q \in R!Files : EntryOk(entry[q], q, sent[q], size[q], GoneFile(q))
  BY DEF RelayInv
<1>7. EntryOk(entry'[p], p, sent'[p], size[p], GoneFile(p)) /\ entry'[p].on
  <2> HIDE DEF p
  <2>1. entry[p].offset < r.to
    BY <1>1, <1>6 DEF EntryOk
  <2>2. EntryOk(entry'[p], p, sent'[p], size[p], GoneFile(p))
    BY <1>1, <1>5, <1>6, <2>1, PieceSent
  <2>3. entry'[p].on
    BY <1>1, <1>5, <1>6 DEF EntryOk
  <2> QED  BY <2>2, <2>3
<1>8. \A q \in R!Files : EntryOk(entry'[q], q, sent'[q], size'[q], GoneFile(q)')
  BY <1>3, <1>5, <1>6, <1>7 DEF GoneFile
<1>9. entry'[R!App].on
  BY <1>5, <1>7, FileFacts DEF RelayInv
<1> QED  BY <1>3, <1>5, <1>8, <1>9 DEF RelayInv

LEMMA RelayBroadcastGone == ASSUME RelayInv, NEW r \in read, R!BroadcastGone(r), UNCHANGED stage PROVE RelayInv'
<1>1. read' = {} /\ UNCHANGED <<size, entry, sent, stage>>
  BY DEF R!BroadcastGone
<1> QED  BY <1>1 DEF RelayInv, GoneFile

-----------------------------------------------------------------------------
\* What following the files of a table does to the entries: an entry stays, or
\* a session that is there has one begun.
SyncedFrom(synced, entries, st) ==
  /\ synced = [p \in R!Files |-> synced[p]]
  /\ synced[R!App] = entries[R!App]
  /\ \A p \in R!Files :
        \/ synced[p] = entries[p]
        \/ /\ ~entries[p].on /\ p # R!App /\ st[p[2]] \in 2 .. 3
           /\ \E kind : synced[p] = [on |-> TRUE, frame |-> R!RootFrame(p[2]), kind |-> kind,
                                     offset |-> size[p], dirty |-> FALSE]

LEMMA SyncFacts ==
    ASSUME NEW entries, NEW st, entries = [p \in R!Files |-> entries[p]]
    PROVE  SyncedFrom(R!SyncRelayWatches(entries, st), entries, st)
<1> DEFINE synced == R!SyncRelayWatches(entries, st)
<1>1. synced = [p \in R!Files |->
                 CASE p[1] = "transcript" /\ st[p[2]] = 3    -> R!Add(entries, p, R!RootFrame(p[2]), "transcript")[p]
                   [] p[1] = "events" /\ st[p[2]] \in 2 .. 3 -> R!Add(entries, p, R!RootFrame(p[2]), "text")[p]
                   [] OTHER                                 -> entries[p]]
  BY DEF R!SyncRelayWatches
<1>2. synced = [p \in R!Files |-> synced[p]]
  BY <1>1
<1> HIDE DEF synced
<1>3. ASSUME NEW p \in R!Files
      PROVE  \/ synced[p] = entries[p]
             \/ /\ p # R!App /\ st[p[2]] \in 2 .. 3
                /\ \E kind : synced[p] = R!Add(entries, p, R!RootFrame(p[2]), kind)[p]
  <2>1. CASE p[1] = "transcript" /\ st[p[2]] = 3
    <3>1. synced[p] = R!Add(entries, p, R!RootFrame(p[2]), "transcript")[p]
      BY <1>1, <1>3, <2>1
    <3>2. p # R!App /\ st[p[2]] \in 2 .. 3
      BY <2>1, FileFacts
    <3> QED  BY <3>1, <3>2
  <2>2. CASE p[1] = "events" /\ st[p[2]] \in 2 .. 3
    <3>1. synced[p] = R!Add(entries, p, R!RootFrame(p[2]), "text")[p]
      BY <1>1, <1>3, <2>2
    <3>2. p # R!App /\ st[p[2]] \in 2 .. 3
      BY <2>2, FileFacts
    <3> QED  BY <3>1, <3>2
  <2>3. CASE ~(p[1] = "transcript" /\ st[p[2]] = 3) /\ ~(p[1] = "events" /\ st[p[2]] \in 2 .. 3)
    BY <1>1, <1>3, <2>3
  <2> QED  BY <2>1, <2>2, <2>3
<1>4. ASSUME NEW p \in R!Files, NEW fr, NEW kind
      PROVE  R!Add(entries, p, fr, kind)[p] =
               IF entries[p].on THEN entries[p]
               ELSE [on |-> TRUE, frame |-> fr, kind |-> kind, offset |-> size[p], dirty |-> FALSE]
  BY <1>4 DEF R!Add
<1>5. ASSUME NEW p \in R!Files
      PROVE  \/ synced[p] = entries[p]
             \/ /\ ~entries[p].on /\ p # R!App /\ st[p[2]] \in 2 .. 3
                /\ \E kind : synced[p] = [on |-> TRUE, frame |-> R!RootFrame(p[2]), kind |-> kind,
                                         offset |-> size[p], dirty |-> FALSE]
  <2>1. CASE synced[p] = entries[p]
    BY <2>1
  <2>2. CASE synced[p] # entries[p]
    <3>1. PICK kind : synced[p] = R!Add(entries, p, R!RootFrame(p[2]), kind)[p]
      BY <1>3, <2>2
    <3>2. p # R!App /\ st[p[2]] \in 2 .. 3
      BY <1>3, <2>2
    <3>3. ~entries[p].on
      BY <1>4, <2>2, <3>1
    <3>4. synced[p] = [on |-> TRUE, frame |-> R!RootFrame(p[2]), kind |-> kind, offset |-> size[p], dirty |-> FALSE]
      BY <1>4, <3>1, <3>3
    <3> QED  BY <3>2, <3>3, <3>4
  <2> QED  BY <2>1, <2>2
<1>6. synced[R!App] = entries[R!App]
  BY <1>5, FileFacts
<1>7. SyncedFrom(synced, entries, st)
  BY <1>2, <1>5, <1>6 DEF SyncedFrom
<1> QED  BY <1>7 DEF synced

\* What the four commands have in common.  A session that is gone stays so, and
\* its files are not followed when the table goes out.
LEMMA RelayTable ==
    ASSUME RelayInv, NEW entries, NEW preview, R!BroadcastSessionsChanged(entries, preview),
           entries = [p \in R!Files |-> entries[p]], stage' = [s \in Sessions |-> stage'[s]],
           \A s \in Sessions : stage[s] = 4 => stage'[s] = 4,
           \A p \in R!Files : entries[p] = entry[p] \/ (p # R!App /\ stage'[p[2]] = 4 /\ entries[p] = R!NoEntry),
           \A p \in R!Files : (p # R!App /\ stage'[p[2]] = 4) => ~entries[p].on
    PROVE  RelayInv'
<1>1. entry' = R!SyncRelayWatches(entries, stage') /\ UNCHANGED <<size, read, sent>>
  BY DEF R!BroadcastSessionsChanged
<1>2. /\ entry' = [p \in R!Files |-> entry'[p]]
      /\ entry'[R!App] = entries[R!App]
      /\ \A p \in R!Files :
           \/ entry'[p] = entries[p]
           \/ /\ ~entries[p].on /\ p # R!App /\ stage'[p[2]] \in 2 .. 3
              /\ \E kind : entry'[p] = [on |-> TRUE, frame |-> R!RootFrame(p[2]), kind |-> kind,
                                       offset |-> size[p], dirty |-> FALSE]
  <2>1. SyncedFrom(entry', entries, stage')
    BY <1>1, SyncFacts
  <2> QED  BY <1>1, <2>1 DEF SyncedFrom
<1>3. entry'[R!App].on
  BY <1>2, FileFacts DEF RelayInv
<1>4. ASSUME NEW p \in R!Files
      PROVE  EntryOk(entry'[p], p, sent[p], size[p], GoneFile(p)')
  <2>0. EntryOk(entry[p], p, sent[p], size[p], GoneFile(p)) /\ GoneFile(p)' \in BOOLEAN
    BY DEF RelayInv, GoneFile
  <2>1. EntryOk(entries[p], p, sent[p], size[p], GoneFile(p)')
    <3>1. CASE entries[p] = R!NoEntry
      BY <2>0, <3>1, EntryKeeps
    <3>2. CASE entries[p] # R!NoEntry /\ entries[p] = entry[p] /\ entry[p].on
      <4>1. ~GoneFile(p)'
        BY <3>2 DEF GoneFile
      <4> QED  BY <2>0, <3>2, <4>1 DEF EntryOk
    <3>3. CASE entries[p] # R!NoEntry /\ entries[p] = entry[p] /\ ~entry[p].on
      BY <2>0, <3>3, EntryKeeps
    <3> QED  BY <3>1, <3>2, <3>3
  <2>2. CASE entry'[p] = entries[p]
    BY <2>1, <2>2
  <2>3. CASE /\ ~entries[p].on /\ p # R!App /\ stage'[p[2]] \in 2 .. 3
             /\ \E kind : entry'[p] = [on |-> TRUE, frame |-> R!RootFrame(p[2]), kind |-> kind,
                                      offset |-> size[p], dirty |-> FALSE]
    <3>1. PICK kind : entry'[p] = [on |-> TRUE, frame |-> R!RootFrame(p[2]), kind |-> kind,
                                   offset |-> size[p], dirty |-> FALSE]
      BY <2>3
    <3>2. ~GoneFile(p)'
      BY <2>3 DEF GoneFile
    <3> QED  BY <2>0, <2>3, <3>1, <3>2 DEF EntryOk
  <2> QED  BY <1>2, <2>2, <2>3
<1>5. ASSUME NEW r \in read
      PROVE  PieceOk(r)'
  <2> DEFINE p == r.path
  <2>1. p \in R!Files /\ r.to \in Nat /\ r.to <= size[p]
    BY DEF RelayInv, PieceOk
  <2>2. IF entry[p].on THEN r.to > entry[p].offset ELSE p # R!App /\ stage[p[2]] = 4
    BY DEF RelayInv, PieceOk
  <2>3. p # R!App => p[2] \in Sessions
    BY <2>1, FileFacts
  <2> HIDE DEF p
  <2>4. CASE p # R!App /\ stage'[p[2]] = 4
    <3>1. ~entry'[p].on
      BY <1>2, <2>1, <2>4
    <3> QED  BY <1>1, <2>1, <2>4, <3>1 DEF PieceOk, p
  <2>5. CASE ~(p # R!App /\ stage'[p[2]] = 4)
    <3>1. entry[p].on /\ r.to > entry[p].offset
      BY <2>2, <2>3, <2>5
    <3>2. entries[p] = entry[p]
      BY <2>1, <2>5
    <3>3. entry'[p] = entry[p]
      BY <1>2, <2>1, <3>1, <3>2
    <3> QED  BY <1>1, <2>1, <3>1, <3>3 DEF PieceOk, p
  <2> QED  BY <2>4, <2>5
<1> QED  BY <1>1, <1>2, <1>3, <1>4, <1>5 DEF RelayInv

LEMMA RelayLaunch == ASSUME RelayInv, NEW s \in Sessions, R!Launch(s) PROVE RelayInv'
<1>1. stage[s] = 0 /\ stage' = [stage EXCEPT ![s] = 1] /\ R!BroadcastSessionsChanged(entry, FALSE)
  BY DEF R!Launch
<1>2. entry = [p \in R!Files |-> entry[p]] /\ stage = [x \in Sessions |-> stage[x]]
  BY DEF RelayInv
<1>3. /\ stage' = [x \in Sessions |-> stage'[x]]
      /\ \A x \in Sessions : stage'[x] = 4 <=> stage[x] = 4
  BY <1>1, <1>2
<1>4. \A p \in R!Files : (p # R!App /\ stage'[p[2]] = 4) => ~entry[p].on
  BY <1>3, FileFacts DEF RelayInv, EntryOk, GoneFile
<1> QED  BY <1>1, <1>2, <1>3, <1>4, RelayTable

LEMMA RelayHook == ASSUME RelayInv, NEW s \in Sessions, R!Hook(s) PROVE RelayInv'
<1>1. stage[s] \in 1 .. 2 /\ stage' = [stage EXCEPT ![s] = @ + 1] /\ R!BroadcastSessionsChanged(entry, FALSE)
  BY DEF R!Hook
<1>2. entry = [p \in R!Files |-> entry[p]] /\ stage = [x \in Sessions |-> stage[x]]
  BY DEF RelayInv
<1>3. /\ stage' = [x \in Sessions |-> stage'[x]]
      /\ \A x \in Sessions : stage'[x] = 4 <=> stage[x] = 4
  BY <1>1, <1>2
<1>4. \A p \in R!Files : (p # R!App /\ stage'[p[2]] = 4) => ~entry[p].on
  BY <1>3, FileFacts DEF RelayInv, EntryOk, GoneFile
<1> QED  BY <1>1, <1>2, <1>3, <1>4, RelayTable

LEMMA RelayPreview == ASSUME RelayInv, NEW s \in Sessions, R!Preview(s) PROVE RelayInv'
<1>1. stage' = stage /\ R!BroadcastSessionsChanged(entry, TRUE)
  BY DEF R!Preview
<1>2. entry = [p \in R!Files |-> entry[p]] /\ stage = [x \in Sessions |-> stage[x]]
  BY DEF RelayInv
<1>3. \A p \in R!Files : (p # R!App /\ stage[p[2]] = 4) => ~entry[p].on
  BY DEF RelayInv, EntryOk, GoneFile
<1> QED  BY <1>1, <1>2, <1>3, RelayTable

\* UnwatchFile forgets all that is followed for the session's frame.
LEMMA RelayStop == ASSUME RelayInv, NEW s \in Sessions, R!Stop(s) PROVE RelayInv'
<1> DEFINE entries == R!UnwatchFile(entry, R!RootFrame(s))
<1>1. stage' = [stage EXCEPT ![s] = 4] /\ R!BroadcastSessionsChanged(entries, FALSE)
  BY DEF R!Stop
<1>2. entry = [p \in R!Files |-> entry[p]] /\ stage = [x \in Sessions |-> stage[x]]
  BY DEF RelayInv
<1>3. /\ stage' = [x \in Sessions |-> stage'[x]] /\ stage'[s] = 4
      /\ \A x \in Sessions : x # s => stage'[x] = stage[x]
      /\ \A x \in Sessions : stage[x] = 4 => stage'[x] = 4
  BY <1>1, <1>2
<1>4. /\ entries = [p \in R!Files |-> entries[p]]
      /\ \A p \in R!Files : entries[p] = IF entry[p].on /\ entry[p].frame = R!RootFrame(s) THEN R!NoEntry ELSE entry[p]
  BY DEF R!UnwatchFile
<1> HIDE DEF entries
<1>5. \A p \in R!Files : EntryOk(entry[p], p, sent[p], size[p], GoneFile(p))
  BY DEF RelayInv
<1>6. ASSUME NEW p \in R!Files, entry[p].on
      PROVE  entry[p].frame = R!RootFrame(s) <=> p # R!App /\ p[2] = s
  <2>1. entry[p].frame = IF p = R!App THEN R!NoFrame ELSE R!RootFrame(p[2])
    BY <1>5, <1>6 DEF EntryOk
  <2>2. R!NoFrame # R!RootFrame(s) /\ \A x \in Sessions : R!RootFrame(x) = R!RootFrame(s) => x = s
    BY RelayAssumption DEF R!NoFrame, R!RootFrame
  <2> QED  BY <2>1, <2>2, FileFacts
<1>7. \A p \in R!Files : entries[p] = entry[p] \/ (p # R!App /\ stage'[p[2]] = 4 /\ entries[p] = R!NoEntry)
  BY <1>3, <1>4, <1>6
<1>8. ASSUME NEW p \in R!Files, p # R!App, stage'[p[2]] = 4
      PROVE  ~entries[p].on
  <2>0. ~R!NoEntry.on
    BY DEF R!NoEntry
  <2>1. CASE p[2] = s
    BY <1>4, <1>6, <1>8, <2>0, <2>1
  <2>2. CASE p[2] # s
    <3>1. stage[p[2]] = 4
      BY <1>3, <1>8, <2>2, FileFacts
    <3>2. ~entry[p].on
      BY <1>5, <1>8, <3>1 DEF EntryOk, GoneFile
    <3> QED  BY <1>4, <2>0, <3>2
  <2> QED  BY <2>1, <2>2
<1> QED  BY <1>1, <1>3, <1>4, <1>7, <1>8, RelayTable

-----------------------------------------------------------------------------
LEMMA RelaySame == ASSUME RelayInv, UNCHANGED R!daemon PROVE RelayInv'
  BY DEF RelayInv, PieceOk, GoneFile, R!daemon, R!relay

LEMMA RelayStep == RelayInv /\ [R!Next]_R!vars => RelayInv'
<1> SUFFICES ASSUME RelayInv, [R!Next]_R!vars
             PROVE  RelayInv'
  OBVIOUS
<1>1. CASE \E p \in R!Files : R!Write(p) \/ (R!WatchLoop(p) /\ R!Apart) \/ (R!ReadFrom(p) /\ R!Apart)
  BY <1>1, RelayWrite, RelayWatchLoop, RelayReadFrom DEF R!Apart
<1>2. CASE R!Sweep /\ R!Apart
  BY <1>2, RelaySweep DEF R!Apart
<1>3. CASE \E r \in read : R!Broadcast(r) \/ (R!BroadcastGone(r) /\ R!Apart)
  BY <1>3, RelayBroadcast, RelayBroadcastGone DEF R!Apart
<1>4. CASE \E s \in Sessions : R!Launch(s) \/ R!Hook(s) \/ R!Preview(s) \/ R!Stop(s)
  BY <1>4, RelayLaunch, RelayHook, RelayPreview, RelayStop
<1>5. CASE R!PaneFocused
  BY <1>5, RelaySame DEF R!PaneFocused
<1>6. CASE R!HandleLogEvent
  BY <1>6, RelaySame DEF R!HandleLogEvent
<1>7. CASE \E i \in DOMAIN tabs : R!Click(i)
  BY <1>7, RelaySame DEF R!Click
<1>8. CASE \E k \in DOMAIN fills : R!ReadTailLines(k) \/ R!HandleBackfillDone(k)
  BY <1>8, RelaySame DEF R!ReadTailLines, R!HandleBackfillDone
<1>9. CASE UNCHANGED R!vars
  BY <1>9, RelaySame DEF R!vars
<1> QED  BY <1>1, <1>2, <1>3, <1>4, <1>5, <1>6, <1>7, <1>8, <1>9 DEF R!Next

\* No line of a followed file is sent to the log program twice or out of its
\* turn, whatever its size, and however the watch loop and the sweep
\* (filerelay.go) interleave with the daemon's launches, hooks and stops.
THEOREM RelayedOnceTheorem == R!Spec => []RelayedOnce
<1>1. RelayInv => R!RelayedOnce
  <2> SUFFICES ASSUME RelayInv, NEW p \in R!Files
               PROVE  \A i, j \in DOMAIN sent[p] : i < j => sent[p][i][2] < sent[p][j][2]
    BY DEF R!RelayedOnce
  <2>1. EntryOk(entry[p], p, sent[p], size[p], GoneFile(p))
    BY DEF RelayInv
  <2>2. sent[p] \in Seq({p} \X Nat)
    BY <2>1 DEF EntryOk
  <2>3. DOMAIN sent[p] = 1 .. Len(sent[p])
    BY <2>2, LinePlaces
  <2>4. \A i, j \in 1 .. Len(sent[p]) : i < j => PlaceOf(sent[p], i) < PlaceOf(sent[p], j)
    BY <2>1 DEF EntryOk
  <2> QED  BY <2>3, <2>4 DEF PlaceOf
<1>2. R!Spec => []RelayInv
  BY RelayInit, RelayStep, PTL DEF R!Spec
<1>3. R!RelayedOnce => RelayedOnce
  BY DEF R!RelayedOnce, RelayedOnce, R!Files, Files, R!App, App, R!Transcript, Transcript, R!Events, Events
<1> QED  BY <1>1, <1>2, <1>3, PTL
=============================================================================
