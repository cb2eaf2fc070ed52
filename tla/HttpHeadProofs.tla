---------------------------- MODULE HttpHeadProofs ---------------------------
(***************************************************************************)
(* Theorems about HttpHead and HttpHost.  The recursive functions of the   *)
(* model are reasoned about by least counterexamples: first that a         *)
(* function with the recursive equation exists, which makes the CHOOSE     *)
(* behind the definition one, then that it has the property at each step.  *)
(***************************************************************************)
EXTENDS HttpHead, SequenceTheorems, WellFoundedInduction, TLAPS

\* A set of numbers has a least one.
LEMMA LeastNumber ==
  ASSUME NEW S, S \subseteq Nat, S # {}
  PROVE  \E x \in S : \A y \in S : x <= y
<1>1. PICK x \in S : \A y \in S : ~(<<y, x>> \in OpToRel(<, Nat))
  BY NatLessThanWellFounded, WFMin
<1>2. ASSUME NEW y \in S PROVE x <= y
  <2>1. x \in Nat /\ y \in Nat
    OBVIOUS
  <2>2. ~(y < x)
    BY <1>1, <2>1 DEF OpToRel
  <2>3. QED
    BY <2>1, <2>2
<1>3. QED
  BY <1>2

-----------------------------------------------------------------------------
(* Upto: the lengths along a chain.                                        *)

Sums(f, c, k) == f = [i \in 0..k |-> IF i = 0 THEN 0 ELSE f[i - 1] + c[i].len]

LEMMA SumsExist == ASSUME NEW c, NEW k \in Nat PROVE \E f : Sums(f, c, k)
<1> DEFINE Bad == {n \in Nat : ~\E f : Sums(f, c, n)}
<1>1. SUFFICES ASSUME Bad # {} PROVE FALSE
  OBVIOUS
<1>2. PICK n \in Bad : \A m \in Bad : n <= m
  BY <1>1, LeastNumber
<1>3. CASE n = 0
  <2> DEFINE g == [i \in 0..0 |-> 0]
  <2>1. Sums(g, c, 0)
    BY DEF Sums
  <2>2. QED
    BY <1>3, <2>1
<1>4. CASE n # 0
  <2>1. n - 1 \in Nat /\ n - 1 \notin Bad
    BY <1>2, <1>4
  <2>2. PICK f : Sums(f, c, n - 1)
    BY <2>1
  <2> DEFINE g == [i \in 0..n |-> IF i = n THEN f[n - 1] + c[n].len ELSE f[i]]
  <2>3. Sums(g, c, n)
    <3>1. ASSUME NEW i \in 0..n PROVE g[i] = IF i = 0 THEN 0 ELSE g[i - 1] + c[i].len
      BY <1>4, <2>1, <2>2 DEF Sums
    <3>2. g = [i \in 0..n |-> g[i]]
      OBVIOUS
    <3> HIDE DEF g
    <3>3. QED
      BY <3>1, <3>2 DEF Sums
  <2>4. QED
    BY <2>3
<1>5. QED
  BY <1>3, <1>4

\* The function of Upto's definition has its equation.
LEMMA UptoDef == ASSUME NEW c, NEW k \in Nat PROVE \E f : Sums(f, c, k) /\ Upto(c, k) = f[k]
<1>1. \E f : f = [i \in 0..k |-> IF i = 0 THEN 0 ELSE f[i - 1] + c[i].len]
  BY SumsExist DEF Sums
<1>2. PICK h : h = (CHOOSE f : f = [i \in 0..k |-> IF i = 0 THEN 0 ELSE f[i - 1] + c[i].len])
  OBVIOUS
<1>3. h = [i \in 0..k |-> IF i = 0 THEN 0 ELSE h[i - 1] + c[i].len]
  BY <1>1, <1>2, Zenon
<1>4. Upto(c, k) = h[k]
  BY <1>2 DEF Upto
<1>5. QED
  BY <1>3, <1>4 DEF Sums

LEMMA SumsUnique ==
  ASSUME NEW c, NEW k \in Nat, NEW n \in Nat, k <= n, NEW f, NEW g, Sums(f, c, k), Sums(g, c, n)
  PROVE  f[k] = g[k]
<1> DEFINE Bad == {i \in 0..k : f[i] # g[i]}
<1>0. k \in 0..k
  OBVIOUS
<1>1. SUFFICES ASSUME Bad # {} PROVE FALSE
  BY <1>0
<1>2. PICK i \in Bad : \A m \in Bad : i <= m
  <2>1. Bad \subseteq Nat
    OBVIOUS
  <2> HIDE DEF Bad
  <2>2. QED
    BY <1>1, <2>1, LeastNumber
<1>3. i \in 0..k /\ i \in 0..n /\ f[i] # g[i]
  OBVIOUS
<1>4. f[i] = (IF i = 0 THEN 0 ELSE f[i - 1] + c[i].len) /\ g[i] = (IF i = 0 THEN 0 ELSE g[i - 1] + c[i].len)
  BY <1>3 DEF Sums
<1>5. i # 0
  BY <1>3, <1>4
<1>6. i - 1 \in 0..k /\ i - 1 \notin Bad
  BY <1>2, <1>3, <1>5
<1>7. f[i - 1] = g[i - 1]
  BY <1>6
<1>8. QED
  BY <1>3, <1>4, <1>7

\* The equation of Upto itself.
LEMMA UptoStep ==
  ASSUME NEW c
  PROVE  Upto(c, 0) = 0 /\ \A k \in Nat \ {0} : Upto(c, k) = Upto(c, k - 1) + c[k].len
<1>1. Upto(c, 0) = 0
  <2>1. PICK f : Sums(f, c, 0) /\ Upto(c, 0) = f[0]
    BY UptoDef
  <2>2. QED
    BY <2>1 DEF Sums
<1>2. ASSUME NEW k \in Nat \ {0} PROVE Upto(c, k) = Upto(c, k - 1) + c[k].len
  <2>1. k \in Nat /\ k - 1 \in Nat /\ k - 1 <= k /\ k # 0
    OBVIOUS
  <2>2. PICK f : Sums(f, c, k) /\ Upto(c, k) = f[k]
    BY <2>1, UptoDef
  <2>3. PICK g : Sums(g, c, k - 1) /\ Upto(c, k - 1) = g[k - 1]
    BY <2>1, UptoDef
  <2>4. f[k - 1] = g[k - 1]
    BY <2>1, <2>2, <2>3, SumsUnique
  <2>5. f[k] = f[k - 1] + c[k].len
    BY <2>1, <2>2 DEF Sums
  <2>6. QED
    BY <2>2, <2>3, <2>4, <2>5
<1>3. QED
  BY <1>1, <1>2

\* A chain of pieces with addresses and lengths; one whose lengths are lengths.
APiece == [from : Int, len : Int]
Pieces == Seq(APiece)
Lengths(c) == \A k \in DOMAIN c : c[k].len >= 0

LEMMA PieceLength ==
  ASSUME NEW c \in Pieces, Lengths(c), NEW i \in DOMAIN c
  PROVE  c[i].len \in Nat
<1>1. c[i] \in APiece
  BY DEF Pieces
<1>2. c[i].len \in Int
  BY <1>1 DEF APiece
<1>3. c[i].len >= 0
  BY DEF Lengths
<1>4. QED
  BY <1>2, <1>3

LEMMA UptoNat ==
  ASSUME NEW c \in Pieces, Lengths(c), NEW k \in 0..Len(c)
  PROVE  Upto(c, k) \in Nat
<1> DEFINE Bad == {i \in 0..Len(c) : Upto(c, i) \notin Nat}
<1>1. SUFFICES ASSUME Bad # {} PROVE FALSE
  OBVIOUS
<1>2. PICK i \in Bad : \A m \in Bad : i <= m
  <2>1. Bad \subseteq Nat
    OBVIOUS
  <2> HIDE DEF Bad
  <2>2. QED
    BY <1>1, <2>1, LeastNumber
<1>3. i \in 0..Len(c) /\ Upto(c, i) \notin Nat /\ i # 0
  BY UptoStep
<1>4. i - 1 \in 0..Len(c) /\ i - 1 \notin Bad /\ i \in DOMAIN c /\ i \in Nat \ {0}
  BY <1>2, <1>3 DEF Pieces
<1>5. Upto(c, i) = Upto(c, i - 1) + c[i].len
  BY <1>4, UptoStep
<1>6. c[i].len \in Nat
  BY <1>4, PieceLength
<1>7. QED
  BY <1>3, <1>4, <1>5, <1>6

-----------------------------------------------------------------------------
(* send_chains.                                                            *)

Lefts(f, c, n, k) ==
  f = [i \in 0..k |-> IF i = 0 THEN n ELSE LET m == f[i - 1] IN IF m >= c[i].len THEN m - c[i].len ELSE -1]

LEMMA LeftsExist == ASSUME NEW c, NEW n, NEW k \in Nat PROVE \E f : Lefts(f, c, n, k)
<1> DEFINE Bad == {j \in Nat : ~\E f : Lefts(f, c, n, j)}
<1>1. SUFFICES ASSUME Bad # {} PROVE FALSE
  OBVIOUS
<1>2. PICK j \in Bad : \A m \in Bad : j <= m
  BY <1>1, LeastNumber
<1>3. CASE j = 0
  <2> DEFINE g == [i \in 0..0 |-> n]
  <2>1. Lefts(g, c, n, 0)
    BY DEF Lefts
  <2>2. QED
    BY <1>3, <2>1
<1>4. CASE j # 0
  <2>1. j - 1 \in Nat /\ j - 1 \notin Bad
    BY <1>2, <1>4
  <2>2. PICK f : Lefts(f, c, n, j - 1)
    BY <2>1
  <2> DEFINE g == [i \in 0..j |-> IF i = j THEN IF f[j - 1] >= c[j].len THEN f[j - 1] - c[j].len ELSE -1 ELSE f[i]]
  <2>3. Lefts(g, c, n, j)
    <3>1. ASSUME NEW i \in 0..j
          PROVE  g[i] = IF i = 0 THEN n ELSE IF g[i - 1] >= c[i].len THEN g[i - 1] - c[i].len ELSE -1
      BY <1>4, <2>1, <2>2 DEF Lefts
    <3>2. g = [i \in 0..j |-> g[i]]
      OBVIOUS
    <3> HIDE DEF g
    <3>3. QED
      BY <3>1, <3>2 DEF Lefts
  <2>4. QED
    BY <2>3
<1>5. QED
  BY <1>3, <1>4

\* The loop of send_chains over the chain reports LOK exactly when writev has
\* written at least what the pieces add up to: what is left behind piece k is
\* what was written less the first k pieces, and stays negative once it is.
LEMMA SendChainsCounts ==
  ASSUME NEW c \in Pieces, Lengths(c), NEW n \in Nat
  PROVE  send_chains(c, n) = IF n >= Upto(c, Len(c)) THEN LOK ELSE LAGAIN
<1> DEFINE k == Len(c)
<1>0. k \in Nat
  BY DEF Pieces
<1>1. \E f : Lefts(f, c, n, k)
  BY <1>0, LeftsExist
<1>2. PICK h : h = (CHOOSE f : f = [i \in 0..k |-> IF i = 0 THEN n ELSE LET m == f[i - 1] IN IF m >= c[i].len THEN m - c[i].len ELSE -1])
  OBVIOUS
<1>3. Lefts(h, c, n, k)
  BY <1>1, <1>2, Zenon DEF Lefts
<1>4. send_chains(c, n) = IF h[k] >= 0 THEN LOK ELSE LAGAIN
  BY <1>2 DEF send_chains
<1> HIDE DEF k
<1>5. h[k] = IF n >= Upto(c, k) THEN n - Upto(c, k) ELSE -1
  <2> DEFINE Bad == {i \in 0..k : h[i] # IF n >= Upto(c, i) THEN n - Upto(c, i) ELSE -1}
  <2>0. k \in 0..k
    BY <1>0
  <2>1. SUFFICES ASSUME Bad # {} PROVE FALSE
    BY <2>0
  <2>2. PICK i \in Bad : \A m \in Bad : i <= m
    <3>1. Bad \subseteq Nat
      BY <1>0
    <3> HIDE DEF Bad
    <3>2. QED
      BY <2>1, <3>1, LeastNumber
  <2>3. i \in 0..k /\ h[i] # IF n >= Upto(c, i) THEN n - Upto(c, i) ELSE -1
    OBVIOUS
  <2>4. h[i] = IF i = 0 THEN n ELSE IF h[i - 1] >= c[i].len THEN h[i - 1] - c[i].len ELSE -1
    BY <1>3, <2>3 DEF Lefts
  <2>5. i # 0
    BY <2>3, <2>4, UptoStep
  <2>6. i - 1 \in 0..k /\ i - 1 \notin Bad /\ i \in DOMAIN c /\ i \in Nat \ {0}
    BY <1>0, <2>2, <2>3, <2>5 DEF Pieces, k
  <2>7. h[i - 1] = IF n >= Upto(c, i - 1) THEN n - Upto(c, i - 1) ELSE -1
    BY <2>6
  <2>8. Upto(c, i) = Upto(c, i - 1) + c[i].len /\ Upto(c, i - 1) \in Nat
    BY <2>6, UptoStep, UptoNat DEF k
  <2>9. c[i].len \in Nat
    BY <2>6, PieceLength
  <2>10. h[i] = IF h[i - 1] >= c[i].len THEN h[i - 1] - c[i].len ELSE -1
    BY <2>4, <2>5
  <2> HIDE DEF Bad
  <2>11. QED
    BY <2>3, <2>7, <2>8, <2>9, <2>10
<1>6. Upto(c, k) \in Nat
  BY <1>0, UptoNat DEF k
<1>7. QED
  BY <1>4, <1>5, <1>6 DEF k

-----------------------------------------------------------------------------
(* http_process_host.                                                      *)

HostRuns(f, h, n) == f = [i \in 0..n |-> IF i = 0 THEN HostStart(h) ELSE HostStep(f[i - 1], i - 1, h[i])]

LEMMA HostRunsExist == ASSUME NEW h, NEW n \in Nat PROVE \E f : HostRuns(f, h, n)
<1> DEFINE Bad == {j \in Nat : ~\E f : HostRuns(f, h, j)}
<1>1. SUFFICES ASSUME Bad # {} PROVE FALSE
  OBVIOUS
<1>2. PICK j \in Bad : \A m \in Bad : j <= m
  BY <1>1, LeastNumber
<1>3. CASE j = 0
  <2> DEFINE g == [i \in 0..0 |-> HostStart(h)]
  <2>1. HostRuns(g, h, 0)
    BY DEF HostRuns
  <2>2. QED
    BY <1>3, <2>1
<1>4. CASE j # 0
  <2>1. j - 1 \in Nat /\ j - 1 \notin Bad
    BY <1>2, <1>4
  <2>2. PICK f : HostRuns(f, h, j - 1)
    BY <2>1
  <2> DEFINE g == [i \in 0..j |-> IF i = j THEN HostStep(f[j - 1], j - 1, h[j]) ELSE f[i]]
  <2>3. HostRuns(g, h, j)
    <3>1. ASSUME NEW i \in 0..j
          PROVE  g[i] = IF i = 0 THEN HostStart(h) ELSE HostStep(g[i - 1], i - 1, h[i])
      BY <1>4, <2>1, <2>2 DEF HostRuns
    <3>2. g = [i \in 0..j |-> g[i]]
      OBVIOUS
    <3> HIDE DEF g
    <3>3. QED
      BY <3>1, <3>2 DEF HostRuns
  <2>4. QED
    BY <2>3
<1>5. QED
  BY <1>3, <1>4

LEMMA HostLoopDef ==
  ASSUME NEW h, Len(h) \in Nat
  PROVE  \E f : HostRuns(f, h, Len(h)) /\ HostLoop(h) = f[Len(h)]
<1>1. \E f : f = [i \in 0..Len(h) |-> IF i = 0 THEN HostStart(h) ELSE HostStep(f[i - 1], i - 1, h[i])]
  BY HostRunsExist DEF HostRuns
<1>2. PICK g : g = (CHOOSE f : f = [i \in 0..Len(h) |-> IF i = 0 THEN HostStart(h) ELSE HostStep(f[i - 1], i - 1, h[i])])
  OBVIOUS
<1>3. g = [i \in 0..Len(h) |-> IF i = 0 THEN HostStart(h) ELSE HostStep(g[i - 1], i - 1, h[i])]
  BY <1>1, <1>2, Zenon
<1>4. HostLoop(h) = g[Len(h)]
  BY <1>2 DEF HostLoop
<1>5. QED
  BY <1>3, <1>4 DEF HostRuns

\* What the locals say of the first i characters.
HostLocals == [state : {"usual", "literal", "rest"}, dot : Nat, host_len : Nat, failed : BOOLEAN]

LastDot(h, v, i) ==
  \/ v.dot = Len(h) /\ \A k \in 1..i : h[k] # "."
  \/ v.dot \in 0..(i - 1) /\ h[v.dot + 1] = "." /\ \A k \in 1..i : h[k] = "." => k <= v.dot + 1

Refused(h, i) ==
  \/ \E k \in 1..i : h[k] \in {NUL, "/"}
  \/ \E k \in 1..i : h[k] = "." /\ k > 1 /\ h[k - 1] = "."

NameFound(h, v, i) ==
  /\ v.state = "usual" => v.host_len = Len(h) /\ (i > 0 => h[1] # "[") /\ \A k \in 1..i : h[k] # ":"
  /\ v.state = "literal" => v.host_len = Len(h) /\ i > 0 /\ h[1] = "[" /\ \A k \in 1..i : h[k] # "]"
  /\ v.state = "rest" =>
       \/ /\ h[1] # "[" /\ v.host_len \in 0..(i - 1) /\ h[v.host_len + 1] = ":"
          /\ \A k \in 1..v.host_len : h[k] # ":"
       \/ /\ i > 0 /\ h[1] = "[" /\ v.host_len \in 1..i /\ h[v.host_len] = "]"
          /\ \A k \in 1..(v.host_len - 1) : h[k] # "]"

HostInv(h, v, i) == v \in HostLocals /\ LastDot(h, v, i) /\ (v.failed <=> Refused(h, i)) /\ NameFound(h, v, i)

LEMMA HostInvStart == ASSUME NEW h, Len(h) \in Nat PROVE HostInv(h, HostStart(h), 0)
<1>1. ~Refused(h, 0)
  BY DEF Refused
<1>2. QED
  BY <1>1 DEF HostInv, HostStart, HostLocals, LastDot, NameFound

LEMMA RefusedStep ==
  ASSUME NEW h, NEW i \in Nat \ {0}
  PROVE  Refused(h, i) <=> Refused(h, i - 1) \/ h[i] \in {NUL, "/"} \/ (h[i] = "." /\ i > 1 /\ h[i - 1] = ".")
<1>1. \A k : k \in 1..i <=> k \in 1..(i - 1) \/ k = i
  OBVIOUS
<1>2. QED
  BY <1>1 DEF Refused

\* The round on a character that is no dot leaves dot alone.
LEMMA LastDotKept ==
  ASSUME NEW h, NEW v \in HostLocals, NEW w \in HostLocals, NEW i \in 1..Len(h), Len(h) \in Nat,
         LastDot(h, v, i - 1), w.dot = v.dot, h[i] # "."
  PROVE  LastDot(h, w, i)
<1>1. \A k : k \in 1..i <=> k \in 1..(i - 1) \/ k = i
  OBVIOUS
<1>2. v.dot \in 0..(i - 2) => v.dot \in 0..(i - 1)
  OBVIOUS
<1>3. QED
  BY <1>1, <1>2 DEF LastDot

LEMMA HostInvStep ==
  ASSUME NEW h, Len(h) \in Nat, NEW i \in 1..Len(h), NEW v, HostInv(h, v, i - 1)
  PROVE  HostInv(h, HostStep(v, i - 1, h[i]), i)
<1> DEFINE c == h[i]  w == HostStep(v, i - 1, c)
<1> SUFFICES HostInv(h, w, i)
  OBVIOUS
<1>0. v \in HostLocals /\ i \in Nat \ {0}
  BY DEF HostInv
<1>1. \A k : k \in 1..i <=> k \in 1..(i - 1) \/ k = i
  OBVIOUS
<1>2. CASE c = "."
  <2>1. w = [v EXCEPT !.dot = i - 1, !.failed = @ \/ v.dot = (i - 1) - 1]
    BY <1>2 DEF HostStep, NUL
  <2> HIDE DEF w
  <2>2. w \in HostLocals /\ w.dot = i - 1 /\ w.host_len = v.host_len /\ w.state = v.state
    <3>1. i - 1 \in Nat
      OBVIOUS
    <3>2. (v.failed \/ v.dot = (i - 1) - 1) \in BOOLEAN
      OBVIOUS
    <3>3. QED
      BY <1>0, <2>1, <3>1, <3>2, Zenon DEF HostLocals
  <2>3. w.failed <=> v.failed \/ v.dot = i - 2
    <3>1. (i - 1) - 1 = i - 2
      OBVIOUS
    <3>2. w.failed = (v.failed \/ v.dot = (i - 1) - 1)
      BY <1>0, <2>1, Zenon DEF HostLocals
    <3>3. QED
      BY <3>1, <3>2
  <2>4. LastDot(h, w, i)
    BY <1>2, <2>2 DEF LastDot
  <2>5. v.dot = i - 2 <=> i > 1 /\ h[i - 1] = "."
    BY <1>0 DEF LastDot, HostInv, HostLocals
  <2>6. w.failed <=> Refused(h, i)
    BY <1>0, <1>2, <2>3, <2>5, RefusedStep DEF HostInv, NUL
  <2>7. NameFound(h, w, i)
    BY <1>1, <1>2, <2>2 DEF HostInv, NameFound
  <2>8. QED
    BY <2>2, <2>4, <2>6, <2>7 DEF HostInv
<1>3. CASE c = ":" /\ v.state = "usual"
  <2>1. w = [v EXCEPT !.host_len = i - 1, !.state = "rest"]
    BY <1>3 DEF HostStep, NUL
  <2> HIDE DEF w
  <2>2. w \in HostLocals /\ w.dot = v.dot /\ w.host_len = i - 1 /\ w.state = "rest" /\ w.failed = v.failed
    <3>1. i - 1 \in Nat /\ i \in Nat /\ (i - 1) + 1 = i
      OBVIOUS
    <3>2. QED
      BY <1>0, <2>1, <3>1, Zenon DEF HostLocals
  <2>3. NameFound(h, w, i)
    BY <1>3, <2>2 DEF HostInv, NameFound
  <2>4. w.failed <=> Refused(h, i)
    BY <1>0, <1>3, <2>2, RefusedStep DEF HostInv, NUL
  <2>5. LastDot(h, w, i)
    BY <1>0, <1>3, <2>2, LastDotKept DEF HostInv
  <2>6. QED
    BY <2>2, <2>3, <2>4, <2>5 DEF HostInv
<1>4. CASE c = "[" /\ i = 1
  <2>1. w = [v EXCEPT !.state = "literal"]
    BY <1>4 DEF HostStep, NUL
  <2> HIDE DEF w
  <2>2. w \in HostLocals /\ w.dot = v.dot /\ w.host_len = v.host_len /\ w.state = "literal" /\ w.failed = v.failed
    BY <1>0, <2>1 DEF HostLocals
  <2>3. v.state = "usual"
    BY <1>0, <1>4 DEF HostInv, NameFound, HostLocals
  <2>4. NameFound(h, w, i)
    BY <1>4, <2>2, <2>3 DEF HostInv, NameFound
  <2>5. w.failed <=> Refused(h, i)
    BY <1>0, <1>4, <2>2, RefusedStep DEF HostInv, NUL
  <2>6. LastDot(h, w, i)
    BY <1>0, <1>4, <2>2, LastDotKept DEF HostInv
  <2>7. QED
    BY <2>2, <2>4, <2>5, <2>6 DEF HostInv
<1>5. CASE c = "]" /\ v.state = "literal"
  <2>1. w = [v EXCEPT !.host_len = (i - 1) + 1, !.state = "rest"]
    BY <1>5 DEF HostStep, NUL
  <2> HIDE DEF w
  <2>2. w \in HostLocals /\ w.dot = v.dot /\ w.host_len = i /\ w.state = "rest" /\ w.failed = v.failed
    <3>1. i - 1 \in Nat /\ i \in Nat /\ (i - 1) + 1 = i
      OBVIOUS
    <3>2. QED
      BY <1>0, <2>1, <3>1, Zenon DEF HostLocals
  <2>3. NameFound(h, w, i)
    BY <1>5, <2>2 DEF HostInv, NameFound
  <2>4. w.failed <=> Refused(h, i)
    BY <1>0, <1>5, <2>2, RefusedStep DEF HostInv, NUL
  <2>5. LastDot(h, w, i)
    BY <1>0, <1>5, <2>2, LastDotKept DEF HostInv
  <2>6. QED
    BY <2>2, <2>3, <2>4, <2>5 DEF HostInv
<1>6. CASE /\ c # "." /\ ~(c = ":" /\ v.state = "usual") /\ ~(c = "[" /\ i = 1)
           /\ ~(c = "]" /\ v.state = "literal")
  <2>1. w = IF c \in {NUL, "/"} THEN [v EXCEPT !.failed = TRUE] ELSE v
    BY <1>6 DEF HostStep, NUL
  <2> HIDE DEF w
  <2>2. w \in HostLocals /\ w.dot = v.dot /\ w.host_len = v.host_len /\ w.state = v.state
    BY <1>0, <2>1 DEF HostLocals
  <2>3. w.failed <=> v.failed \/ c \in {NUL, "/"}
    BY <1>0, <2>1 DEF HostLocals
  <2>4. NameFound(h, w, i)
    BY <1>0, <1>1, <1>6, <2>2 DEF HostInv, NameFound
  <2>5. w.failed <=> Refused(h, i)
    BY <1>0, <1>6, <2>3, RefusedStep DEF HostInv
  <2>6. LastDot(h, w, i)
    BY <1>0, <1>6, <2>2, LastDotKept DEF HostInv
  <2>7. QED
    BY <2>2, <2>4, <2>5, <2>6 DEF HostInv
<1>7. QED
  BY <1>2, <1>3, <1>4, <1>5, <1>6

LEMMA HostLoopInv == ASSUME NEW h, Len(h) \in Nat PROVE HostInv(h, HostLoop(h), Len(h))
<1>1. PICK f : HostRuns(f, h, Len(h)) /\ HostLoop(h) = f[Len(h)]
  BY HostLoopDef
<1> DEFINE Bad == {i \in 0..Len(h) : ~HostInv(h, f[i], i)}
<1>2. SUFFICES ASSUME Bad # {} PROVE FALSE
  BY <1>1
<1>3. PICK i \in Bad : \A m \in Bad : i <= m
  <2>1. Bad \subseteq Nat
    OBVIOUS
  <2> HIDE DEF Bad
  <2>2. QED
    BY <1>2, <2>1, LeastNumber
<1>4. i \in 0..Len(h) /\ ~HostInv(h, f[i], i)
  OBVIOUS
<1>5. f[i] = IF i = 0 THEN HostStart(h) ELSE HostStep(f[i - 1], i - 1, h[i])
  BY <1>1, <1>4 DEF HostRuns
<1>6. i # 0
  BY <1>4, <1>5, HostInvStart
<1>7. i - 1 \in 0..Len(h) /\ i - 1 \notin Bad /\ i \in 1..Len(h)
  BY <1>3, <1>4, <1>6
<1>8. HostInv(h, f[i - 1], i - 1)
  BY <1>7
<1>9. QED
  BY <1>4, <1>5, <1>6, <1>7, <1>8, HostInvStep

\* First finds the least of a set of positions.
LEMMA FirstLeast ==
  ASSUME NEW S, S \subseteq Nat, NEW x \in S, \A y \in S : x <= y, NEW d
  PROVE  First(S, d) = x
<1>1. \E k \in S : \A j \in S : k <= j
  OBVIOUS
<1>2. PICK k : k = CHOOSE m \in S : \A j \in S : m <= j
  OBVIOUS
<1>3. k \in S /\ \A j \in S : k <= j
  BY <1>1, <1>2
<1>4. k = x
  BY <1>3
<1>5. QED
  BY <1>2, <1>4 DEF First

\* The loop ends with the length of the name.
LEMMA HostNameLength ==
  ASSUME NEW h, h = <<>> <=> Len(h) = 0, Len(h) \in Nat
  PROVE  HostLoop(h).host_len = NameLength(h) /\ NameLength(h) \in 0..Len(h)
<1> DEFINE v == HostLoop(h)  n == v.host_len
<1>1. v \in HostLocals /\ NameFound(h, v, Len(h))
  BY HostLoopInv DEF HostInv
<1> HIDE DEF v
<1>2. n \in Nat /\ v.state \in {"usual", "literal", "rest"}
  BY <1>1 DEF HostLocals
<1> HIDE DEF n
<1>3. CASE v.state = "usual"
  <2>1. At(h, ":") = {} /\ n = Len(h) /\ ~(h # <<>> /\ h[1] = "[")
    BY <1>1, <1>3 DEF NameFound, At, n
  <2>2. NameLength(h) = Len(h)
    BY <2>1 DEF NameLength, First
  <2>3. QED
    BY <2>1, <2>2 DEF n, v
<1>4. CASE v.state = "literal"
  <2>1. At(h, "]") = {} /\ n = Len(h) /\ h # <<>> /\ h[1] = "["
    BY <1>1, <1>4 DEF NameFound, At, n
  <2>2. NameLength(h) = Len(h)
    BY <2>1 DEF NameLength, First
  <2>3. QED
    BY <2>1, <2>2 DEF n, v
<1>5. CASE v.state = "rest" /\ h[1] # "["
  <2>1. n \in 0..(Len(h) - 1) /\ h[n + 1] = ":" /\ \A k \in 1..n : h[k] # ":"
    BY <1>1, <1>5 DEF NameFound, n
  <2>2. n + 1 \in At(h, ":") /\ \A k \in At(h, ":") : n + 1 <= k
    BY <2>1, <1>2 DEF At
  <2>3. At(h, ":") \subseteq Nat
    BY DEF At
  <2>4. First(At(h, ":"), Len(h) + 1) = n + 1
    BY <2>2, <2>3, FirstLeast
  <2>5. NameLength(h) = (n + 1) - 1
    BY <1>5, <2>4 DEF NameLength
  <2>6. NameLength(h) = n /\ n \in 0..Len(h)
    BY <1>2, <2>1, <2>5
  <2>7. QED
    BY <2>6 DEF n, v
<1>6. CASE v.state = "rest" /\ h[1] = "["
  <2>1. n \in 1..Len(h) /\ h[n] = "]" /\ \A k \in 1..(n - 1) : h[k] # "]"
    BY <1>1, <1>6 DEF NameFound, n
  <2>2. n \in At(h, "]") /\ \A k \in At(h, "]") : n <= k
    BY <2>1, <1>2 DEF At
  <2>3. At(h, "]") \subseteq Nat
    BY DEF At
  <2>4. First(At(h, "]"), Len(h)) = n
    BY <2>2, <2>3, FirstLeast
  <2>5. NameLength(h) = n /\ n \in 0..Len(h)
    BY <1>6, <2>1, <2>4 DEF NameLength
  <2>6. QED
    BY <2>5 DEF n, v
<1>7. QED
  BY <1>2, <1>3, <1>4, <1>5, <1>6

\* What http_process_host computes, for every value whatever its length: the
\* name before the port and its final dot, or the whole value where it names
\* no host.  Only a dot in the port can hide the final dot.
THEOREM HostFound == \A h \in Seq(Char) : HostIn(h, http_process_host(h).length)
<1> SUFFICES ASSUME NEW h \in Seq(Char), ~PortDot(h)
             PROVE  http_process_host(h).length = IF NoHost(h) THEN Len(h) ELSE HostLength(h)
  BY DEF HostIn
<1> DEFINE v == HostLoop(h)  N == NameLength(h)  L == IF FinalDot(v) THEN v.host_len - 1 ELSE v.host_len
<1>1. Len(h) \in Nat /\ (h = <<>> <=> Len(h) = 0)
  OBVIOUS
<1>2. v \in HostLocals /\ LastDot(h, v, Len(h)) /\ (v.failed <=> Refused(h, Len(h)))
  BY <1>1, HostLoopInv DEF HostInv
<1>3. v.host_len = N /\ N \in 0..Len(h)
  BY <1>1, HostNameLength
<1>4. v.failed <=> At(h, NUL) \cup At(h, "/") # {} \/ \E k \in At(h, ".") : k + 1 \in At(h, ".")
  BY <1>1, <1>2 DEF At, Refused
<1>5. \A k \in 1..Len(h) : h[k] = "." => k <= N
  BY <1>1, <1>3 DEF PortDot, At
<1>6. FinalDot(v) <=> N > 0 /\ h[N] = "."
  BY <1>1, <1>2, <1>3, <1>5 DEF FinalDot, LastDot, HostLocals
<1>7. L = HostLength(h)
  BY <1>3, <1>6 DEF HostLength
<1>8. HostLength(h) \in Nat
  BY <1>1, <1>3 DEF HostLength
<1>9. http_process_host(h).length = IF ~v.failed /\ L > 0 THEN L ELSE Len(h)
  BY DEF http_process_host
<1> HIDE DEF L, v, N
<1>10. QED
  BY <1>4, <1>7, <1>8, <1>9 DEF NoHost

\* The length http_process_host leaves is that of a part of the value.
LEMMA HostWithin ==
  ASSUME NEW h, Len(h) \in Nat, h = <<>> <=> Len(h) = 0
  PROVE  http_process_host(h).length \in 0..Len(h)
<1> DEFINE v == HostLoop(h)  L == IF FinalDot(v) THEN v.host_len - 1 ELSE v.host_len
<1>1. v.host_len \in 0..Len(h)
  BY HostNameLength
<1>2. L \in Int /\ L <= Len(h)
  BY <1>1
<1>3. http_process_host(h).length = IF ~v.failed /\ L > 0 THEN L ELSE Len(h)
  BY DEF http_process_host
<1> HIDE DEF L, v
<1>4. QED
  BY <1>2, <1>3

-----------------------------------------------------------------------------
(* Types.                                                                  *)

RequestT ==
  [state : State, request_start : Int, request_end : Int, method_end : Int,
   get : BOOLEAN, schema_end : Int, uri_start : Int, uri_end : Int, uri : Int,
   complex_uri : BOOLEAN, http_protocol : Int, http_major : Int, http_minor : Int,
   header_name_start : Int, header_name_end : Int, header_start : Int, header_end : Int,
   invalid_header : BOOLEAN, lowcase_index : Int, upstream : BOOLEAN,
   count : Int, status_end : Int]

LEMMA FieldsType == ASSUME NEW d \in BOOLEAN, "start" \in State PROVE Fields(d) \in RequestT
  BY DEF Fields, RequestT, WILD, NULL

\* What a character of the status line does to the request_t, field by field.
LEMMA StatusLineCharFields ==
  ASSUME r \in RequestT, NEW to
  PROVE  LET w == StatusLineChar(to) IN
         /\ w.state = to
         /\ w.request_start = (IF r.state = "start" THEN p ELSE r.request_start)
         /\ w.count = (IF r.state = "status" /\ ch \in Digit THEN r.count + 1 ELSE r.count)
         /\ w.status_end = (IF r.state = "almost_done" THEN p - 1 ELSE r.status_end)
         /\ w.request_end = r.request_end /\ w.method_end = r.method_end /\ w.get = r.get
         /\ w.schema_end = r.schema_end /\ w.uri_start = r.uri_start /\ w.uri_end = r.uri_end /\ w.uri = r.uri
         /\ w.complex_uri = r.complex_uri /\ w.http_protocol = r.http_protocol /\ w.http_major = r.http_major
         /\ w.http_minor = r.http_minor /\ w.header_name_start = r.header_name_start
         /\ w.header_name_end = r.header_name_end /\ w.header_start = r.header_start /\ w.header_end = r.header_end
         /\ w.invalid_header = r.invalid_header /\ w.lowcase_index = r.lowcase_index /\ w.upstream = r.upstream
<1> DEFINE
    rs == IF r.state = "start" THEN p ELSE r.request_start
    cnt == IF r.state = "status" /\ ch \in Digit THEN r.count + 1 ELSE r.count
    ste == IF r.state = "almost_done" THEN p - 1 ELSE r.status_end
<1>1. StatusLineChar(to) = [r EXCEPT !.state = to, !.request_start = rs, !.count = cnt, !.status_end = ste]
  BY DEF StatusLineChar
<1> HIDE DEF rs, cnt, ste
<1>2. LET w == StatusLineChar(to) IN
      /\ w.state = to /\ w.request_start = rs /\ w.count = cnt /\ w.status_end = ste
      /\ w.request_end = r.request_end /\ w.method_end = r.method_end /\ w.get = r.get
      /\ w.schema_end = r.schema_end /\ w.uri_start = r.uri_start /\ w.uri_end = r.uri_end /\ w.uri = r.uri
      /\ w.complex_uri = r.complex_uri /\ w.http_protocol = r.http_protocol /\ w.http_major = r.http_major
      /\ w.http_minor = r.http_minor /\ w.header_name_start = r.header_name_start
      /\ w.header_name_end = r.header_name_end /\ w.header_start = r.header_start /\ w.header_end = r.header_end
      /\ w.invalid_header = r.invalid_header /\ w.lowcase_index = r.lowcase_index /\ w.upstream = r.upstream
  BY <1>1 DEF RequestT
<1>3. QED
  BY <1>2 DEF rs, cnt, ste

LEMMA StatusLineCharType ==
  ASSUME r \in RequestT, p \in Int, NEW to \in State
  PROVE  StatusLineChar(to) \in RequestT
<1> DEFINE
    rs == IF r.state = "start" THEN p ELSE r.request_start
    cnt == IF r.state = "status" /\ ch \in Digit THEN r.count + 1 ELSE r.count
    ste == IF r.state = "almost_done" THEN p - 1 ELSE r.status_end
<1>1. StatusLineChar(to) = [r EXCEPT !.state = to, !.request_start = rs, !.count = cnt, !.status_end = ste]
  BY DEF StatusLineChar
<1>2. rs \in Int /\ cnt \in Int /\ ste \in Int
  BY DEF RequestT, Value
<1> HIDE DEF rs, cnt, ste
<1>3. [r EXCEPT !.state = to, !.request_start = rs, !.count = cnt, !.status_end = ste] \in RequestT
  BY <1>2 DEF RequestT
<1>4. QED
  BY <1>1, <1>3

\* The same for a character of a header line.
LEMMA HeaderLineCharFields ==
  ASSUME r \in RequestT, NEW to
  PROVE  LET w == HeaderLineChar(to) IN
         /\ w.state = to
         /\ w.header_name_start = (IF r.state = "start" THEN p ELSE r.header_name_start)
         /\ w.header_name_end = (IF r.state = "name" /\ ch \in {":", CR, LF} THEN p ELSE r.header_name_end)
         /\ w.header_start = (IF ValueStarts THEN p ELSE r.header_start)
         /\ w.header_end = (IF ValueEnds THEN p ELSE r.header_end)
         /\ w.invalid_header = (CASE r.state = "start" -> ch \notin NameChar \cup {CR, LF}
                             [] r.state = "name"  -> r.invalid_header \/ (ch \notin NameChar \cup {":", CR, LF} /\ to = "name")
                             [] OTHER             -> r.invalid_header)
         /\ w.lowcase_index = (IF r.state \in {"start", "name"} /\ ch \in NameChar THEN 1 ELSE r.lowcase_index)
         /\ w.request_start = r.request_start /\ w.request_end = r.request_end /\ w.method_end = r.method_end
         /\ w.get = r.get /\ w.schema_end = r.schema_end /\ w.uri_start = r.uri_start /\ w.uri_end = r.uri_end
         /\ w.uri = r.uri /\ w.complex_uri = r.complex_uri /\ w.http_protocol = r.http_protocol
         /\ w.http_major = r.http_major /\ w.http_minor = r.http_minor /\ w.upstream = r.upstream
         /\ w.count = r.count /\ w.status_end = r.status_end
<1> DEFINE
    ns == IF r.state = "start" THEN p ELSE r.header_name_start
    ne == IF r.state = "name" /\ ch \in {":", CR, LF} THEN p ELSE r.header_name_end
    vs == IF ValueStarts THEN p ELSE r.header_start
    ve == IF ValueEnds THEN p ELSE r.header_end
    inv == CASE r.state = "start" -> ch \notin NameChar \cup {CR, LF}
               [] r.state = "name"  -> r.invalid_header \/ (ch \notin NameChar \cup {":", CR, LF} /\ to = "name")
               [] OTHER             -> r.invalid_header
    low == IF r.state \in {"start", "name"} /\ ch \in NameChar THEN 1 ELSE r.lowcase_index
<1>1. HeaderLineChar(to) = [r EXCEPT !.state = to, !.header_name_start = ns, !.header_name_end = ne, !.header_start = vs, !.header_end =
        ve, !.invalid_header = inv, !.lowcase_index = low]
  BY DEF HeaderLineChar
<1> HIDE DEF ns, ne, vs, ve, inv, low
<1>2. LET w == HeaderLineChar(to) IN
      /\ w.state = to /\ w.header_name_start = ns /\ w.header_name_end = ne /\ w.header_start = vs /\ w.header_end = ve
      /\ w.invalid_header = inv /\ w.lowcase_index = low
      /\ w.request_start = r.request_start /\ w.request_end = r.request_end /\ w.method_end = r.method_end
      /\ w.get = r.get /\ w.schema_end = r.schema_end /\ w.uri_start = r.uri_start /\ w.uri_end = r.uri_end
      /\ w.uri = r.uri /\ w.complex_uri = r.complex_uri /\ w.http_protocol = r.http_protocol
      /\ w.http_major = r.http_major /\ w.http_minor = r.http_minor /\ w.upstream = r.upstream /\ w.count = r.count
      /\ w.status_end = r.status_end
  BY <1>1 DEF RequestT
<1>3. QED
  BY <1>2 DEF ns, ne, vs, ve, inv, low

LEMMA HeaderLineCharType ==
  ASSUME r \in RequestT, p \in Int, NEW to \in State
  PROVE  HeaderLineChar(to) \in RequestT
<1> DEFINE
    ns == IF r.state = "start" THEN p ELSE r.header_name_start
    ne == IF r.state = "name" /\ ch \in {":", CR, LF} THEN p ELSE r.header_name_end
    vs == IF ValueStarts THEN p ELSE r.header_start
    ve == IF ValueEnds THEN p ELSE r.header_end
    inv == CASE r.state = "start" -> ch \notin NameChar \cup {CR, LF}
               [] r.state = "name"  -> r.invalid_header \/ (ch \notin NameChar \cup {":", CR, LF} /\ to = "name")
               [] OTHER             -> r.invalid_header
    low == IF r.state \in {"start", "name"} /\ ch \in NameChar THEN 1 ELSE r.lowcase_index
<1>1. HeaderLineChar(to) = [r EXCEPT !.state = to, !.header_name_start = ns, !.header_name_end = ne, !.header_start = vs, !.header_end =
        ve, !.invalid_header = inv, !.lowcase_index = low]
  BY DEF HeaderLineChar
<1>2. ns \in Int /\ ne \in Int /\ vs \in Int /\ ve \in Int /\ low \in Int
  BY DEF RequestT, Value
<1>3. inv \in BOOLEAN
  BY DEF RequestT
<1> HIDE DEF ns, ne, vs, ve, inv, low
<1>4. [r EXCEPT !.state = to, !.header_name_start = ns, !.header_name_end = ne, !.header_start = vs, !.header_end =
        ve, !.invalid_header = inv, !.lowcase_index = low] \in RequestT
  BY <1>2, <1>3 DEF RequestT
<1>5. QED
  BY <1>1, <1>4

\* The same for a character of the request line.
LEMMA RequestLineCharFields ==
  ASSUME r \in RequestT, NEW to
  PROVE  LET w == RequestLineChar(to) IN
         /\ w.state = to
         /\ w.request_start = (IF r.state = "start" THEN p ELSE r.request_start)
         /\ w.method_end = (IF r.state \in {"method"} /\ ch \in {SP} THEN p - 1 ELSE r.method_end)
         /\ w.get = (IF r.state \in {"method"} /\ ch \in {SP} /\ p = r.request_start + 1 /\ text[p - 1] \in {"G", "M"}
                             THEN text[p - 1] = "G" ELSE r.get)
         /\ w.schema_end = (IF r.state \in {"schema"} /\ ch \in {":"} THEN p ELSE r.schema_end)
         /\ w.uri_start = (IF r.state \in {"spaces_before_uri"} \cup InHost /\ ch \in {"/"} THEN p
                             ELSE IF r.state \in InHost /\ ch \in {SP} THEN r.schema_end + 1 ELSE r.uri_start)
         /\ w.uri_end = (IF r.state \in InUri /\ ch \in {SP, CR, LF} THEN p
                             ELSE IF r.state \in InHost /\ ch \in {SP} THEN r.schema_end + 2 ELSE r.uri_end)
         /\ w.complex_uri = (r.complex_uri \/ (r.state \in InUri /\ ch \in {"#"})
                             \/ (r.state \in {"after_slash_in_uri", "check_uri"} /\ ch \in {"%"})
                             \/ (r.state \in {"after_slash_in_uri"} /\ ch \in {".", "/"}))
         /\ w.http_protocol = (IF r.state \in AfterUri /\ ch \in {"H"} THEN p ELSE r.http_protocol)
         /\ w.http_major = (IF r.state = "first_major_digit" THEN Value(ch)
                             ELSE IF r.state \in {"major_digit"} /\ ch \in Digit THEN r.http_major * 10 + Value(ch) ELSE r.http_major)
         /\ w.http_minor = (IF r.state \in InUri \cup AfterUri /\ ch \in {CR, LF} THEN 9
                             ELSE IF r.state = "first_minor_digit" THEN Value(ch)
                             ELSE IF r.state \in {"minor_digit"} /\ ch \in Digit THEN r.http_minor * 10 + Value(ch) ELSE r.http_minor)
         /\ w.request_end = (IF r.state = "almost_done" THEN p - 1 ELSE r.request_end)
         /\ w.uri = r.uri /\ w.header_name_start = r.header_name_start /\ w.header_name_end = r.header_name_end
         /\ w.header_start = r.header_start /\ w.header_end = r.header_end /\ w.invalid_header = r.invalid_header
         /\ w.lowcase_index = r.lowcase_index /\ w.upstream = r.upstream /\ w.count = r.count
         /\ w.status_end = r.status_end
<1> DEFINE
    rs == IF r.state = "start" THEN p ELSE r.request_start
    me == IF r.state \in {"method"} /\ ch \in {SP} THEN p - 1 ELSE r.method_end
    gt == IF r.state \in {"method"} /\ ch \in {SP} /\ p = r.request_start + 1 /\ text[p - 1] \in {"G", "M"}
               THEN text[p - 1] = "G" ELSE r.get
    se == IF r.state \in {"schema"} /\ ch \in {":"} THEN p ELSE r.schema_end
    us == IF r.state \in {"spaces_before_uri"} \cup InHost /\ ch \in {"/"} THEN p
               ELSE IF r.state \in InHost /\ ch \in {SP} THEN r.schema_end + 1 ELSE r.uri_start
    ue == IF r.state \in InUri /\ ch \in {SP, CR, LF} THEN p
               ELSE IF r.state \in InHost /\ ch \in {SP} THEN r.schema_end + 2 ELSE r.uri_end
    cu == r.complex_uri \/ (r.state \in InUri /\ ch \in {"#"})
               \/ (r.state \in {"after_slash_in_uri", "check_uri"} /\ ch \in {"%"})
               \/ (r.state \in {"after_slash_in_uri"} /\ ch \in {".", "/"})
    hp == IF r.state \in AfterUri /\ ch \in {"H"} THEN p ELSE r.http_protocol
    ma == IF r.state = "first_major_digit" THEN Value(ch)
               ELSE IF r.state \in {"major_digit"} /\ ch \in Digit THEN r.http_major * 10 + Value(ch) ELSE r.http_major
    mi == IF r.state \in InUri \cup AfterUri /\ ch \in {CR, LF} THEN 9
               ELSE IF r.state = "first_minor_digit" THEN Value(ch)
               ELSE IF r.state \in {"minor_digit"} /\ ch \in Digit THEN r.http_minor * 10 + Value(ch) ELSE r.http_minor
    re == IF r.state = "almost_done" THEN p - 1 ELSE r.request_end
<1>1. RequestLineChar(to) = [r EXCEPT !.state = to, !.request_start = rs, !.method_end = me, !.get = gt, !.schema_end = se, !.uri_start =
        us, !.uri_end = ue, !.complex_uri = cu, !.http_protocol = hp, !.http_major = ma,
        !.http_minor = mi, !.request_end = re]
  BY DEF RequestLineChar
<1> HIDE DEF rs, me, gt, se, us, ue, cu, hp, ma, mi, re
<1>2. LET w == RequestLineChar(to) IN
      /\ w.state = to /\ w.request_start = rs /\ w.method_end = me /\ w.get = gt /\ w.schema_end = se
      /\ w.uri_start = us /\ w.uri_end = ue /\ w.complex_uri = cu /\ w.http_protocol = hp /\ w.http_major = ma /\ w.http_minor = mi /\ w.request_end = re
      /\ w.uri = r.uri /\ w.header_name_start = r.header_name_start /\ w.header_name_end = r.header_name_end
      /\ w.header_start = r.header_start /\ w.header_end = r.header_end /\ w.invalid_header = r.invalid_header
      /\ w.lowcase_index = r.lowcase_index /\ w.upstream = r.upstream /\ w.count = r.count
      /\ w.status_end = r.status_end
  BY <1>1 DEF RequestT
<1>3. QED
  BY <1>2 DEF rs, me, gt, se, us, ue, cu, hp, ma, mi, re

LEMMA RequestLineCharType ==
  ASSUME r \in RequestT, p \in Int, NEW to \in State
  PROVE  RequestLineChar(to) \in RequestT
<1> DEFINE
    rs == IF r.state = "start" THEN p ELSE r.request_start
    me == IF r.state \in {"method"} /\ ch \in {SP} THEN p - 1 ELSE r.method_end
    gt == IF r.state \in {"method"} /\ ch \in {SP} /\ p = r.request_start + 1 /\ text[p - 1] \in {"G", "M"}
               THEN text[p - 1] = "G" ELSE r.get
    se == IF r.state \in {"schema"} /\ ch \in {":"} THEN p ELSE r.schema_end
    us == IF r.state \in {"spaces_before_uri"} \cup InHost /\ ch \in {"/"} THEN p
               ELSE IF r.state \in InHost /\ ch \in {SP} THEN r.schema_end + 1 ELSE r.uri_start
    ue == IF r.state \in InUri /\ ch \in {SP, CR, LF} THEN p
               ELSE IF r.state \in InHost /\ ch \in {SP} THEN r.schema_end + 2 ELSE r.uri_end
    cu == r.complex_uri \/ (r.state \in InUri /\ ch \in {"#"})
               \/ (r.state \in {"after_slash_in_uri", "check_uri"} /\ ch \in {"%"})
               \/ (r.state \in {"after_slash_in_uri"} /\ ch \in {".", "/"})
    hp == IF r.state \in AfterUri /\ ch \in {"H"} THEN p ELSE r.http_protocol
    ma == IF r.state = "first_major_digit" THEN Value(ch)
               ELSE IF r.state \in {"major_digit"} /\ ch \in Digit THEN r.http_major * 10 + Value(ch) ELSE r.http_major
    mi == IF r.state \in InUri \cup AfterUri /\ ch \in {CR, LF} THEN 9
               ELSE IF r.state = "first_minor_digit" THEN Value(ch)
               ELSE IF r.state \in {"minor_digit"} /\ ch \in Digit THEN r.http_minor * 10 + Value(ch) ELSE r.http_minor
    re == IF r.state = "almost_done" THEN p - 1 ELSE r.request_end
<1>1. RequestLineChar(to) = [r EXCEPT !.state = to, !.request_start = rs, !.method_end = me, !.get = gt, !.schema_end = se, !.uri_start =
        us, !.uri_end = ue, !.complex_uri = cu, !.http_protocol = hp, !.http_major = ma,
        !.http_minor = mi, !.request_end = re]
  BY DEF RequestLineChar
<1>2. rs \in Int /\ me \in Int /\ se \in Int /\ us \in Int /\ ue \in Int /\ hp \in Int /\ ma \in Int /\ mi \in Int /\ re \in Int
  <2>1. rs \in Int
    BY DEF RequestT
  <2>2. me \in Int
    <3>1. p - 1 \in Int
      BY DEF RequestT
    <3>2. r.method_end \in Int
      BY DEF RequestT
    <3>3. QED
      BY <3>1, <3>2, Zenon
  <2>3. se \in Int
    BY DEF RequestT
  <2>4. us \in Int
    <3>1. r.schema_end + 1 \in Int
      BY DEF RequestT
    <3>2. r.uri_start \in Int
      BY DEF RequestT
    <3>3. QED
      BY <3>1, <3>2, Zenon
  <2>5. ue \in Int
    <3>1. r.schema_end + 2 \in Int
      BY DEF RequestT
    <3>2. r.uri_end \in Int
      BY DEF RequestT
    <3>3. QED
      BY <3>1, <3>2, Zenon
  <2>6. hp \in Int
    BY DEF RequestT
  <2>7. re \in Int
    BY DEF RequestT
  <2>8. ma \in Int
    BY DEF RequestT, Value
  <2>9. mi \in Int
    BY DEF RequestT, Value
  <2> HIDE DEF rs, me, se, us, ue, hp, ma, mi, re
  <2>10. QED
    BY <2>1, <2>2, <2>3, <2>4, <2>5, <2>6, <2>7, <2>8, <2>9
<1>3. gt \in BOOLEAN /\ cu \in BOOLEAN
  BY DEF RequestT
<1> HIDE DEF rs, me, gt, se, us, ue, cu, hp, ma, mi, re
<1>4. [r EXCEPT !.state = to, !.request_start = rs, !.method_end = me, !.get = gt, !.schema_end = se, !.uri_start =
        us, !.uri_end = ue, !.complex_uri = cu, !.http_protocol = hp, !.http_major = ma,
        !.http_minor = mi, !.request_end = re] \in RequestT
  BY <1>2, <1>3 DEF RequestT
<1>5. QED
  BY <1>1, <1>4

-----------------------------------------------------------------------------
(* The tables of the parsers.                                              *)

\* The move from a state is an edge of the table, or an error.
LEMMA MachineMove ==
  ASSUME NEW E, \A e \in E : e = <<e[1], e[2], e[3]>>, NEW s \in State, NEW c \in Char,
         Machine(E)[s][c] # "invalid"
  PROVE  <<s, c, Machine(E)[s][c]>> \in E
<1>1. Machine(E)[s][c] = IF \E e \in E : e[1] = s /\ e[2] = c
                         THEN (CHOOSE e \in E : e[1] = s /\ e[2] = c)[3] ELSE "invalid"
  BY DEF Machine
<1>2. \E e \in E : e[1] = s /\ e[2] = c
  BY <1>1
<1>3. PICK e : e = CHOOSE x \in E : x[1] = s /\ x[2] = c
  OBVIOUS
<1>4. e \in E /\ e[1] = s /\ e[2] = c
  BY <1>2, <1>3
<1>5. Machine(E)[s][c] = e[3]
  BY <1>1, <1>2, <1>3
<1>6. QED
  BY <1>4, <1>5

LEMMA OnTriples == ASSUME NEW S, NEW C, NEW t, NEW e \in On(S, C, t) PROVE e = <<e[1], e[2], e[3]>>
  BY DEF On

LEMMA HeaderTriples == \A e \in HeaderLine : e = <<e[1], e[2], e[3]>>
  BY OnTriples DEF HeaderLine, HeaderNameEdges, HeaderValueEdges, LineEnd

\* ngx_http_parse_header_line, state by state.
HeaderEdge(s, c, m) ==
  \/ /\ s = "start"
     /\ \/ c = CR /\ m = "header_almost_done"
        \/ c = LF /\ m = "header_done"
        \/ c \in Char \ {CR, LF, NUL} /\ m = "name"
  \/ s = "header_almost_done" /\ c = LF /\ m = "header_done"
  \/ /\ s = "name"
     /\ \/ c = ":" /\ m = "space_before_value"
        \/ c \in Char \ {":", CR, LF, NUL} /\ m = "name"
        \/ c = CR /\ m = "almost_done"
        \/ c = LF /\ m = "done"
  \/ /\ s = "space_before_value"
     /\ \/ c = SP /\ m = "space_before_value"
        \/ c \in Char \ {SP, CR, LF, NUL} /\ m = "value"
        \/ c = CR /\ m = "almost_done"
        \/ c = LF /\ m = "done"
  \/ /\ s \in {"value", "space_after_value"}
     /\ \/ c = SP /\ m = "space_after_value"
        \/ c \in Char \ {SP, CR, LF, NUL} /\ m = "value"
        \/ c = CR /\ m = "almost_done"
        \/ c = LF /\ m = "done"
  \/ /\ s = "ignore_line"
     /\ \/ c \in Char \ {LF} /\ m = "ignore_line"
        \/ c = LF /\ m = "start"
  \/ /\ s = "almost_done"
     /\ \/ c = CR /\ m = "almost_done"
        \/ c = LF /\ m = "done"

LEMMA HeaderEdges == ASSUME NEW s, NEW c, NEW m, <<s, c, m>> \in HeaderLine PROVE HeaderEdge(s, c, m)
<1>1. <<s, c, m>> \in HeaderNameEdges \/ <<s, c, m>> \in HeaderValueEdges
  BY DEF HeaderLine
<1>2. CASE <<s, c, m>> \in HeaderNameEdges
  <2>1. \/ s \in {"start"} /\ c \in {CR} /\ m = "header_almost_done"
        \/ s \in {"start", "header_almost_done"} /\ c \in {LF} /\ m = "header_done"
        \/ s \in {"start"} /\ c \in Char \ {CR, LF, NUL} /\ m = "name"
        \/ s \in {"name"} /\ c \in {":"} /\ m = "space_before_value"
        \/ s \in {"name"} /\ c \in Char \ {":", CR, LF, NUL} /\ m = "name"
        \/ s \in {"name"} /\ c \in {CR} /\ m = "almost_done"
        \/ s \in {"name"} /\ c \in {LF} /\ m = "done"
    BY <1>2 DEF HeaderNameEdges, LineEnd, On
  <2>2. QED
    BY <2>1 DEF HeaderEdge
<1>3. CASE <<s, c, m>> \in HeaderValueEdges
  <2> DEFINE V == {"space_before_value", "value", "space_after_value"}
             W == {"value", "space_after_value"}
             C == Char \ {SP, CR, LF, NUL}
             E1 == On({"space_before_value"}, {SP}, "space_before_value") \cup On(V, C, "value")
                     \cup On(W, {SP}, "space_after_value")
             E2 == LineEnd(V)
             E3 == On({"ignore_line"}, Char \ {LF}, "ignore_line") \cup On({"ignore_line"}, {LF}, "start")
                     \cup On({"almost_done"}, {CR}, "almost_done") \cup On({"almost_done"}, {LF}, "done")
  <2>1. <<s, c, m>> \in E1 \/ <<s, c, m>> \in E2 \/ <<s, c, m>> \in E3
    BY <1>3 DEF HeaderValueEdges
  <2>2. CASE <<s, c, m>> \in E1
    <3> HIDE DEF V, W, C
    <3>1. \/ s \in {"space_before_value"} /\ c \in {SP} /\ m = "space_before_value"
          \/ s \in V /\ c \in C /\ m = "value"
          \/ s \in W /\ c \in {SP} /\ m = "space_after_value"
      BY <2>2 DEF On
    <3>2. QED
      BY <3>1 DEF HeaderEdge, V, W, C
  <2>3. CASE <<s, c, m>> \in E2
    <3>1. \/ s \in V /\ c \in {CR} /\ m = "almost_done"
          \/ s \in V /\ c \in {LF} /\ m = "done"
      BY <2>3 DEF LineEnd, On
    <3>2. QED
      BY <3>1 DEF HeaderEdge
  <2>4. CASE <<s, c, m>> \in E3
    <3>1. \/ s \in {"ignore_line"} /\ c \in Char \ {LF} /\ m = "ignore_line"
          \/ s \in {"ignore_line"} /\ c \in {LF} /\ m = "start"
          \/ s \in {"almost_done"} /\ c \in {CR} /\ m = "almost_done"
          \/ s \in {"almost_done"} /\ c \in {LF} /\ m = "done"
      BY <2>4 DEF On
    <3>2. QED
      BY <3>1 DEF HeaderEdge
  <2> HIDE DEF E1, E2, E3
  <2>5. QED
    BY <2>1, <2>2, <2>3, <2>4
<1>4. QED
  BY <1>1, <1>2, <1>3

LEMMA HeaderMove ==
  ASSUME NEW s \in State, NEW c \in Char, HeaderLineMove[s][c] # "invalid"
  PROVE  HeaderEdge(s, c, HeaderLineMove[s][c])
  BY MachineMove, HeaderTriples, HeaderEdges DEF HeaderLineMove

LEMMA HeaderStates ==
  {"start", "header_almost_done", "name", "space_before_value", "value", "space_after_value", "ignore_line",
   "almost_done"} \subseteq State
<1>1. \A s, c, m : <<s, c, m>> \in HeaderLine => s \in State
  <2>1. SUFFICES ASSUME NEW s, NEW c, NEW m, <<s, c, m>> \in HeaderLine PROVE s \in State
    OBVIOUS
  <2>2. <<s, c, m>>[1] = s
    OBVIOUS
  <2>3. QED
    BY <2>1, <2>2 DEF State
<1>2. <<"start", LF, "header_done">> \in HeaderLine /\ <<"header_almost_done", LF, "header_done">> \in HeaderLine
  BY DEF HeaderLine, HeaderNameEdges, On
<1>3. <<"name", ":", "space_before_value">> \in HeaderLine
  BY DEF HeaderLine, HeaderNameEdges, On
<1>4. /\ <<"space_before_value", SP, "space_before_value">> \in HeaderLine
      /\ <<"value", SP, "space_after_value">> \in HeaderLine
      /\ <<"space_after_value", SP, "space_after_value">> \in HeaderLine
  BY DEF HeaderLine, HeaderValueEdges, On
<1>5. <<"ignore_line", LF, "start">> \in HeaderLine /\ <<"almost_done", LF, "done">> \in HeaderLine
  BY DEF HeaderLine, HeaderValueEdges, On
<1>6. QED
  BY <1>1, <1>2, <1>3, <1>4, <1>5

\* The edges of the other two machines, group by group.
MethodEdge(s, c, m) ==
  \/ s \in {"start"} /\ c \in {CR, LF} /\ m = "start"
  \/ s \in {"start", "method"} /\ c \in Upper \cup {UNDERSCORE} /\ m = "method"
  \/ s \in {"method", "spaces_before_uri"} /\ c \in {SP} /\ m = "spaces_before_uri"
  \/ s \in {"spaces_before_uri"} /\ c \in {"/"} /\ m = "after_slash_in_uri"
  \/ s \in {"spaces_before_uri"} /\ c \in Letter /\ m = "schema"

LEMMA MethodEdgesAre == ASSUME NEW s, NEW c, NEW m, <<s, c, m>> \in MethodEdges PROVE MethodEdge(s, c, m)
  BY DEF MethodEdges, LineEnd, On, MethodEdge

HostEdge(s, c, m) ==
  \/ s \in {"schema"} /\ c \in Letter /\ m = "schema"
  \/ s \in {"schema"} /\ c \in {":"} /\ m = "schema_slash"
  \/ s \in {"schema_slash"} /\ c \in {"/"} /\ m = "schema_slash_slash"
  \/ s \in {"schema_slash_slash"} /\ c \in {"/"} /\ m = "host_start"
  \/ s \in {"host_start"} /\ c \in {"["} /\ m = "host_ip_literal"
  \/ s \in {"host_start", "host"} /\ c \in Letter \cup Digit \cup {".", "-"} /\ m = "host"
  \/ s \in {"host_start", "host", "host_end"} /\ c \in {":"} /\ m = "port"
  \/ s \in {"host_start", "host", "host_end", "port"} /\ c \in {"/"} /\ m = "after_slash_in_uri"
  \/ s \in {"host_start", "host", "host_end", "port"} /\ c \in {SP} /\ m = "host_http_09"
  \/ s \in {"host_ip_literal"} /\ c \in Letter \cup Digit \cup {":", "-", ".", UNDERSCORE, "!", "+"} /\ m = "host_ip_literal"
  \/ s \in {"host_ip_literal"} /\ c \in {"]"} /\ m = "host_end"
  \/ s \in {"port"} /\ c \in Digit /\ m = "port"

LEMMA HostEdgesAre == ASSUME NEW s, NEW c, NEW m, <<s, c, m>> \in HostEdges PROVE HostEdge(s, c, m)
  BY DEF HostEdges, LineEnd, On, HostEdge

UriEdge(s, c, m) ==
  \/ s \in {"after_slash_in_uri", "check_uri"} /\ c \in Usual /\ m = "check_uri"
  \/ s \in {"after_slash_in_uri"} /\ c \in {"+"} /\ m = "after_slash_in_uri"
  \/ s \in {"after_slash_in_uri"} /\ c \in {".", "/", "%", "?", "#"} /\ m = "uri"
  \/ s \in {"check_uri"} /\ c \in {".", "+"} /\ m = "check_uri"
  \/ s \in {"check_uri"} /\ c \in {"/"} /\ m = "after_slash_in_uri"
  \/ s \in {"check_uri"} /\ c \in {"%", "?", "#"} /\ m = "uri"
  \/ s \in {"uri"} /\ c \in Usual \cup {".", "+", "/", "%", "?", "#"} /\ m = "uri"
  \/ s \in {"after_slash_in_uri", "check_uri"} /\ c \in {SP} /\ m = "check_uri_http_09"
  \/ s \in {"uri"} /\ c \in {SP} /\ m = "http_09"
  \/ s \in {"after_slash_in_uri", "check_uri", "uri"} /\ c \in {CR} /\ m = "almost_done"
  \/ s \in {"after_slash_in_uri", "check_uri", "uri"} /\ c \in {LF} /\ m = "done"

LEMMA UriEdgesAre == ASSUME NEW s, NEW c, NEW m, <<s, c, m>> \in UriEdges PROVE UriEdge(s, c, m)
  BY DEF UriEdges, LineEnd, On, UriEdge

AfterUriEdge(s, c, m) ==
  \/ s \in AfterUri /\ c \in {SP} /\ m = s
  \/ s \in AfterUri /\ c \in {"H"} /\ m = "http_H"
  \/ s \in {"check_uri_http_09"} /\ c \in MoreUri /\ m = "check_uri"
  \/ s \in {"http_09"} /\ c \in MoreUri /\ m = "uri"
  \/ s \in AfterUri /\ c \in {CR} /\ m = "almost_done"
  \/ s \in AfterUri /\ c \in {LF} /\ m = "done"

LEMMA AfterUriEdgesAre == ASSUME NEW x, NEW c, NEW m, <<x, c, m>> \in AfterUriEdges PROVE AfterUriEdge(x, c, m)
<1> DEFINE Stay == UNION {On({s}, {SP}, s) : s \in AfterUri}
<1>1. CASE <<x, c, m>> \in Stay
  <2>1. PICK z \in AfterUri : <<x, c, m>> \in On({z}, {SP}, z)
    BY <1>1, Zenon
  <2>2. QED
    BY <2>1 DEF On, AfterUriEdge
<1>2. CASE <<x, c, m>> \notin Stay
  <2>1. <<x, c, m>> \in Stay \cup On(AfterUri, {"H"}, "http_H") \cup On({"check_uri_http_09"}, MoreUri, "check_uri")
                        \cup On({"http_09"}, MoreUri, "uri") \cup LineEnd(AfterUri)
    BY DEF AfterUriEdges
  <2> HIDE DEF Stay
  <2>2. QED
    BY <2>1, <1>2 DEF LineEnd, On, AfterUriEdge
<1>3. QED
  BY <1>1, <1>2

VersionEdge(s, c, m) ==
  \/ s \in {"http_H"} /\ c \in {"T"} /\ m = "http_HT"
  \/ s \in {"http_HT"} /\ c \in {"T"} /\ m = "http_HTT"
  \/ s \in {"http_HTT"} /\ c \in {"P"} /\ m = "http_HTTP"
  \/ s \in {"http_HTTP"} /\ c \in {"/"} /\ m = "first_major_digit"
  \/ s \in {"first_major_digit"} /\ c \in Digit \ {"0"} /\ m = "major_digit"
  \/ s \in {"major_digit"} /\ c \in Digit /\ m = "major_digit"
  \/ s \in {"major_digit"} /\ c \in {"."} /\ m = "first_minor_digit"
  \/ s \in {"first_minor_digit", "minor_digit"} /\ c \in Digit /\ m = "minor_digit"

LEMMA VersionEdgesAre == ASSUME NEW s, NEW c, NEW m, <<s, c, m>> \in VersionEdges PROVE VersionEdge(s, c, m)
  BY DEF VersionEdges, LineEnd, On, VersionEdge

VersionEndEdge(s, c, m) ==
  \/ s \in {"minor_digit", "spaces_after_digit"} /\ c \in {SP} /\ m = "spaces_after_digit"
  \/ s \in {"minor_digit", "spaces_after_digit"} /\ c \in {CR} /\ m = "almost_done"
  \/ s \in {"minor_digit", "spaces_after_digit"} /\ c \in {LF} /\ m = "done"
  \/ s \in {"almost_done"} /\ c \in {LF} /\ m = "done"

LEMMA VersionEndEdgesAre == ASSUME NEW s, NEW c, NEW m, <<s, c, m>> \in VersionEndEdges PROVE VersionEndEdge(s, c, m)
  BY DEF VersionEndEdges, LineEnd, On, VersionEndEdge

StatusEdge(s, c, m) ==
  \/ s \in {"start"} /\ c \in {"H"} /\ m = "http_H"
  \/ s \in {"minor_digit"} /\ c \in {SP} /\ m = "status"
  \/ s \in {"status"} /\ c \in Digit \cup {SP} /\ m = "status"
  \/ s \in {"space_after_status"} /\ c \in {SP, "."} /\ m = "status_text"
  \/ s \in {"status_text"} /\ c \in Char \ {CR, LF} /\ m = "status_text"
  \/ s \in {"space_after_status", "status_text"} /\ c \in {CR} /\ m = "almost_done"
  \/ s \in {"space_after_status", "status_text"} /\ c \in {LF} /\ m = "done"
  \/ s \in {"almost_done"} /\ c \in {LF} /\ m = "done"
  \/ VersionEdge(s, c, m)

LEMMA StatusEdges == ASSUME NEW s, NEW c, NEW m, <<s, c, m>> \in StatusLine PROVE StatusEdge(s, c, m)
<1>1. CASE <<s, c, m>> \in VersionEdges
  BY <1>1, VersionEdgesAre DEF StatusEdge
<1>2. CASE <<s, c, m>> \notin VersionEdges
  BY <1>2 DEF StatusLine, LineEnd, On, StatusEdge
<1>3. QED
  BY <1>1, <1>2

RequestEdge(s, c, m) ==
  \/ MethodEdge(s, c, m) \/ HostEdge(s, c, m) \/ UriEdge(s, c, m)
  \/ AfterUriEdge(s, c, m) \/ VersionEdge(s, c, m) \/ VersionEndEdge(s, c, m)

LEMMA RequestEdges == ASSUME NEW s, NEW c, NEW m, <<s, c, m>> \in RequestLine PROVE RequestEdge(s, c, m)
  BY MethodEdgesAre, HostEdgesAre, UriEdgesAre, AfterUriEdgesAre, VersionEdgesAre, VersionEndEdgesAre
     DEF RequestLine, RequestEdge

LEMMA RequestTriples == \A e \in RequestLine : e = <<e[1], e[2], e[3]>>
<1>1. \A e \in MethodEdges : e = <<e[1], e[2], e[3]>>
  BY OnTriples DEF MethodEdges
<1>2. \A e \in HostEdges : e = <<e[1], e[2], e[3]>>
  BY OnTriples DEF HostEdges
<1>3. \A e \in UriEdges : e = <<e[1], e[2], e[3]>>
  BY OnTriples DEF UriEdges, LineEnd
<1>4. \A e \in AfterUriEdges : e = <<e[1], e[2], e[3]>>
  <2>1. SUFFICES ASSUME NEW e \in AfterUriEdges PROVE e = <<e[1], e[2], e[3]>>
    OBVIOUS
  <2> DEFINE Stay == UNION {On({s}, {SP}, s) : s \in AfterUri}
  <2>2. CASE e \in Stay
    <3>1. PICK z \in AfterUri : e \in On({z}, {SP}, z)
      BY <2>2, Zenon
    <3>2. QED
      BY <3>1, OnTriples
  <2>3. CASE e \notin Stay
    <3>1. e \in Stay \cup On(AfterUri, {"H"}, "http_H") \cup On({"check_uri_http_09"}, MoreUri, "check_uri")
                 \cup On({"http_09"}, MoreUri, "uri") \cup LineEnd(AfterUri)
      BY <2>1 DEF AfterUriEdges
    <3> HIDE DEF Stay
    <3>2. QED
      BY <3>1, <2>3, OnTriples DEF LineEnd
  <2>4. QED
    BY <2>2, <2>3
<1>5. \A e \in VersionEdges \cup VersionEndEdges : e = <<e[1], e[2], e[3]>>
  BY OnTriples DEF VersionEdges, VersionEndEdges, LineEnd
<1>6. QED
  BY <1>1, <1>2, <1>3, <1>4, <1>5 DEF RequestLine

LEMMA StatusTriples == \A e \in StatusLine : e = <<e[1], e[2], e[3]>>
<1>1. \A e \in VersionEdges : e = <<e[1], e[2], e[3]>>
  BY RequestTriples DEF RequestLine
<1>2. QED
  BY <1>1, OnTriples DEF StatusLine, LineEnd

LEMMA RequestMove ==
  ASSUME NEW s \in State, NEW c \in Char, RequestLineMove[s][c] # "invalid"
  PROVE  RequestEdge(s, c, RequestLineMove[s][c])
  BY MachineMove, RequestTriples, RequestEdges DEF RequestLineMove

LEMMA StatusMove ==
  ASSUME NEW s \in State, NEW c \in Char, StatusLineMove[s][c] # "invalid"
  PROVE  StatusEdge(s, c, StatusLineMove[s][c])
  BY MachineMove, StatusTriples, StatusEdges DEF StatusLineMove

LEMMA RequestStates ==
  {"start", "method", "spaces_before_uri", "schema", "schema_slash", "schema_slash_slash", "host_start", "host",
   "host_end", "host_ip_literal", "port", "after_slash_in_uri", "check_uri", "uri", "host_http_09",
   "check_uri_http_09", "http_09", "http_H", "http_HT", "http_HTT", "http_HTTP", "first_major_digit", "major_digit",
   "first_minor_digit", "minor_digit", "spaces_after_digit", "almost_done"} \subseteq State
<1>1. \A s, c, m : <<s, c, m>> \in RequestLine => s \in State
  <2>1. SUFFICES ASSUME NEW s, NEW c, NEW m, <<s, c, m>> \in RequestLine PROVE s \in State
    OBVIOUS
  <2>2. <<s, c, m>>[1] = s
    OBVIOUS
  <2>3. QED
    BY <2>1, <2>2 DEF State
<1>2. {"start", "method", "spaces_before_uri"} \subseteq State
  <2>1. /\ <<"start", CR, "start">> \in MethodEdges /\ <<"method", SP, "spaces_before_uri">> \in MethodEdges
        /\ <<"spaces_before_uri", SP, "spaces_before_uri">> \in MethodEdges
    BY DEF MethodEdges, On
  <2>2. QED
    BY <2>1, <1>1 DEF RequestLine
<1>3. {"schema", "schema_slash", "schema_slash_slash", "host_start", "host", "host_end", "host_ip_literal", "port"} \subseteq State
  <2>1. /\ <<"schema", ":", "schema_slash">> \in HostEdges /\ <<"schema_slash", "/", "schema_slash_slash">> \in HostEdges
        /\ <<"schema_slash_slash", "/", "host_start">> \in HostEdges /\ <<"host_start", "[", "host_ip_literal">> \in HostEdges
        /\ <<"host_ip_literal", "]", "host_end">> \in HostEdges
    BY DEF HostEdges, On
  <2>2. /\ <<"host", SP, "host_http_09">> \in HostEdges /\ <<"host_end", SP, "host_http_09">> \in HostEdges
        /\ <<"port", SP, "host_http_09">> \in HostEdges
    BY DEF HostEdges, On
  <2>3. QED
    BY <2>1, <2>2, <1>1 DEF RequestLine
<1>4. {"after_slash_in_uri", "check_uri", "uri"} \subseteq State
  <2>1. /\ <<"after_slash_in_uri", SP, "check_uri_http_09">> \in UriEdges
        /\ <<"check_uri", SP, "check_uri_http_09">> \in UriEdges /\ <<"uri", SP, "http_09">> \in UriEdges
    BY DEF UriEdges, On
  <2>2. QED
    BY <2>1, <1>1 DEF RequestLine
<1>5. {"host_http_09", "check_uri_http_09", "http_09"} \subseteq State
  <2>1. \A s \in AfterUri : <<s, "H", "http_H">> \in AfterUriEdges
    BY DEF AfterUriEdges, On
  <2>2. QED
    BY <2>1, <1>1 DEF RequestLine, AfterUri
<1>6. {"http_H", "http_HT", "http_HTT", "http_HTTP", "first_major_digit", "major_digit", "first_minor_digit"} \subseteq State
  <2>1. /\ <<"http_H", "T", "http_HT">> \in VersionEdges /\ <<"http_HT", "T", "http_HTT">> \in VersionEdges
        /\ <<"http_HTT", "P", "http_HTTP">> \in VersionEdges /\ <<"http_HTTP", "/", "first_major_digit">> \in VersionEdges
        /\ <<"first_major_digit", "1", "major_digit">> \in VersionEdges
        /\ <<"major_digit", ".", "first_minor_digit">> \in VersionEdges
        /\ <<"first_minor_digit", "1", "minor_digit">> \in VersionEdges
    BY DEF VersionEdges, On, Digit
  <2>2. QED
    BY <2>1, <1>1 DEF RequestLine
<1>7. {"minor_digit", "spaces_after_digit", "almost_done"} \subseteq State
  <2>1. /\ <<"minor_digit", SP, "spaces_after_digit">> \in VersionEndEdges
        /\ <<"spaces_after_digit", SP, "spaces_after_digit">> \in VersionEndEdges
        /\ <<"almost_done", LF, "done">> \in VersionEndEdges
    BY DEF VersionEndEdges, On
  <2>2. QED
    BY <2>1, <1>1 DEF RequestLine
<1>8. QED
  BY <1>2, <1>3, <1>4, <1>5, <1>6, <1>7

LEMMA StatusStates == {"status", "space_after_status", "status_text"} \subseteq State
<1>1. \A s, c, m : <<s, c, m>> \in StatusLine => s \in State
  <2>1. SUFFICES ASSUME NEW s, NEW c, NEW m, <<s, c, m>> \in StatusLine PROVE s \in State
    OBVIOUS
  <2>2. <<s, c, m>>[1] = s
    OBVIOUS
  <2>3. QED
    BY <2>1, <2>2 DEF State
<1>2. <<"status", SP, "status">> \in StatusLine
  <2>1. \A S, C, t, s, c : s \in S /\ c \in C => <<s, c, t>> \in On(S, C, t)
    BY DEF On
  <2>2. "status" \in {"status"} /\ SP \in Digit \cup {SP}
    OBVIOUS
  <2>3. <<"status", SP, "status">> \in On({"status"}, Digit \cup {SP}, "status")
    BY <2>1, <2>2, Zenon
  <2>4. QED
    BY <2>3, Zenon DEF StatusLine
<1>3. <<"space_after_status", SP, "status_text">> \in StatusLine
  BY DEF StatusLine, On
<1>4. <<"status_text", SP, "status_text">> \in StatusLine
  BY DEF StatusLine, On, Char, SP, CR, LF
<1>5. QED
  BY <1>1, <1>2, <1>3, <1>4

\* The parsers of the first line stop at a line feed only, and before the
\* first character of the line they stay where they are.
LEMMA RequestTarget ==
  ASSUME NEW s \in State, NEW c \in Char, RequestLineMove[s][c] # "invalid"
  PROVE  \/ RequestLineMove[s][c] = "done" /\ c = LF /\ s # "start"
         \/ /\ RequestLineMove[s][c] \in State \ {"done"}
            /\ (RequestLineMove[s][c] = "start") <=> (s = "start" /\ c \in {CR, LF})
            /\ c = LF => s = "start"
<1> DEFINE m == RequestLineMove[s][c]
<1>1. RequestEdge(s, c, m)
  BY RequestMove
<1> HIDE DEF m
<1>2. CASE MethodEdge(s, c, m)
  BY <1>2, RequestStates DEF MethodEdge, Upper, Letter, m, CR, LF, SP, UNDERSCORE
<1>3. CASE HostEdge(s, c, m)
  BY <1>3, RequestStates DEF HostEdge, Upper, Letter, Digit, m, CR, LF, SP, UNDERSCORE
<1>4. CASE UriEdge(s, c, m)
  BY <1>4, RequestStates DEF UriEdge, Usual, Upper, Letter, Digit, m, CR, LF, SP, UNDERSCORE
<1>5. CASE AfterUriEdge(s, c, m)
  BY <1>5, RequestStates DEF AfterUriEdge, AfterUri, MoreUri, m, CR, LF, SP
<1>6. CASE VersionEdge(s, c, m)
  BY <1>6, RequestStates DEF VersionEdge, Digit, m, CR, LF, SP
<1>7. CASE VersionEndEdge(s, c, m)
  BY <1>7, RequestStates DEF VersionEndEdge, m, CR, LF, SP
<1>8. QED
  BY <1>1, <1>2, <1>3, <1>4, <1>5, <1>6, <1>7 DEF RequestEdge

LEMMA StatusTarget ==
  ASSUME NEW s \in State, NEW c \in Char, StatusLineMove[s][c] # "invalid"
  PROVE  \/ StatusLineMove[s][c] = "done" /\ c = LF
         \/ StatusLineMove[s][c] \in State \ {"done", "start"} /\ c # LF
<1> DEFINE m == StatusLineMove[s][c]
<1>1. StatusEdge(s, c, m)
  BY StatusMove
<1> HIDE DEF m
<1>2. CASE VersionEdge(s, c, m)
  BY <1>2, RequestStates DEF VersionEdge, Digit, m, CR, LF, SP
<1>3. CASE ~VersionEdge(s, c, m)
  BY <1>1, <1>3, RequestStates, StatusStates DEF StatusEdge, Digit, m, CR, LF, SP
<1>4. QED
  BY <1>2, <1>3

-----------------------------------------------------------------------------
(* FlattenSeq: pieces of text one behind the other.                        *)

Flats(f, s, n) == f = [i \in 1..n |-> IF i = 1 THEN s[i] ELSE f[i - 1] \o s[i]]

LEMMA FlatsExist == ASSUME NEW s, NEW k \in Nat PROVE \E f : Flats(f, s, k)
<1> DEFINE Bad == {n \in Nat : ~\E f : Flats(f, s, n)}
<1>1. SUFFICES ASSUME Bad # {} PROVE FALSE
  OBVIOUS
<1>2. PICK n \in Bad : \A m \in Bad : n <= m
  BY <1>1, LeastNumber
<1>3. CASE n = 0
  <2> DEFINE g == [i \in 1..0 |-> s[i]]
  <2>1. Flats(g, s, 0)
    BY DEF Flats
  <2>2. QED
    BY <1>3, <2>1
<1>4. CASE n # 0
  <2>1. n - 1 \in Nat /\ n - 1 \notin Bad
    BY <1>2, <1>4
  <2>2. PICK f : Flats(f, s, n - 1)
    BY <2>1
  <2> DEFINE g == [i \in 1..n |-> IF i = n THEN IF n = 1 THEN s[n] ELSE f[n - 1] \o s[n] ELSE f[i]]
  <2>3. Flats(g, s, n)
    <3>1. ASSUME NEW i \in 1..n PROVE g[i] = IF i = 1 THEN s[i] ELSE g[i - 1] \o s[i]
      <4>1. CASE i = n
        BY <1>4, <2>1, <4>1
      <4>2. CASE i # n
        <5>1. i \in 1..(n - 1) /\ i # n
          BY <1>4, <2>1, <4>2
        <5>2. f[i] = IF i = 1 THEN s[i] ELSE f[i - 1] \o s[i]
          BY <5>1, <2>2 DEF Flats
        <5>3. g[i] = f[i] /\ (i # 1 => g[i - 1] = f[i - 1])
          BY <5>1
        <5> HIDE DEF g
        <5>4. QED
          BY <5>2, <5>3
      <4>3. QED
        BY <4>1, <4>2
    <3>2. g = [i \in 1..n |-> g[i]]
      OBVIOUS
    <3> HIDE DEF g
    <3>3. QED
      BY <3>1, <3>2 DEF Flats
  <2>4. QED
    BY <2>3
<1>5. QED
  BY <1>3, <1>4

LEMMA FlattenDef ==
  ASSUME NEW s, Len(s) \in Nat \ {0}
  PROVE  \E f : Flats(f, s, Len(s)) /\ FlattenSeq(s) = f[Len(s)]
<1>1. \E f : f = [i \in 1..Len(s) |-> IF i = 1 THEN s[i] ELSE f[i - 1] \o s[i]]
  BY FlatsExist DEF Flats
<1>2. PICK g : g = (CHOOSE f : f = [i \in 1..Len(s) |-> IF i = 1 THEN s[i] ELSE f[i - 1] \o s[i]])
  OBVIOUS
<1>3. g = [i \in 1..Len(s) |-> IF i = 1 THEN s[i] ELSE g[i - 1] \o s[i]]
  BY <1>1, <1>2, Zenon
<1>4. FlattenSeq(s) = g[Len(s)]
  BY <1>2 DEF FlattenSeq
<1>5. QED
  BY <1>3, <1>4 DEF Flats

\* Two sequences with the same beginning.
LEMMA FlatsUnique ==
  ASSUME NEW k \in Nat \ {0}, NEW n \in Nat, NEW m \in Nat, k <= n, k <= m, NEW s, NEW t,
         \A i \in 1..k : s[i] = t[i], NEW f, NEW g, Flats(f, s, n), Flats(g, t, m)
  PROVE  f[k] = g[k]
<1> DEFINE Bad == {i \in 1..k : f[i] # g[i]}
<1>0. k \in 1..k
  OBVIOUS
<1>1. SUFFICES ASSUME Bad # {} PROVE FALSE
  BY <1>0
<1>2. PICK i \in Bad : \A j \in Bad : i <= j
  <2>1. Bad \subseteq Nat
    OBVIOUS
  <2> HIDE DEF Bad
  <2>2. QED
    BY <1>1, <2>1, LeastNumber
<1>3. i \in 1..k /\ i \in 1..n /\ i \in 1..m /\ f[i] # g[i]
  OBVIOUS
<1>4. f[i] = (IF i = 1 THEN s[i] ELSE f[i - 1] \o s[i]) /\ g[i] = (IF i = 1 THEN t[i] ELSE g[i - 1] \o t[i])
  BY <1>3 DEF Flats
<1>5. i # 1
  BY <1>3, <1>4
<1>6. i - 1 \in 1..k /\ i - 1 \notin Bad
  BY <1>2, <1>3, <1>5
<1>7. f[i - 1] = g[i - 1]
  BY <1>6
<1>8. QED
  BY <1>3, <1>4, <1>7

LEMMA FlattenEmpty == ASSUME NEW s, s = <<>> PROVE FlattenSeq(s) = <<>>
  BY DEF FlattenSeq

LEMMA FlattenType == ASSUME NEW S, NEW s \in Seq(Seq(S)) PROVE FlattenSeq(s) \in Seq(S)
<1>1. CASE Len(s) = 0
  <2>1. s = <<>> /\ <<>> \in Seq(S)
    BY <1>1
  <2>2. QED
    BY <2>1, FlattenEmpty
<1>2. CASE Len(s) # 0
  <2>1. PICK f : Flats(f, s, Len(s)) /\ FlattenSeq(s) = f[Len(s)]
    BY <1>2, FlattenDef
  <2> DEFINE Bad == {i \in 1..Len(s) : f[i] \notin Seq(S)}
  <2>0. Len(s) \in 1..Len(s)
    BY <1>2
  <2>2. SUFFICES ASSUME Bad # {} PROVE FALSE
    BY <2>0, <2>1
  <2>3. PICK i \in Bad : \A j \in Bad : i <= j
    <3>1. Bad \subseteq Nat
      OBVIOUS
    <3> HIDE DEF Bad
    <3>2. QED
      BY <2>2, <3>1, LeastNumber
  <2>4. i \in 1..Len(s) /\ f[i] \notin Seq(S) /\ s[i] \in Seq(S)
    OBVIOUS
  <2>5. f[i] = IF i = 1 THEN s[i] ELSE f[i - 1] \o s[i]
    BY <2>1, <2>4 DEF Flats
  <2>6. i # 1
    BY <2>4, <2>5
  <2>7. i - 1 \in 1..Len(s) /\ i - 1 \notin Bad
    BY <2>3, <2>4, <2>6
  <2>8. f[i - 1] \in Seq(S)
    BY <2>7
  <2>9. QED
    BY <2>4, <2>5, <2>6, <2>8
<1>3. QED
  BY <1>1, <1>2

\* One more piece behind the others.
LEMMA FlattenStep ==
  ASSUME NEW S, NEW s, NEW k \in Nat \ {0}, \A i \in 1..k : s[i] \in Seq(S)
  PROVE  FlattenSeq([j \in 1..k |-> s[j]]) = FlattenSeq([j \in 1..(k - 1) |-> s[j]]) \o s[k]
<1> DEFINE a == [j \in 1..k |-> s[j]]  b == [j \in 1..(k - 1) |-> s[j]]
<1>1. a \in Seq(Seq(S)) /\ Len(a) = k /\ a[k] = s[k] /\ k \in 1..k
  <2>1. a \in [1..k -> Seq(S)] /\ k \in Nat
    OBVIOUS
  <2>2. QED
    BY <2>1
<1>2. PICK f : Flats(f, a, k) /\ FlattenSeq(a) = f[k]
  BY <1>1, FlattenDef
<1>3. f[k] = IF k = 1 THEN a[k] ELSE f[k - 1] \o a[k]
  BY <1>1, <1>2 DEF Flats
<1>4. CASE k = 1
  <2>1. b = <<>>
    BY <1>4
  <2>2. FlattenSeq(b) = <<>>
    BY <2>1, FlattenEmpty
  <2>3. <<>> \o s[k] = s[k]
    OBVIOUS
  <2>4. QED
    BY <1>1, <1>2, <1>3, <1>4, <2>2, <2>3
<1>5. CASE k # 1
  <2>1. b \in Seq(Seq(S)) /\ Len(b) = k - 1 /\ k - 1 \in Nat \ {0}
    <3>1. b \in [1..(k - 1) -> Seq(S)] /\ k - 1 \in Nat \ {0}
      BY <1>5
    <3>2. QED
      BY <3>1
  <2>2. PICK g : Flats(g, b, k - 1) /\ FlattenSeq(b) = g[k - 1]
    BY <2>1, FlattenDef
  <2>3. \A i \in 1..(k - 1) : a[i] = b[i]
    OBVIOUS
  <2> HIDE DEF a, b
  <2>4. f[k - 1] = g[k - 1]
    <3> DEFINE q == k - 1
    <3>1. k \in Nat /\ q \in Nat \ {0} /\ q \in Nat /\ q <= k /\ q <= q
      BY <2>1
    <3>2. Flats(f, a, k) /\ Flats(g, b, q) /\ \A i \in 1..q : a[i] = b[i]
      BY <1>2, <2>2, <2>3
    <3> HIDE DEF q
    <3>3. f[q] = g[q]
      <4>1. \A x \in Nat \ {0}, n \in Nat, m \in Nat : \A s1, t1, f1, g1 :
              /\ x <= n /\ x <= m /\ (\A i \in 1..x : s1[i] = t1[i])
              /\ Flats(f1, s1, n) /\ Flats(g1, t1, m)
              => f1[x] = g1[x]
        BY FlatsUnique
      <4>2. QED
        BY <3>1, <3>2, <4>1
    <3>4. QED
      BY <3>3 DEF q
  <2>5. QED
    BY <1>1, <1>2, <1>3, <1>5, <2>2, <2>4 DEF a, b
<1>6. QED
  BY <1>4, <1>5

-----------------------------------------------------------------------------
(* Types, and where the pointers of a header line and the elements lie.    *)

Modes == {"request_line", "status_line", "headers", "send", "idle", "spinning", "crashed"}
AnElement == [key : APiece, value : APiece]

Types ==
  /\ mode \in Modes
  /\ input \in Inputs
  /\ text \in Seq(Char) /\ Len(text) = Len(Text(input))
  /\ p \in 1..(input.read + 1)
  /\ r \in RequestT
  /\ elements \in Seq(AnElement)
  /\ chain \in Pieces

\* The states of a line whose first character was read.
InLine == {"name", "space_before_value", "value", "space_after_value", "almost_done"}
InHeaders == InLine \cup {"start", "header_almost_done", "ignore_line"}

\* The pointers that are set in a state belong to the line at hand.
Pointers ==
  LET a == r.header_name_start  b == r.header_name_end  c == r.header_start  d == r.header_end IN
  mode = "headers" =>
    /\ r.state \in InHeaders
    /\ r.state \in InLine => 1 <= a /\ a < p
    /\ r.state \in InLine \ {"name"} => a < b /\ b < p
    /\ r.state \in {"value", "space_after_value"} => b < c /\ c < p
    /\ r.state = "space_after_value" => c <= d /\ d < p
    /\ r.state = "almost_done" => b <= c /\ c <= d /\ d < p

LineStart == IF mode = "headers" /\ r.state \in InLine THEN r.header_name_start ELSE p

\* An element, and what lies behind it.
Placed(e, next) ==
  /\ 1 <= e.key.from /\ e.key.len > 0 /\ e.key.from + e.key.len <= e.value.from
  /\ e.value.len >= 0 /\ e.value.from + e.value.len < next

ElementsApart ==
  \A k \in DOMAIN elements : Placed(elements[k], IF k = Len(elements) THEN LineStart ELSE elements[k + 1].key.from)

HeadInv == Types /\ Pointers /\ ElementsApart /\ SendResult

LEMMA Reading ==
  ASSUME Types, More
  PROVE  /\ p \in Nat /\ 1 <= p /\ p \in 1..Len(text) /\ p \in 1..(input.read + 1) /\ p + 1 \in 1..(input.read + 1)
         /\ ch \in Char /\ r.state \in State /\ input.read \in Nat
<1>1. input.read \in 0..Len(Text(input)) /\ Len(text) = Len(Text(input)) /\ Len(text) \in Nat
  BY HeadAssumption DEF Types
<1>2. p \in 1..(input.read + 1) /\ p <= input.read
  BY DEF Types, More
<1>3. p \in 1..Len(text)
  BY <1>1, <1>2
<1>4. r.state \in State
  BY DEF Types, RequestT
<1>5. QED
  BY <1>1, <1>2, <1>3, <1>4 DEF Types, ch

LEMMA ElementType ==
  ASSUME NEW e \in AnElement
  PROVE  e.key.from \in Int /\ e.key.len \in Int /\ e.value.from \in Int /\ e.value.len \in Int
<1>1. e.key \in APiece /\ e.value \in APiece
  BY DEF AnElement
<1>2. QED
  BY <1>1 DEF APiece

LEMMA ElementsKept ==
  ASSUME elements \in Seq(AnElement), ElementsApart, elements' = elements,
         LineStart \in Int, LineStart' \in Int, LineStart <= LineStart'
  PROVE  ElementsApart'
<1> DEFINE after(k, l) == IF k = Len(elements) THEN l ELSE elements[k + 1].key.from
<1>1. SUFFICES ASSUME NEW k \in DOMAIN elements PROVE Placed(elements[k], after(k, LineStart'))
  BY DEF ElementsApart
<1>2. Placed(elements[k], after(k, LineStart))
  BY DEF ElementsApart
<1>3. elements[k].value.from \in Int /\ elements[k].value.len \in Int
  BY ElementType
<1>4. k = Len(elements) \/ after(k, LineStart') = after(k, LineStart)
  OBVIOUS
<1>5. QED
  BY <1>2, <1>3, <1>4 DEF Placed

\* A step that leaves a line alone: the elements lie behind p.
LEMMA ElementsBehind ==
  ASSUME Types, Types', ElementsApart, Pointers, elements' = elements, p <= p',
         ~(mode' = "headers" /\ r'.state \in InLine)
  PROVE  ElementsApart'
<1>1. p \in Int /\ p' \in Int /\ r.header_name_start \in Int
  BY HeadAssumption DEF Types, RequestT
<1>2. LineStart \in Int /\ LineStart <= p
  BY <1>1 DEF LineStart, Pointers
<1>3. LineStart' = p'
  BY DEF LineStart
<1>4. QED
  BY <1>1, <1>2, <1>3, ElementsKept DEF Types

LEMMA HeadInit == Init => HeadInv
<1> SUFFICES ASSUME Init PROVE HeadInv
  OBVIOUS
<1>1. input \in Inputs /\ Text(input) \in Seq(Char) /\ input.read \in 0..Len(Text(input)) /\ Len(Text(input)) \in Nat
  BY HeadAssumption DEF Init
<1>2. p \in 1..(input.read + 1)
  BY <1>1 DEF Init
<1>3. mode \in {"request_line", "status_line"}
  BY DEF Init
<1>4. r \in RequestT
  BY HeadAssumption, FieldsType, HeaderStates DEF Init
<1>5. elements \in Seq(AnElement) /\ chain \in Pieces
  BY DEF Init, Pieces
<1>6. Types
  BY <1>1, <1>2, <1>3, <1>4, <1>5 DEF Init, Types, Modes
<1>7. Pointers
  BY <1>3 DEF Pointers
<1>8. ElementsApart
  BY DEF Init, ElementsApart
<1>9. SendResult
  BY DEF Init, SendResult
<1>10. QED
  BY <1>6, <1>7, <1>8, <1>9 DEF HeadInv

\* A step that only changes the mode.
LEMMA OnlyMode ==
  ASSUME HeadInv, mode' \in Modes, mode' # "headers" \/ mode' = mode, UNCHANGED <<input, text, p, r, elements, chain, result>>
  PROVE  HeadInv'
<1>1. Types'
  BY DEF HeadInv, Types
<1>2. Pointers'
  BY DEF HeadInv, Pointers
<1>3. ElementsApart'
  <2>1. CASE mode' # "headers"
    BY <1>1, <2>1, ElementsBehind DEF HeadInv, Types
  <2>2. CASE mode' = mode
    BY <2>2 DEF HeadInv, ElementsApart, LineStart
  <2>3. QED
    BY <2>1, <2>2
<1>4. SendResult'
  BY DEF HeadInv, SendResult
<1>5. QED
  BY <1>1, <1>2, <1>3, <1>4 DEF HeadInv

LEMMA RequestLineCharStep == HeadInv /\ request_line_char => HeadInv'
<1> SUFFICES ASSUME HeadInv, request_line_char PROVE HeadInv'
  OBVIOUS
<1> DEFINE to == RequestLineMove[r.state][ch]
<1>1. mode = "request_line" /\ More /\ to \notin {"done", "invalid"} /\ r' = RequestLineChar(to)
      /\ p' = (IF Rereads(r.state, ch) THEN p ELSE p + 1)
      /\ UNCHANGED <<input, text, mode, elements, chain, sent, result>>
  BY DEF request_line_char
<1>2. Types /\ Pointers /\ ElementsApart /\ SendResult
  BY DEF HeadInv
<1>3. p \in Nat /\ p \in 1..(input.read + 1) /\ p + 1 \in 1..(input.read + 1) /\ ch \in Char /\ r.state \in State
  BY <1>1, <1>2, Reading
<1>4. to \in State
  BY <1>1, <1>3, RequestTarget
<1> HIDE DEF to
<1>5. r' \in RequestT
  BY <1>1, <1>2, <1>3, <1>4, RequestLineCharType DEF Types
<1>6. Types'
  BY <1>1, <1>2, <1>3, <1>5 DEF Types
<1>7. p <= p'
  BY <1>1, <1>3
<1>8. ElementsApart' /\ Pointers'
  BY <1>1, <1>2, <1>6, <1>7, ElementsBehind DEF Pointers
<1>9. SendResult'
  BY <1>1, <1>2 DEF SendResult
<1>10. QED
  BY <1>6, <1>8, <1>9 DEF HeadInv

LEMMA RequestLineDoneType ==
  ASSUME r \in RequestT, p \in Int
  PROVE  /\ RequestLineDone \in RequestT /\ RequestLineDone.state = "start"
         /\ http_request_line_parsed(RequestLineDone) \in RequestT
         /\ http_request_line_parsed(RequestLineDone).state = "start"
<1> DEFINE w == RequestLineChar("start")  e == IF w.request_end = NULL THEN p ELSE w.request_end
           q == RequestLineDone  u == IF q.complex_uri THEN q.uri ELSE q.uri_start
<1>1. w \in RequestT /\ w.state = "start"
  BY RequestLineCharType, RequestLineCharFields, HeaderStates
<1>2. q = [w EXCEPT !.request_end = e]
  BY DEF RequestLineDone
<1> HIDE DEF w
<1>3. e \in Int
  BY <1>1 DEF RequestT
<1> HIDE DEF e, q
<1>4. q \in RequestT /\ q.state = "start"
  BY <1>1, <1>2, <1>3 DEF RequestT
<1>5. u \in Int
  BY <1>4 DEF RequestT
<1>6. http_request_line_parsed(q) = [q EXCEPT !.uri = u]
  BY DEF http_request_line_parsed
<1> HIDE DEF u
<1>7. http_request_line_parsed(q) \in RequestT /\ http_request_line_parsed(q).state = "start"
  BY <1>4, <1>5, <1>6 DEF RequestT
<1>8. QED
  BY <1>4, <1>7 DEF q

LEMMA RequestLineDoneStep == HeadInv /\ request_line_done => HeadInv'
<1> SUFFICES ASSUME HeadInv, request_line_done PROVE HeadInv'
  OBVIOUS
<1>1. /\ mode = "request_line" /\ More /\ mode' \in {"idle", "headers"} /\ p' = p + 1 /\ elements' = <<>>
      /\ r' \in {RequestLineDone, http_request_line_parsed(RequestLineDone)}
      /\ UNCHANGED <<input, text, chain, sent, result>>
  BY DEF request_line_done
<1>2. Types /\ SendResult
  BY DEF HeadInv
<1>3. p \in Int /\ p + 1 \in 1..(input.read + 1)
  BY <1>1, <1>2, Reading
<1>4. r' \in RequestT /\ r'.state = "start"
  BY <1>1, <1>2, <1>3, RequestLineDoneType DEF Types
<1>5. elements' \in Seq(AnElement)
  BY <1>1
<1>6. Types'
  BY <1>1, <1>2, <1>3, <1>4, <1>5 DEF Types, Modes
<1>7. Pointers'
  BY <1>4 DEF Pointers, InHeaders, InLine
<1>8. ElementsApart'
  BY <1>1 DEF ElementsApart
<1>9. SendResult'
  BY <1>1, <1>2 DEF SendResult
<1>10. QED
  BY <1>6, <1>7, <1>8, <1>9 DEF HeadInv

LEMMA StatusTo ==
  ASSUME r.state \in State, ch \in Char, StatusLineTo # "invalid"
  PROVE  \/ StatusLineTo = "done" /\ ch = LF
         \/ StatusLineTo \in State \ {"done", "start"} /\ ch # LF
  BY StatusTarget, StatusStates DEF StatusLineTo, Digit, LF

LEMMA StatusLineCharStep == HeadInv /\ status_line_char => HeadInv'
<1> SUFFICES ASSUME HeadInv, status_line_char PROVE HeadInv'
  OBVIOUS
<1> DEFINE to == StatusLineTo
<1>1. /\ mode = "status_line" /\ More /\ to \notin {"done", "invalid"} /\ r' = StatusLineChar(to)
      /\ p' = p + 1 /\ UNCHANGED <<input, text, mode, elements, chain, sent, result>>
  BY DEF status_line_char
<1>2. Types /\ Pointers /\ ElementsApart /\ SendResult
  BY DEF HeadInv
<1>3. p \in Nat /\ p + 1 \in 1..(input.read + 1) /\ ch \in Char /\ r.state \in State
  BY <1>1, <1>2, Reading
<1>4. to \in State
  BY <1>1, <1>3, StatusTo
<1> HIDE DEF to
<1>5. r' \in RequestT
  BY <1>1, <1>2, <1>3, <1>4, StatusLineCharType DEF Types
<1>6. Types'
  BY <1>1, <1>2, <1>3, <1>5 DEF Types
<1>7. p <= p'
  BY <1>1, <1>3
<1>8. ElementsApart' /\ Pointers'
  BY <1>1, <1>2, <1>6, <1>7, ElementsBehind DEF Pointers
<1>9. SendResult'
  BY <1>1, <1>2 DEF SendResult
<1>10. QED
  BY <1>6, <1>8, <1>9 DEF HeadInv

LEMMA StatusLineDoneStep == HeadInv /\ status_line_done => HeadInv'
<1> SUFFICES ASSUME HeadInv, status_line_done PROVE HeadInv'
  OBVIOUS
<1> DEFINE w == StatusLineChar("start")  e == IF w.status_end = NULL THEN p ELSE w.status_end
<1>1. /\ mode = "status_line" /\ More /\ mode' = "headers" /\ p' = p + 1 /\ elements' = <<>>
      /\ r' = [w EXCEPT !.status_end = e]
      /\ UNCHANGED <<input, text, chain, sent, result>>
  BY DEF status_line_done
<1>2. Types /\ SendResult
  BY DEF HeadInv
<1>3. p \in Int /\ p + 1 \in 1..(input.read + 1)
  BY <1>1, <1>2, Reading
<1>4. w \in RequestT /\ w.state = "start"
  BY <1>2, <1>3, StatusLineCharType, StatusLineCharFields, HeaderStates DEF Types
<1> HIDE DEF w
<1>5. e \in Int
  BY <1>3, <1>4 DEF RequestT
<1> HIDE DEF e
<1>6. r' \in RequestT /\ r'.state = "start"
  BY <1>1, <1>4, <1>5 DEF RequestT
<1>7. elements' \in Seq(AnElement)
  BY <1>1
<1>8. Types'
  BY <1>1, <1>2, <1>3, <1>6, <1>7 DEF Types, Modes
<1>9. Pointers'
  BY <1>6 DEF Pointers, InHeaders, InLine
<1>10. ElementsApart'
  BY <1>1 DEF ElementsApart
<1>11. SendResult'
  BY <1>1, <1>2 DEF SendResult
<1>12. QED
  BY <1>8, <1>9, <1>10, <1>11 DEF HeadInv

LEMMA HeaderTo ==
  ASSUME r.state \in State, ch \in Char, HeaderLineTo # "invalid"
  PROVE  \/ HeaderEdge(r.state, ch, HeaderLineTo)
         \/ r.state = "name" /\ ch = "/" /\ HeaderLineTo = "ignore_line"
  BY HeaderMove DEF HeaderLineTo

\* The pointers after a character of a header line.
LEMMA HeaderLineMoved ==
  ASSUME r \in RequestT, NEW to
  PROVE  LET w == HeaderLineChar(to) IN
         /\ w.state = to
         /\ w.header_name_start = (IF r.state = "start" THEN p ELSE r.header_name_start)
         /\ w.header_name_end = (IF r.state = "name" /\ ch \in {":", CR, LF} THEN p ELSE r.header_name_end)
         /\ w.header_start = (IF ValueStarts THEN p ELSE r.header_start)
         /\ w.header_end = (IF ValueEnds THEN p ELSE r.header_end)
  BY HeaderLineCharFields

LEMMA PointersMove ==
  ASSUME Types, Pointers, mode = "headers", More, HeaderLineTo \notin {"done", "header_done", "invalid"},
         r' = HeaderLineChar(HeaderLineTo), p' = p + 1, mode' = mode
  PROVE  Pointers' /\ HeaderLineTo \in State /\ LineStart \in Int /\ LineStart' \in Int /\ LineStart <= LineStart'
<1> DEFINE to == HeaderLineTo  st == r.state
           a == r.header_name_start  b == r.header_name_end  c == r.header_start  d == r.header_end
           a1 == r'.header_name_start  b1 == r'.header_name_end  c1 == r'.header_start  d1 == r'.header_end
<1>1. p \in Nat /\ ch \in Char /\ st \in State /\ 1 <= p
  BY Reading
<1>2. a \in Int /\ b \in Int /\ c \in Int /\ d \in Int
  BY DEF Types, RequestT
<1>3. /\ r'.state = to
      /\ a1 = (IF st = "start" THEN p ELSE a)
      /\ b1 = (IF st = "name" /\ ch \in {":", CR, LF} THEN p ELSE b)
      /\ c1 = (IF ValueStarts THEN p ELSE c)
      /\ d1 = (IF ValueEnds THEN p ELSE d)
  BY HeaderLineMoved DEF Types
<1>4. /\ st \in InHeaders
      /\ st \in InLine => 1 <= a /\ a < p
      /\ st \in InLine \ {"name"} => a < b /\ b < p
      /\ st \in {"value", "space_after_value"} => b < c /\ c < p
      /\ st = "space_after_value" => c <= d /\ d < p
      /\ st = "almost_done" => b <= c /\ c <= d /\ d < p
  BY DEF Pointers
<1>5. HeaderEdge(st, ch, to) \/ (st = "name" /\ ch = "/" /\ to = "ignore_line")
  BY <1>1, HeaderTo
<1>6. /\ to \in InHeaders
      /\ to \in InLine => 1 <= a1 /\ a1 < p + 1
      /\ to \in InLine \ {"name"} => a1 < b1 /\ b1 < p + 1
      /\ to \in {"value", "space_after_value"} => b1 < c1 /\ c1 < p + 1
      /\ to = "space_after_value" => c1 <= d1 /\ d1 < p + 1
      /\ to = "almost_done" => b1 <= c1 /\ c1 <= d1 /\ d1 < p + 1
      /\ to \in InLine => a1 = (IF st \in InLine THEN a ELSE p)
  <2> DEFINE vs == ValueStarts  ve == ValueEnds
  <2>1. /\ vs <=> (st = "name" /\ ch \in {CR, LF}) \/ (st = "space_before_value" /\ ch # SP)
        /\ ve <=> \/ st \in {"start", "name", "space_before_value", "value"} /\ ch \in {CR, LF}
                  \/ st = "value" /\ ch = SP
    BY DEF ValueStarts, ValueEnds
  <2>2. c1 = (IF vs THEN p ELSE c) /\ d1 = (IF ve THEN p ELSE d)
    BY <1>3
  <2> HIDE DEF vs, ve, to, a, b, c, d, a1, b1, c1, d1, st
  <2>3. CASE st = "start"
    BY <1>1, <1>2, <1>3, <1>5, <2>1, <2>2, <2>3 DEF HeaderEdge, InHeaders, InLine, to, CR, LF
  <2>4. CASE st = "name"
    BY <1>1, <1>2, <1>3, <1>4, <1>5, <2>1, <2>2, <2>4 DEF HeaderEdge, InHeaders, InLine, to, CR, LF
  <2>5. CASE st = "space_before_value"
    BY <1>1, <1>2, <1>3, <1>4, <1>5, <2>1, <2>2, <2>5 DEF HeaderEdge, InHeaders, InLine, to, CR, LF, SP
  <2>6. CASE st = "value"
    BY <1>1, <1>2, <1>3, <1>4, <1>5, <2>1, <2>2, <2>6 DEF HeaderEdge, InHeaders, InLine, to, CR, LF, SP
  <2>7. CASE st = "space_after_value"
    BY <1>1, <1>2, <1>3, <1>4, <1>5, <2>1, <2>2, <2>7 DEF HeaderEdge, InHeaders, InLine, to, CR, LF, SP
  <2>8. CASE st = "almost_done"
    BY <1>1, <1>2, <1>3, <1>4, <1>5, <2>1, <2>2, <2>8 DEF HeaderEdge, InHeaders, InLine, to, CR, LF, SP
  <2>9. CASE st \in {"ignore_line", "header_almost_done"}
    BY <1>1, <1>2, <1>3, <1>4, <1>5, <2>1, <2>2, <2>9 DEF HeaderEdge, InHeaders, InLine, to, CR, LF, SP
  <2>10. QED
    BY <1>4, <2>3, <2>4, <2>5, <2>6, <2>7, <2>8, <2>9 DEF InHeaders, InLine
<1>7. Pointers'
  BY <1>3, <1>6 DEF Pointers
<1>8. to \in State
  BY <1>6, HeaderStates DEF InHeaders, InLine
<1>9. LineStart = (IF st \in InLine THEN a ELSE p) /\ LineStart' = (IF to \in InLine THEN a1 ELSE p + 1)
  BY <1>3 DEF LineStart
<1> HIDE DEF a, a1, st, to
<1>10. LineStart \in Int /\ LineStart' \in Int /\ LineStart <= LineStart'
  BY <1>1, <1>2, <1>4, <1>6, <1>9
<1>11. QED
  BY <1>7, <1>8, <1>10 DEF to

LEMMA HeaderLineCharStep == HeadInv /\ header_line_char => HeadInv'
<1> SUFFICES ASSUME HeadInv, header_line_char PROVE HeadInv'
  OBVIOUS
<1>1. /\ mode = "headers" /\ More /\ HeaderLineTo \notin {"done", "header_done", "invalid"}
      /\ r' = HeaderLineChar(HeaderLineTo) /\ p' = p + 1
      /\ UNCHANGED <<input, text, mode, elements, chain, sent, result>>
  BY DEF header_line_char
<1>2. Types /\ Pointers /\ ElementsApart /\ SendResult
  BY DEF HeadInv
<1>3. p \in Nat /\ p + 1 \in 1..(input.read + 1)
  BY <1>1, <1>2, Reading
<1>4. Pointers' /\ HeaderLineTo \in State /\ LineStart \in Int /\ LineStart' \in Int /\ LineStart <= LineStart'
  BY <1>1, <1>2, PointersMove
<1>5. r' \in RequestT
  BY <1>1, <1>2, <1>3, <1>4, HeaderLineCharType DEF Types
<1>6. Types'
  BY <1>1, <1>2, <1>3, <1>5 DEF Types
<1>7. ElementsApart'
  BY <1>1, <1>2, <1>4, ElementsKept DEF Types
<1>8. SendResult'
  BY <1>1, <1>2 DEF SendResult
<1>9. QED
  BY <1>4, <1>6, <1>7, <1>8 DEF HeadInv

\* Where a complete header line has its pointers.
LEMMA LineDone ==
  ASSUME Types, Pointers, mode = "headers", More, HeaderLineTo = "done"
  PROVE  LET q == HeaderLineChar("start") IN
         /\ r.state \in InLine /\ ch = LF
         /\ q \in RequestT /\ q.state = "start" /\ q.header_name_start = r.header_name_start
         /\ 1 <= q.header_name_start /\ q.header_name_start < q.header_name_end
         /\ q.header_name_end <= q.header_start /\ q.header_start <= q.header_end /\ q.header_end <= p
<1> DEFINE q == HeaderLineChar("start")  st == r.state
           a == r.header_name_start  b == r.header_name_end  c == r.header_start  d == r.header_end
           a1 == q.header_name_start  b1 == q.header_name_end  c1 == q.header_start  d1 == q.header_end
           vs == ValueStarts  ve == ValueEnds
<1>1. p \in Nat /\ ch \in Char /\ st \in State /\ 1 <= p
  BY Reading
<1>2. a \in Int /\ b \in Int /\ c \in Int /\ d \in Int
  BY DEF Types, RequestT
<1>3. /\ q.state = "start"
      /\ a1 = (IF st = "start" THEN p ELSE a)
      /\ b1 = (IF st = "name" /\ ch \in {":", CR, LF} THEN p ELSE b)
      /\ c1 = (IF vs THEN p ELSE c)
      /\ d1 = (IF ve THEN p ELSE d)
  BY HeaderLineMoved DEF Types
<1>4. /\ st \in InHeaders
      /\ st \in InLine => 1 <= a /\ a < p
      /\ st \in InLine \ {"name"} => a < b /\ b < p
      /\ st \in {"value", "space_after_value"} => b < c /\ c < p
      /\ st = "space_after_value" => c <= d /\ d < p
      /\ st = "almost_done" => b <= c /\ c <= d /\ d < p
  BY DEF Pointers
<1>5. HeaderEdge(st, ch, "done")
  BY <1>1, HeaderTo
<1>6. ch = LF /\ st \in InLine
  BY <1>5 DEF HeaderEdge, InLine
<1>7. /\ vs <=> st \in {"name", "space_before_value"}
      /\ ve <=> st \in {"name", "space_before_value", "value"}
  BY <1>6 DEF ValueStarts, ValueEnds, SP, LF, InLine
<1>8. q \in RequestT
  BY <1>1, HeaderLineCharType, HeaderStates DEF Types
<1> HIDE DEF q, a, b, c, d, a1, b1, c1, d1, st, vs, ve
<1>9. a1 = a /\ 1 <= a1 /\ a1 < b1 /\ b1 <= c1 /\ c1 <= d1 /\ d1 <= p
  BY <1>1, <1>2, <1>3, <1>4, <1>6, <1>7 DEF InLine
<1>10. QED
  BY <1>3, <1>6, <1>8, <1>9 DEF q, a, a1, b1, c1, d1, st

LEMMA LowcaseType ==
  ASSUME NEW t \in Seq(Char), NEW s
  PROVE  lowcase_key_copy_from_origin(t, s) \in Seq(Char) /\ Len(lowcase_key_copy_from_origin(t, s)) = Len(t)
<1> DEFINE f == lowcase_key_copy_from_origin(t, s)
<1>1. \A c \in Char : tolower[c] \in Char
  BY DEF tolower, Char, Letter, Upper
<1>2. f = [k \in 1..Len(t) |-> IF k \in s.from..(s.from + s.len - 1) THEN tolower[t[k]] ELSE t[k]]
  BY DEF lowcase_key_copy_from_origin
<1>3. \A k \in 1..Len(t) : (IF k \in s.from..(s.from + s.len - 1) THEN tolower[t[k]] ELSE t[k]) \in Char
  BY <1>1
<1>4. f \in [1..Len(t) -> Char]
  BY <1>2, <1>3
<1>5. Len(t) \in Nat
  OBVIOUS
<1> HIDE DEF f
<1>6. f \in Seq(Char) /\ Len(f) = Len(t)
  BY <1>4, <1>5
<1>7. QED
  BY <1>6 DEF f

LEMMA TextAfterType ==
  ASSUME text \in Seq(Char), NEW q
  PROVE  TextAfter(q) \in Seq(Char) /\ Len(TextAfter(q)) = Len(text)
<1> DEFINE t == lowcase_key_copy_from_origin(text, Key(q))
<1>1. t \in Seq(Char) /\ Len(t) = Len(text)
  BY LowcaseType
<1>2. TextAfter(q) = IF IsHost(Chars(text, Key(q))) /\ Host(q).ok THEN lowcase_key_copy_from_origin(t, Val(q)) ELSE t
  BY DEF TextAfter
<1> HIDE DEF t
<1>3. lowcase_key_copy_from_origin(t, Val(q)) \in Seq(Char) /\ Len(lowcase_key_copy_from_origin(t, Val(q))) = Len(t)
  BY <1>1, LowcaseType
<1>4. QED
  BY <1>1, <1>2, <1>3

\* The element made of a line lies where the pointers of the line say.
LEMMA ElementPlaced ==
  ASSUME Types, NEW q \in RequestT, 1 <= q.header_name_start, q.header_name_start < q.header_name_end,
         q.header_name_end <= q.header_start, q.header_start <= q.header_end, q.header_end <= p, More
  PROVE  /\ Element(q) \in AnElement
         /\ Element(q).key = Key(q) /\ Element(q).value.from = q.header_start
         /\ Placed(Element(q), p + 1) /\ Element(q).key.from = q.header_name_start
         /\ ~IsHost(Chars(text, Key(q))) => Element(q).value = Val(q)
         /\ IsHost(Chars(text, Key(q))) => Element(q).value.len = http_process_host(Chars(text, Val(q))).length
<1> DEFINE a == q.header_name_start  b == q.header_name_end  c == q.header_start  d == q.header_end
           v == Chars(text, Val(q))  n == Host(q).length  host == IsHost(Chars(text, Key(q)))
           e == Element(q)
<1>1. a \in Int /\ b \in Int /\ c \in Int /\ d \in Int
  BY DEF RequestT
<1>2. p \in Nat /\ p \in 1..Len(text) /\ text \in Seq(Char)
  BY Reading DEF Types
<1>3. v = SubSeq(text, c, c + (d - c) - 1)
  BY DEF Chars, Val, Span
<1>4. v \in Seq(Char) /\ Len(v) = d - c
  <2> HIDE DEF v, a, b, c, d
  <2>1. c \in Int /\ c + (d - c) - 1 \in Int /\ c >= 1 /\ c + (d - c) - 1 <= Len(text) /\ Len(text) \in Nat
    BY <1>1, <1>2 DEF a, b, c, d
  <2>2. c + (d - c) - 1 = d - 1 /\ d >= c
    BY <1>1 DEF c, d
  <2> DEFINE m == d - 1
  <2>3. v = SubSeq(text, c, m)
    BY <1>3, <2>2
  <2>4. m \in Int /\ m <= Len(text) /\ m - c + 1 = d - c /\ c <= m + 1
    BY <1>1, <2>1, <2>2
  <2> HIDE DEF m
  <2>5. v \in Seq(Char) /\ Len(v) = IF c <= m THEN m - c + 1 ELSE 0
    BY <1>2, <2>1, <2>3, <2>4, SubSeqProperties
  <2>6. QED
    BY <1>1, <2>1, <2>4, <2>5
<1>5. n \in 0..(d - c)
  <2>1. v = <<>> <=> Len(v) = 0
    BY <1>4
  <2>2. Len(v) \in Nat
    BY <1>4
  <2>3. http_process_host(v).length \in 0..Len(v)
    BY <2>1, <2>2, HostWithin
  <2>4. QED
    BY <1>4, <2>3 DEF Host
<1>6. Key(q) = [from |-> a, len |-> b - a] /\ Val(q) = [from |-> c, len |-> d - c]
  BY DEF Key, Val, Span
<1>7. e = [key |-> Key(q), value |-> IF host THEN [Val(q) EXCEPT !.len = n] ELSE Val(q)]
  BY DEF Element
<1> HIDE DEF a, b, c, d, v, n, host, e
<1>8. [Val(q) EXCEPT !.len = n] = [from |-> c, len |-> n]
  BY <1>6
<1>9. /\ e.key = [from |-> a, len |-> b - a]
      /\ e.value = [from |-> c, len |-> IF host THEN n ELSE d - c]
      /\ e = [key |-> e.key, value |-> e.value]
  BY <1>6, <1>7, <1>8
<1>10. e.key.from = a /\ e.key.len = b - a /\ e.value.from = c /\ e.value.len = (IF host THEN n ELSE d - c)
  BY <1>9
<1>11. e.key \in APiece /\ e.value \in APiece
  BY <1>1, <1>5, <1>9 DEF APiece
<1>12. e \in AnElement
  BY <1>9, <1>11 DEF AnElement
<1>13. Placed(e, p + 1)
  BY <1>1, <1>2, <1>5, <1>10 DEF Placed, a, b, c, d
<1>14. n = http_process_host(v).length
  BY DEF n, v, Host
<1>15. ~host => e.value = Val(q)
  BY <1>7
<1>16. QED
  BY <1>6, <1>9, <1>10, <1>12, <1>13, <1>14, <1>15 DEF e, a, c, host, v

LEMMA HeaderLineDoneStep == HeadInv /\ header_line_done => HeadInv'
<1> SUFFICES ASSUME HeadInv, header_line_done PROVE HeadInv'
  OBVIOUS
<1> DEFINE q == HeaderLineChar("start")  e == Element(q)
<1>1. /\ mode = "headers" /\ More /\ HeaderLineTo = "done" /\ p' = p + 1 /\ r' = q
      /\ UNCHANGED <<input, mode, chain, sent, result>>
      /\ \/ UNCHANGED <<text, elements>>
         \/ text' = TextAfter(q) /\ elements' = Append(elements, e)
  BY DEF header_line_done
<1>2. Types /\ Pointers /\ ElementsApart /\ SendResult
  BY DEF HeadInv
<1>3. p \in Nat /\ 1 <= p /\ p + 1 \in 1..(input.read + 1)
  BY <1>1, <1>2, Reading
<1>4. /\ r.state \in InLine /\ q \in RequestT /\ q.state = "start" /\ q.header_name_start = r.header_name_start
      /\ 1 <= q.header_name_start /\ q.header_name_start < q.header_name_end
      /\ q.header_name_end <= q.header_start /\ q.header_start <= q.header_end /\ q.header_end <= p
  BY <1>1, <1>2, LineDone
<1> HIDE DEF q
<1>5. e \in AnElement /\ Placed(e, p + 1) /\ e.key.from = r.header_name_start
  BY <1>1, <1>2, <1>4, ElementPlaced
<1>6. LineStart = r.header_name_start /\ LineStart \in Int /\ LineStart < p
  BY <1>1, <1>2, <1>4 DEF LineStart, Types, RequestT, Pointers
<1>7. LineStart' = p + 1
  BY <1>1, <1>4 DEF LineStart, InLine
<1> HIDE DEF e
<1>8. Types' /\ ElementsApart'
  <2>1. CASE UNCHANGED <<text, elements>>
    <3>1. Types'
      BY <1>1, <1>2, <1>3, <1>4, <2>1 DEF Types
    <3>2. LineStart' \in Int /\ LineStart <= LineStart'
      BY <1>3, <1>6, <1>7
    <3>3. ElementsApart'
      BY <1>2, <1>6, <2>1, <3>2, ElementsKept DEF Types
    <3>4. QED
      BY <3>1, <3>3
  <2>2. CASE text' = TextAfter(q) /\ elements' = Append(elements, e)
    <3>1. text' \in Seq(Char) /\ Len(text') = Len(text)
      BY <1>2, <2>2, TextAfterType DEF Types
    <3>2. elements \in Seq(AnElement)
      BY <1>2 DEF Types
    <3>3. elements' \in Seq(AnElement)
      BY <1>5, <2>2, <3>2
    <3>4. Types'
      BY <1>1, <1>2, <1>3, <1>4, <3>1, <3>3 DEF Types
    <3> DEFINE n == Len(elements)
    <3>5. /\ n \in Nat /\ Len(elements') = n + 1 /\ DOMAIN elements' = 1..(n + 1)
          /\ elements'[n + 1] = e /\ \A k \in 1..n : elements'[k] = elements[k]
      BY <1>5, <2>2, <3>2
    <3>6. \A k \in 1..n : Placed(elements[k], IF k = n THEN LineStart ELSE elements[k + 1].key.from)
      BY <1>2, <3>2 DEF ElementsApart
    <3> HIDE DEF n
    <3>7. ASSUME NEW k \in 1..(n + 1)
          PROVE  Placed(elements'[k], IF k = n + 1 THEN p + 1 ELSE elements'[k + 1].key.from)
      <4>1. CASE k = n + 1
        BY <1>5, <3>5, <4>1
      <4>2. CASE k = n /\ k # n + 1
        BY <1>5, <1>6, <3>5, <3>6, <4>2
      <4>3. CASE k # n /\ k # n + 1
        <5>1. k \in 1..n /\ k + 1 \in 1..n
          BY <3>5, <4>3
        <5>2. QED
          BY <3>5, <3>6, <4>3, <5>1
      <4>4. QED
        BY <4>1, <4>2, <4>3
    <3>8. ElementsApart'
      BY <1>7, <3>5, <3>7 DEF ElementsApart
    <3>9. QED
      BY <3>4, <3>8
  <2>3. QED
    BY <1>1, <2>1, <2>2
<1>9. Pointers'
  BY <1>1, <1>4 DEF Pointers, InHeaders, InLine
<1>10. SendResult'
  BY <1>1, <1>2 DEF SendResult
<1>11. QED
  BY <1>8, <1>9, <1>10 DEF HeadInv

LEMMA PieceType == ASSUME NEW x \in Int, NEW y \in Int PROVE Piece(x, y) \in APiece
  BY DEF Piece, APiece

LEMMA HeaderPiecesType == ASSUME elements \in Seq(AnElement) PROVE HeaderPieces \in Pieces
<1> DEFINE g(k) == <<Piece(elements[k].key.from, elements[k].key.len + 2),
                     Piece(elements[k].value.from, elements[k].value.len + (IF k = Len(elements) THEN 4 ELSE 2))>>
           s == [k \in DOMAIN elements |-> g(k)]
<1>1. ASSUME NEW k \in DOMAIN elements PROVE g(k) \in Seq(APiece)
  <2>1. elements[k].key.from \in Int /\ elements[k].key.len \in Int /\ elements[k].value.from \in Int /\ elements[k].value.len \in Int
    BY ElementType
  <2> DEFINE x == Piece(elements[k].key.from, elements[k].key.len + 2)
             y == Piece(elements[k].value.from, elements[k].value.len + (IF k = Len(elements) THEN 4 ELSE 2))
  <2>2. x \in APiece
    BY <2>1, PieceType
  <2>3. y \in APiece
    BY <2>1, PieceType
  <2> HIDE DEF x, y
  <2>4. <<x, y>> \in Seq(APiece)
    BY <2>2, <2>3
  <2>5. QED
    BY <2>4 DEF x, y
<1> HIDE DEF g
<1>2. s \in [1..Len(elements) -> Seq(APiece)] /\ Len(elements) \in Nat
  BY <1>1
<1> HIDE DEF s
<1>3. s \in Seq(Seq(APiece))
  BY <1>2
<1>4. FlattenSeq(s) \in Seq(APiece)
  BY <1>3, FlattenType
<1>5. QED
  BY <1>4 DEF HeaderPieces, Pieces, s, g

LEMMA ChainsType ==
  ASSUME r \in RequestT, elements \in Seq(AnElement)
  PROVE  http_construct_request_chains \in Pieces /\ construct_response_chains \in Pieces
<1> DEFINE x == Piece(r.request_start, r.method_end - r.request_start + 2)
           y == Piece(r.uri, r.uri_end - r.uri_start + 1)
           z == Piece(r.http_protocol, r.request_end - r.http_protocol + 2)
           u == Piece(r.request_start, r.status_end - r.request_start + 2)
           h == HeaderPieces
<1>0. /\ r.request_start \in Int /\ r.method_end - r.request_start + 2 \in Int
      /\ r.uri \in Int /\ r.uri_end - r.uri_start + 1 \in Int
      /\ r.http_protocol \in Int /\ r.request_end - r.http_protocol + 2 \in Int
      /\ r.status_end - r.request_start + 2 \in Int
  <2>1. /\ r.request_start \in Int /\ r.method_end \in Int /\ r.uri \in Int /\ r.uri_end \in Int /\ r.uri_start \in Int
        /\ r.http_protocol \in Int /\ r.request_end \in Int /\ r.status_end \in Int
    BY DEF RequestT
  <2>2. \A i, j \in Int : i - j + 1 \in Int /\ i - j + 2 \in Int
    OBVIOUS
  <2>3. QED
    BY <2>1, <2>2, Zenon
<1>1. x \in APiece
  BY <1>0, PieceType
<1>2. y \in APiece
  BY <1>0, PieceType
<1>3. z \in APiece
  BY <1>0, PieceType
<1>4. u \in APiece
  BY <1>0, PieceType
<1>5. h \in Seq(APiece)
  BY HeaderPiecesType DEF Pieces
<1>6. http_construct_request_chains = <<x, y, z>> \o h /\ construct_response_chains = <<u>> \o h
  BY DEF http_construct_request_chains, construct_response_chains
<1> HIDE DEF x, y, z, u, h
<1>7. <<x, y, z>> \o h \in Seq(APiece)
  BY <1>1, <1>2, <1>3, <1>5
<1>8. <<u>> \o h \in Seq(APiece)
  BY <1>4, <1>5
<1>9. QED
  BY <1>6, <1>7, <1>8 DEF Pieces

LEMMA HeadersDoneStep == HeadInv /\ headers_done => HeadInv'
<1> SUFFICES ASSUME HeadInv, headers_done PROVE HeadInv'
  OBVIOUS
<1>1. /\ mode = "headers" /\ More /\ r' = HeaderLineChar("start") /\ p' = p + 1 /\ mode' \in {"send", "crashed"}
      /\ chain' \in {chain, http_construct_request_chains, construct_response_chains}
      /\ UNCHANGED <<input, text, elements, sent, result>>
  BY DEF headers_done
<1>2. Types /\ Pointers /\ ElementsApart /\ SendResult
  BY DEF HeadInv
<1>3. p \in Nat /\ p + 1 \in 1..(input.read + 1)
  BY <1>1, <1>2, Reading
<1>4. r' \in RequestT
  BY <1>1, <1>2, <1>3, HeaderLineCharType, HeaderStates DEF Types
<1>5. chain' \in Pieces
  BY <1>1, <1>2, ChainsType DEF Types
<1>6. Types'
  BY <1>1, <1>2, <1>3, <1>4, <1>5 DEF Types, Modes
<1>7. Pointers'
  BY <1>1 DEF Pointers
<1>8. p <= p'
  BY <1>1, <1>3
<1>9. ElementsApart'
  BY <1>1, <1>2, <1>6, <1>8, ElementsBehind
<1>10. SendResult'
  BY <1>1, <1>2 DEF SendResult
<1>11. QED
  BY <1>6, <1>7, <1>9, <1>10 DEF HeadInv

LEMMA SendStep == HeadInv /\ send => HeadInv'
<1> SUFFICES ASSUME HeadInv, send PROVE HeadInv'
  OBVIOUS
<1>1. /\ mode = "send" /\ mode' \in {"request_line", "idle"} /\ UNCHANGED <<input, text, p, r, elements, chain>>
      /\ \/ \E n \in Writes :
              result' = [wrote |-> n, total |-> Upto(chain, Len(chain)), rv |-> send_chains(chain, n)]
         \/ UNCHANGED result
  BY DEF send
<1>2. Types /\ Pointers /\ ElementsApart /\ SendResult
  BY DEF HeadInv
<1>3. Types'
  BY <1>1, <1>2 DEF Types, Modes
<1>4. Pointers'
  BY <1>1 DEF Pointers
<1>5. ElementsApart'
  BY <1>1, <1>2, <1>3, ElementsBehind DEF Types
<1>6. SendResult'
  <2>1. CASE UNCHANGED result
    BY <1>2, <2>1 DEF SendResult
  <2>2. ASSUME NEW n \in Writes, result' = [wrote |-> n, total |-> Upto(chain, Len(chain)), rv |-> send_chains(chain, n)]
        PROVE  SendResult'
    <3>1. /\ ~\E k \in DOMAIN chain : chain[k].from < 1 \/ chain[k].len < 0
          /\ n \in 1..Upto(chain, Len(chain))
      BY DEF Writes
    <3>2. chain \in Pieces /\ \A k \in DOMAIN chain : chain[k].len \in Int
      <4>1. chain \in Pieces
        BY <1>2 DEF Types
      <4>2. ASSUME NEW k \in DOMAIN chain PROVE chain[k].len \in Int
        <5>1. chain[k] \in APiece
          BY <4>1 DEF Pieces
        <5>2. QED
          BY <5>1 DEF APiece
      <4>3. QED
        BY <4>1, <4>2
    <3>3. Lengths(chain)
      BY <3>1, <3>2 DEF Lengths
    <3>4. Upto(chain, Len(chain)) \in Nat
      <4>1. Len(chain) \in 0..Len(chain)
        BY <3>2 DEF Pieces
      <4>2. QED
        BY <3>2, <3>3, <4>1, UptoNat
    <3>5. n \in Nat
      BY <3>1, <3>4
    <3>6. send_chains(chain, n) = IF n >= Upto(chain, Len(chain)) THEN LOK ELSE LAGAIN
      BY <3>2, <3>3, <3>5, SendChainsCounts
    <3> DEFINE u == Upto(chain, Len(chain))  s == send_chains(chain, n)
    <3> HIDE DEF u, s
    <3>7. result'.wrote = n /\ result'.total = u /\ result'.rv = s
      BY <2>2 DEF u, s
    <3>8. s = (IF n >= u THEN LOK ELSE LAGAIN) /\ u \in Nat /\ n \in 1..u
      BY <3>1, <3>4, <3>6 DEF u, s
    <3>9. s = LOK <=> n = u
      BY <3>5, <3>8 DEF LOK, LAGAIN
    <3>10. QED
      BY <3>7, <3>9 DEF SendResult
  <2>3. QED
    BY <1>1, <2>1, <2>2
<1>7. QED
  BY <1>3, <1>4, <1>5, <1>6 DEF HeadInv

LEMMA HeadNext == HeadInv /\ [Next]_vars => HeadInv'
<1> SUFFICES ASSUME HeadInv, [Next]_vars PROVE HeadInv'
  OBVIOUS
<1>1. CASE request_line_ends \/ status_line_ends \/ header_line_wild \/ headers_spin \/ send_wild
  <2>1. mode' \in {"idle", "crashed", "spinning"} /\ UNCHANGED <<input, text, p, r, elements, chain, result>>
    BY <1>1 DEF request_line_ends, status_line_ends, header_line_wild, headers_spin, send_wild
  <2>2. mode' \in Modes /\ mode' # "headers"
    BY <2>1 DEF Modes
  <2>3. QED
    BY <2>1, <2>2, OnlyMode
<1>2. CASE UNCHANGED vars \/ Ended
  <2>1. mode' = mode /\ UNCHANGED <<input, text, p, r, elements, chain, result>>
    BY <1>2 DEF vars, Ended
  <2>2. mode' \in Modes
    BY <2>1 DEF HeadInv, Types
  <2>3. QED
    BY <2>1, <2>2, OnlyMode
<1>3. CASE request_line_char \/ request_line_done
  BY <1>3, RequestLineCharStep, RequestLineDoneStep
<1>4. CASE status_line_char \/ status_line_done
  BY <1>4, StatusLineCharStep, StatusLineDoneStep
<1>5. CASE header_line_char \/ header_line_done \/ headers_done
  BY <1>5, HeaderLineCharStep, HeaderLineDoneStep, HeadersDoneStep
<1>6. CASE send
  BY <1>6, SendStep
<1>7. QED
  BY <1>1, <1>2, <1>3, <1>4, <1>5, <1>6 DEF Next

LEMMA HeadInvariant == Spec => []HeadInv
  BY HeadInit, HeadNext, PTL DEF Spec

LEMMA HeadInvImplies == HeadInv => TypeOK /\ ElementsInside
<1> SUFFICES ASSUME HeadInv PROVE TypeOK /\ ElementsInside
  OBVIOUS
<1>1. Types /\ Pointers /\ ElementsApart
  BY DEF HeadInv
<1>2. p \in Int /\ LineStart \in Int /\ LineStart <= p
  <2>1. p \in Int /\ r.header_name_start \in Int
    BY <1>1, HeadAssumption DEF Types, RequestT
  <2>2. QED
    BY <1>1, <2>1 DEF LineStart, Pointers
<1>3. ASSUME NEW k \in DOMAIN elements
      PROVE  /\ elements[k].value.from \in Int /\ elements[k].value.len \in Int
             /\ Placed(elements[k], IF k = Len(elements) THEN LineStart ELSE elements[k + 1].key.from)
  BY <1>1, ElementType DEF Types, ElementsApart
<1>4. TypeOK
  BY <1>1, <1>3 DEF TypeOK, Types, Modes, RequestT, Placed
<1>5. ElementsInside
  BY <1>2, <1>3 DEF ElementsInside, Placed
<1>6. QED
  BY <1>4, <1>5

\* Types of the request's fields, the elements and the chains, for every
\* buffer and every count writev may return.
THEOREM TypeCorrect == Spec => []TypeOK
<1>1. HeadInv => TypeOK
  BY HeadInvImplies
<1>2. QED
  BY <1>1, HeadInvariant, PTL

\* Whatever characters the buffer holds and wherever it was cut, the elements
\* http_process_request_headers makes lie in what was read, one behind the
\* other, also where the request_t was dirty at first.
THEOREM Inside == Spec => []ElementsInside
<1>1. HeadInv => ElementsInside
  BY HeadInvImplies
<1>2. QED
  BY <1>1, HeadInvariant, PTL

\* send_chains returns LOK exactly when writev has written all of the chain,
\* however many pieces the chain has and wherever the write stopped.
THEOREM SendResultRight == Spec => []SendResult
<1>1. HeadInv => SendResult
  BY DEF HeadInv
<1>2. QED
  BY <1>1, HeadInvariant, PTL

-----------------------------------------------------------------------------
(* What the header loop finds: the elements of a head and its parts.       *)

Cur == Len(sent) + 1
heads == input.heads
fields(k) == heads[k].fields

\* What the line that starts at from has set in the request_t q so far, the
\* parser at x, by the state it is in.
LinePlace(q, x, f, from) ==
  LET n == Len(f.name)  s == Len(f.sep)  v == Len(f.value)  w == Len(f.pad)
      after == from + n
      value == after + s + (IF f.value = <<>> THEN w ELSE 0)
  IN
  \/ /\ q.state = "name" /\ x <= after
     /\ \A i \in 1..(x - from) : f.name[i] \in NameChar
  \/ /\ q.state # "name" /\ ValidName(f.name) /\ q.header_name_end = after
     /\ \/ /\ q.state = "space_before_value" /\ f.sep # <<>>
           /\ x \in (after + 1)..value
        \/ /\ q.state = "value" /\ v > 0 /\ q.header_start = value
           /\ x \in (value + 1)..(value + v)
        \/ /\ q.state = "space_after_value" /\ v > 0 /\ q.header_start = value
           /\ \/ x \in (value + 2)..(value + v - 1)
              \/ x \in (value + v + 1)..(value + v + w) /\ q.header_end = value + v
        \/ /\ q.state = "almost_done" /\ f.eol = CRLF
           /\ x = from + Len(FieldText(f)) - 1
           /\ q.header_start = value /\ q.header_end = value + v

\* A line whose name was found to be no name, and one whose name may be one.
InvalidLine(q, f) == ~ValidName(f.name) /\ (q.state = "ignore_line" \/ (q.state \in InLine /\ q.invalid_header))
ValidLine(q, x, f, from) == ~q.invalid_header /\ q.state \in InLine /\ LinePlace(q, x, f, from)

\* The parser is at header line j of head k, or behind the last one.
FieldPlace(in, q, x, k, j) ==
  LET from == FieldFrom(in, k, j)  f == in.heads[k].fields[j]  n == Len(in.heads[k].fields) IN
  \/ q.state = "start" /\ x = from
  \/ q.state = "header_almost_done" /\ j = n + 1 /\ x = from + 1 /\ in.heads[k].end = CRLF
  \/ /\ j <= n
     /\ x \in (from + 1)..(from + Len(FieldText(f)) - 1)
     /\ q.state \in InLine => q.header_name_start = from
     /\ InvalidLine(q, f) \/ ValidLine(q, x, f, from)

\* Element e stands for header line j of head k.
Fits(in, e, k, j) ==
  LET f == in.heads[k].fields[j]  x == Expected(in, k, j) IN
  /\ e.key = x.key /\ e.value.from = x.value.from
  /\ e.value.len = IF IsHost(f.name) THEN http_process_host(f.value).length ELSE x.value.len

\* The elements es stand for the valid ones of the first n header lines.
ElementsFit(in, es, k, n) ==
  LET js == ValidUpto(in, k, n) IN
  Len(es) = Len(js) /\ \A i \in DOMAIN js : Fits(in, es[i], k, js[i])

Untouched == \A x \in LineStart..Len(text) : text[x] = Text(input)[x]

SentFit == Len(sent) <= Len(heads) /\ \A k \in DOMAIN sent : ElementsFit(input, sent[k].elements, k, Len(fields(k)))

Place ==
  /\ mode \in {"request_line", "status_line"} =>
       \/ Cur = Len(heads) + 1 /\ p = From(input, Cur)
       \/ /\ Cur \in DOMAIN heads
          /\ p \in From(input, Cur)..(From(input, Cur) + Len(LineText(heads[Cur])) - 1)
          /\ r.state = "start" => p = From(input, Cur)
  /\ mode = "headers" =>
       /\ Cur \in DOMAIN heads
       /\ \E j \in 1..(Len(fields(Cur)) + 1) : FieldPlace(input, r, p, Cur, j) /\ ElementsFit(input, elements, Cur, j - 1)
  /\ mode = "send" =>
       Cur \in DOMAIN heads /\ p = From(input, Cur + 1) /\ ElementsFit(input, elements, Cur, Len(fields(Cur)))

AgreeInv == sent \in Seq([chain : Pieces, elements : Seq(AnElement)]) /\ SentFit /\ Untouched /\ Place

-----------------------------------------------------------------------------
(* Where the parts of a buffer lie.                                        *)

\* The first n pieces, one behind the other.
Pre(s, n) == FlattenSeq([j \in 1..n |-> s[j]])

LEMMA PreType == ASSUME NEW S, NEW s, NEW n \in Nat, \A i \in 1..n : s[i] \in Seq(S) PROVE Pre(s, n) \in Seq(S)
<1> DEFINE t == [j \in 1..n |-> s[j]]
<1>1. t \in [1..n -> Seq(S)]
  OBVIOUS
<1> HIDE DEF t
<1>2. t \in Seq(Seq(S))
  BY <1>1
<1>3. FlattenSeq(t) \in Seq(S)
  BY <1>2, FlattenType
<1>4. QED
  BY <1>3 DEF t, Pre

LEMMA PreNone == ASSUME NEW s PROVE Pre(s, 0) = <<>>
<1>1. [j \in 1..0 |-> s[j]] = <<>>
  OBVIOUS
<1>2. QED
  BY <1>1, FlattenEmpty DEF Pre

LEMMA PreStep ==
  ASSUME NEW S, NEW s, NEW n \in Nat \ {0}, \A i \in 1..n : s[i] \in Seq(S)
  PROVE  /\ Pre(s, n) = Pre(s, n - 1) \o s[n]
         /\ Pre(s, n) \in Seq(S) /\ Pre(s, n - 1) \in Seq(S) /\ s[n] \in Seq(S)
         /\ Len(Pre(s, n)) = Len(Pre(s, n - 1)) + Len(s[n])
         /\ Len(Pre(s, n - 1)) \in Nat /\ Len(s[n]) \in Nat
<1>1. n - 1 \in Nat /\ n \in Nat /\ n \in 1..n /\ \A i \in 1..(n - 1) : s[i] \in Seq(S)
  OBVIOUS
<1>2. Pre(s, n) \in Seq(S) /\ Pre(s, n - 1) \in Seq(S) /\ s[n] \in Seq(S)
  BY <1>1, PreType
<1>3. Pre(s, n) = Pre(s, n - 1) \o s[n]
  BY FlattenStep DEF Pre
<1>4. QED
  BY <1>2, <1>3

AllIn(s, n, S) == \A i \in 1..n : s[i] \in Seq(S)
PreHas(s, n, k) ==
  /\ Len(Pre(s, k)) <= Len(Pre(s, n))
  /\ \A i \in 1..Len(s[k]) : Pre(s, n)[Len(Pre(s, k - 1)) + i] = s[k][i]

\* Piece k lies behind the k - 1 before it.
LEMMA PreHasAt == ASSUME NEW S, NEW s, NEW n \in Nat, AllIn(s, n, S), NEW k \in 1..n PROVE PreHas(s, n, k)
<1> SUFFICES /\ Len(Pre(s, k)) <= Len(Pre(s, n))
             /\ \A i \in 1..Len(s[k]) : Pre(s, n)[Len(Pre(s, k - 1)) + i] = s[k][i]
  BY DEF PreHas
<1> \A i \in 1..n : s[i] \in Seq(S)
  BY DEF AllIn
<1> DEFINE Ok(m) == /\ Len(Pre(s, k)) <= Len(Pre(s, m))
                    /\ \A i \in 1..Len(s[k]) : Pre(s, m)[Len(Pre(s, k - 1)) + i] = s[k][i]
           Bad == {m \in k..n : ~Ok(m)}
<1>0. \A m \in k..n : m \in Nat \ {0} /\ \A i \in 1..m : s[i] \in Seq(S)
  OBVIOUS
<1>1. SUFFICES ASSUME Bad # {} PROVE FALSE
  OBVIOUS
<1>2. PICK m \in Bad : \A y \in Bad : m <= y
  <2>1. Bad \subseteq Nat
    OBVIOUS
  <2> HIDE DEF Bad
  <2>2. QED
    BY <1>1, <2>1, LeastNumber
<1>3. m \in k..n /\ ~Ok(m)
  OBVIOUS
<1>4. k \in k..n
  OBVIOUS
<1> DEFINE a == Pre(s, k - 1)  b == s[k]  c == Pre(s, m - 1)  d == s[m]
<1>5. /\ Pre(s, k) = a \o b /\ a \in Seq(S) /\ b \in Seq(S) /\ Pre(s, k) \in Seq(S)
      /\ Len(Pre(s, k)) = Len(a) + Len(b) /\ Len(a) \in Nat /\ Len(b) \in Nat
  BY <1>0, <1>4, PreStep
<1>6. /\ Pre(s, m) = c \o d /\ c \in Seq(S) /\ d \in Seq(S) /\ Len(Pre(s, m)) = Len(c) + Len(d)
      /\ Len(c) \in Nat /\ Len(d) \in Nat
  BY <1>0, <1>3, PreStep
<1>7. m # k
  <2>1. \A i \in 1..Len(b) : (a \o b)[Len(a) + i] = b[i]
    <3> HIDE DEF a, b
    <3>1. QED
      BY <1>5
  <2>2. Ok(k)
    <3> HIDE DEF a, b
    <3>1. Len(Pre(s, k)) <= Len(Pre(s, k))
      BY <1>5
    <3>2. QED
      BY <1>5, <2>1, <3>1 DEF a, b
  <2>3. QED
    BY <1>3, <2>2
<1>8. m - 1 \in k..n /\ m - 1 \notin Bad
  BY <1>2, <1>3, <1>7
<1>9. Ok(m - 1)
  BY <1>8
<1>10. Len(Pre(s, k)) <= Len(c) /\ \A i \in 1..Len(b) : c[Len(a) + i] = b[i]
  BY <1>9
<1> HIDE DEF a, b, c, d, Bad
<1>11. \A i \in 1..Len(b) : (c \o d)[Len(a) + i] = b[i]
  <2>1. ASSUME NEW i \in 1..Len(b) PROVE (c \o d)[Len(a) + i] = b[i]
    <3>1. Len(a) + i \in 1..Len(c)
      BY <1>5, <1>6, <1>10
    <3>2. (c \o d)[Len(a) + i] = c[Len(a) + i]
      BY <1>6, <3>1
    <3>3. QED
      BY <1>10, <3>2
  <2>2. QED
    BY <2>1
<1>12. Len(Pre(s, k)) <= Len(Pre(s, m))
  BY <1>5, <1>6, <1>10
<1>13. Ok(m)
  BY <1>6, <1>11, <1>12 DEF a, b
<1>14. QED
  BY <1>3, <1>13

\* PreAt as a formula.
LEMMA PreAtAll ==
  \A S : \A s : \A m \in Nat : \A j \in 1..m :
    (\A i \in 1..m : s[i] \in Seq(S)) =>
      /\ Len(Pre(s, j)) <= Len(Pre(s, m))
      /\ \A i \in 1..Len(s[j]) : Pre(s, m)[Len(Pre(s, j - 1)) + i] = s[j][i]
<1> SUFFICES ASSUME NEW S, NEW s, NEW m \in Nat, NEW j \in 1..m, \A i \in 1..m : s[i] \in Seq(S)
             PROVE  /\ Len(Pre(s, j)) <= Len(Pre(s, m))
                    /\ \A i \in 1..Len(s[j]) : Pre(s, m)[Len(Pre(s, j - 1)) + i] = s[j][i]
  OBVIOUS
<1>1. AllIn(s, m, S)
  BY DEF AllIn
<1>2. PreHas(s, m, j)
  BY <1>1, PreHasAt
<1>3. QED
  BY <1>2 DEF PreHas

LEMMA Behind ==
  ASSUME NEW S, NEW x \in Seq(S), NEW y \in Seq(S), NEW l \in Nat, Len(x) = l
  PROVE  /\ x \o y \in Seq(S) /\ Len(x \o y) = l + Len(y) /\ \A i \in 1..l : (x \o y)[i] = x[i]
         /\ \A i \in 1..Len(y) : (x \o y)[l + i] = y[i]
  OBVIOUS

LEMMA LineEnds == ASSUME NEW e \in Ends PROVE e \in Seq(Char) /\ Len(e) \in {1, 2}
<1>1. CR \in Char /\ LF \in Char
  BY DEF Char
<1>2. <<CR, LF>> \in Seq(Char) /\ <<LF>> \in Seq(Char) /\ Len(<<CR, LF>>) = 2 /\ Len(<<LF>>) = 1
  BY <1>1
<1>3. QED
  BY <1>2 DEF Ends, CRLF

\* The characters of a header line.
LEMMA FieldTextAt ==
  ASSUME NEW f \in FieldParts
  PROVE  LET n == Len(f.name)  s == Len(f.sep)  v == Len(f.value)  w == Len(f.pad)  t == FieldText(f) IN
         /\ n \in Nat /\ s \in Nat /\ v \in Nat /\ w \in Nat /\ Len(f.eol) \in {1, 2}
         /\ f.name \in Seq(Char) /\ f.sep \in Seq(Char) /\ f.value \in Seq(Char) /\ f.pad \in Seq(Char)
         /\ t \in Seq(Char) /\ Len(t) = n + s + v + w + Len(f.eol)
         /\ \A i \in 1..n : t[i] = f.name[i]
         /\ \A i \in 1..s : t[n + i] = f.sep[i]
         /\ \A i \in 1..v : t[n + s + i] = f.value[i]
         /\ \A i \in 1..w : t[n + s + v + i] = f.pad[i]
         /\ \A i \in 1..Len(f.eol) : t[n + s + v + w + i] = f.eol[i]
<1> DEFINE a == f.name  b == f.sep  c == f.value  d == f.pad  e == f.eol
           n == Len(a)  s == Len(b)  v == Len(c)  w == Len(d)  u == Len(e)
           ab == a \o b  abc == ab \o c  abcd == abc \o d  t == abcd \o e
<1>1. a \in Seq(Char) /\ b \in Seq(Char) /\ c \in Seq(Char) /\ d \in Seq(Char) /\ e \in Ends
  BY DEF FieldParts
<1>2. e \in Seq(Char) /\ Len(e) \in {1, 2}
  BY <1>1, LineEnds
<1>3. FieldText(f) = t
  BY DEF FieldText
<1> HIDE DEF a, b, c, d, e
<1>4. n \in Nat /\ s \in Nat /\ v \in Nat /\ w \in Nat /\ u \in Nat
  BY <1>1, <1>2
<1>5. /\ ab \in Seq(Char) /\ Len(ab) = n + s /\ \A i \in 1..n : ab[i] = a[i]
      /\ \A i \in 1..s : ab[n + i] = b[i]
  BY <1>1
<1> HIDE DEF ab, n, s, v, w, u
<1>6. /\ abc \in Seq(Char) /\ Len(abc) = n + s + v /\ \A i \in 1..(n + s) : abc[i] = ab[i]
      /\ \A i \in 1..v : abc[n + s + i] = c[i]
  <2>1. n + s \in Nat /\ Len(ab) = n + s /\ ab \in Seq(Char) /\ c \in Seq(Char)
    BY <1>1, <1>4, <1>5
  <2>2. QED
    BY <2>1, Behind DEF v
<1> HIDE DEF abc
<1>7. /\ abcd \in Seq(Char) /\ Len(abcd) = n + s + v + w /\ \A i \in 1..(n + s + v) : abcd[i] = abc[i]
      /\ \A i \in 1..w : abcd[n + s + v + i] = d[i]
  <2>1. n + s + v \in Nat /\ Len(abc) = n + s + v /\ abc \in Seq(Char) /\ d \in Seq(Char)
    BY <1>1, <1>4, <1>6
  <2>2. QED
    BY <2>1, Behind DEF w
<1> HIDE DEF abcd
<1>8. /\ t \in Seq(Char) /\ Len(t) = n + s + v + w + u /\ \A i \in 1..(n + s + v + w) : t[i] = abcd[i]
      /\ \A i \in 1..u : t[n + s + v + w + i] = e[i]
  <2>1. n + s + v + w \in Nat /\ Len(abcd) = n + s + v + w /\ abcd \in Seq(Char) /\ e \in Seq(Char)
    BY <1>2, <1>4, <1>7
  <2>2. QED
    BY <2>1, Behind DEF u
<1> HIDE DEF t
<1>9. \A i \in 1..n : t[i] = a[i]
  BY <1>4, <1>5, <1>6, <1>7, <1>8
<1>10. \A i \in 1..s : t[n + i] = b[i]
  <2>1. ASSUME NEW i \in 1..s PROVE t[n + i] = b[i]
    <3>1. n + i \in 1..(n + s) /\ n + i \in 1..(n + s + v) /\ n + i \in 1..(n + s + v + w)
      BY <1>4
    <3>2. QED
      BY <1>5, <1>6, <1>7, <1>8, <3>1
  <2>2. QED
    BY <2>1
<1>11. \A i \in 1..v : t[n + s + i] = c[i]
  <2>1. ASSUME NEW i \in 1..v PROVE t[n + s + i] = c[i]
    <3>1. n + s + i \in 1..(n + s + v) /\ n + s + i \in 1..(n + s + v + w)
      BY <1>4
    <3>2. QED
      BY <1>6, <1>7, <1>8, <3>1
  <2>2. QED
    BY <2>1
<1>12. \A i \in 1..w : t[n + s + v + i] = d[i]
  <2>1. ASSUME NEW i \in 1..w PROVE t[n + s + v + i] = d[i]
    <3>1. n + s + v + i \in 1..(n + s + v + w)
      BY <1>4
    <3>2. QED
      BY <1>7, <1>8, <3>1
  <2>2. QED
    BY <2>1
<1>13. QED
  BY <1>1, <1>2, <1>3, <1>4, <1>8, <1>9, <1>10, <1>11, <1>12 DEF a, b, c, d, e, n, s, v, w, u

\* The parts of the input.
LEMMA InputParts ==
  ASSUME input \in Inputs
  PROVE  /\ heads \in Seq(HeadParts) /\ Len(heads) \in Nat /\ DOMAIN heads = 1..Len(heads)
         /\ \A k \in DOMAIN heads :
              /\ heads[k].end \in Ends /\ LineText(heads[k]) \in Seq(Char) /\ LineForm(LineText(heads[k]))
              /\ fields(k) \in Seq(FieldParts) /\ Len(fields(k)) \in Nat /\ DOMAIN fields(k) = 1..Len(fields(k))
              /\ \A j \in DOMAIN fields(k) : fields(k)[j] \in FieldParts /\ FieldForm(fields(k)[j])
<1>1. heads \in Seq(HeadParts)
  BY FormAssumption DEF heads
<1>2. Len(heads) \in Nat /\ DOMAIN heads = 1..Len(heads)
  BY <1>1
<1>3. ASSUME NEW k \in DOMAIN heads
      PROVE  /\ heads[k].end \in Ends /\ LineText(heads[k]) \in Seq(Char) /\ LineForm(LineText(heads[k]))
             /\ fields(k) \in Seq(FieldParts) /\ Len(fields(k)) \in Nat /\ DOMAIN fields(k) = 1..Len(fields(k))
             /\ \A j \in DOMAIN fields(k) : fields(k)[j] \in FieldParts /\ FieldForm(fields(k)[j])
  <2>1. heads[k] \in HeadParts
    BY <1>1
  <2>2. heads[k].end \in Ends /\ heads[k].line \in Seq(Seq(Char)) /\ fields(k) \in Seq(FieldParts)
    BY <2>1 DEF HeadParts, fields
  <2>3. LineText(heads[k]) \in Seq(Char)
    BY <2>2, FlattenType DEF LineText
  <2>4. LineForm(LineText(heads[k])) /\ \A j \in DOMAIN fields(k) : FieldForm(fields(k)[j])
    BY FormAssumption DEF heads, fields
  <2>5. Len(fields(k)) \in Nat /\ DOMAIN fields(k) = 1..Len(fields(k)) /\ \A j \in DOMAIN fields(k) : fields(k)[j] \in FieldParts
    BY <2>2
  <2>6. QED
    BY <2>2, <2>3, <2>4, <2>5
<1>4. QED
  BY <1>1, <1>2, <1>3

HT == [k \in DOMAIN heads |-> HeadText(heads[k])]
FT(k) == [j \in DOMAIN fields(k) |-> FieldText(fields(k)[j])]

LEMMA HeadTextType ==
  ASSUME input \in Inputs, NEW k \in DOMAIN heads
  PROVE  /\ \A j \in 1..Len(fields(k)) : FT(k)[j] \in Seq(Char) /\ FT(k)[j] = FieldText(fields(k)[j])
         /\ Pre(FT(k), Len(fields(k))) \in Seq(Char)
         /\ HeadText(heads[k]) = LineText(heads[k]) \o Pre(FT(k), Len(fields(k))) \o heads[k].end
         /\ HeadText(heads[k]) \in Seq(Char)
<1> DEFINE n == Len(fields(k))
<1>1. /\ heads[k].end \in Ends /\ LineText(heads[k]) \in Seq(Char)
      /\ n \in Nat /\ DOMAIN fields(k) = 1..n /\ \A j \in DOMAIN fields(k) : fields(k)[j] \in FieldParts
  BY InputParts
<1>2. heads[k].end \in Seq(Char)
  BY <1>1, LineEnds
<1>3. \A j \in 1..n : FT(k)[j] = FieldText(fields(k)[j])
  BY <1>1 DEF FT
<1>4. ASSUME NEW j \in 1..n PROVE FT(k)[j] \in Seq(Char)
  <2>1. fields(k)[j] \in FieldParts
    BY <1>1
  <2>2. FieldText(fields(k)[j]) \in Seq(Char)
    BY <2>1, FieldTextAt
  <2>3. QED
    BY <1>3, <2>2
<1>5. Pre(FT(k), n) \in Seq(Char)
  BY <1>1, <1>4, PreType
<1>6. [j \in DOMAIN heads[k].fields |-> FieldText(heads[k].fields[j])] = [j \in 1..n |-> FT(k)[j]]
  BY <1>1, <1>3 DEF fields
<1>7. HeadText(heads[k]) = LineText(heads[k]) \o Pre(FT(k), n) \o heads[k].end
  BY <1>6 DEF HeadText, Pre
<1> HIDE DEF n
<1>8. HeadText(heads[k]) \in Seq(Char)
  BY <1>1, <1>2, <1>5, <1>7
<1>9. QED
  BY <1>3, <1>4, <1>5, <1>7, <1>8 DEF n

LEMMA FromIs ==
  ASSUME input \in Inputs
  PROVE  /\ \A k \in 1..(Len(heads) + 1) : From(input, k) = 1 + Len(Pre(HT, k - 1))
         /\ Text(input) = Pre(HT, Len(heads))
         /\ \A k \in 1..Len(heads) : HT[k] \in Seq(Char) /\ HT[k] = HeadText(heads[k])
<1>1. Len(heads) \in Nat /\ DOMAIN heads = 1..Len(heads)
  BY InputParts
<1>2. \A k \in 1..Len(heads) : HT[k] = HeadText(heads[k])
  BY <1>1 DEF HT
<1>3. \A k \in 1..Len(heads) : HT[k] \in Seq(Char)
  BY <1>1, <1>2, HeadTextType
<1>4. ASSUME NEW k \in 1..(Len(heads) + 1) PROVE From(input, k) = 1 + Len(Pre(HT, k - 1))
  <2>1. \A j \in 1..(k - 1) : j \in 1..Len(heads)
    BY <1>1
  <2>2. [j \in 1..(k - 1) |-> HeadText(input.heads[j])] = [j \in 1..(k - 1) |-> HT[j]]
    BY <1>2, <2>1 DEF heads
  <2>3. QED
    BY <2>2 DEF From, Pre
<1>5. [j \in DOMAIN input.heads |-> HeadText(input.heads[j])] = [j \in 1..Len(heads) |-> HT[j]]
  BY <1>1, <1>2 DEF heads
<1>6. Text(input) = Pre(HT, Len(heads))
  BY <1>5 DEF Text, Pre
<1>7. QED
  BY <1>2, <1>3, <1>4, <1>6

\* Where the heads lie in the buffer.
LEMMA HeadPlaces ==
  ASSUME input \in Inputs
  PROVE  /\ From(input, 1) = 1 /\ From(input, Len(heads) + 1) = Len(Text(input)) + 1
         /\ \A k \in DOMAIN heads :
              /\ From(input, k) \in Nat /\ From(input, k) >= 1
              /\ From(input, k + 1) = From(input, k) + Len(HeadText(heads[k])) /\ From(input, k + 1) <= Len(Text(input)) + 1
              /\ \A i \in 1..Len(HeadText(heads[k])) : Text(input)[From(input, k) - 1 + i] = HeadText(heads[k])[i]
<1> DEFINE n == Len(heads)
<1>1. n \in Nat /\ DOMAIN heads = 1..n
  BY InputParts
<1>2. /\ \A k \in 1..(n + 1) : From(input, k) = 1 + Len(Pre(HT, k - 1))
      /\ Text(input) = Pre(HT, n)
      /\ \A k \in 1..n : HT[k] \in Seq(Char) /\ HT[k] = HeadText(heads[k])
  BY FromIs
<1> HIDE DEF n
<1>3. From(input, 1) = 1
  <2>1. 1 \in 1..(n + 1) /\ 1 - 1 = 0
    BY <1>1
  <2>2. Pre(HT, 0) = <<>> /\ Len(<<>>) = 0
    BY PreNone
  <2>3. QED
    BY <1>2, <2>1, <2>2
<1>4. From(input, n + 1) = Len(Text(input)) + 1
  <2>1. n + 1 \in 1..(n + 1) /\ (n + 1) - 1 = n
    BY <1>1
  <2>2. From(input, n + 1) = 1 + Len(Pre(HT, n))
    BY <1>2, <2>1
  <2>3. Len(Text(input)) \in Nat
    BY HeadAssumption
  <2>4. QED
    BY <1>2, <2>2, <2>3
<1>5. ASSUME NEW k \in 1..n
      PROVE  /\ From(input, k) \in Nat /\ From(input, k) >= 1
             /\ From(input, k + 1) = From(input, k) + Len(HeadText(heads[k])) /\ From(input, k + 1) <= Len(Text(input)) + 1
             /\ \A i \in 1..Len(HeadText(heads[k])) : Text(input)[From(input, k) - 1 + i] = HeadText(heads[k])[i]
  <2> DEFINE a == Len(Pre(HT, k - 1))  b == Len(HT[k])
  <2>1. k \in Nat \ {0} /\ k \in 1..(n + 1) /\ k + 1 \in 1..(n + 1) /\ (k + 1) - 1 = k /\ \A i \in 1..k : HT[i] \in Seq(Char)
    BY <1>1, <1>2
  <2>2. Len(Pre(HT, k)) = a + b /\ a \in Nat /\ b \in Nat
    BY <2>1, PreStep
  <2>3. Len(Pre(HT, k)) <= Len(Pre(HT, n)) /\ \A i \in 1..b : Pre(HT, n)[a + i] = HT[k][i]
    <3>1. \A i \in 1..n : HT[i] \in Seq(Char)
      BY <1>2
    <3>2. QED
      BY <1>1, <3>1, PreAtAll
  <2>4. From(input, k) = 1 + a /\ From(input, k + 1) = 1 + Len(Pre(HT, k))
    BY <1>2, <2>1
  <2>5. HT[k] = HeadText(heads[k]) /\ Text(input) = Pre(HT, n)
    BY <1>2
  <2>6. Len(Text(input)) \in Nat
    BY HeadAssumption
  <2> HIDE DEF a, b
  <2>7. \A i \in 1..b : Text(input)[From(input, k) - 1 + i] = HT[k][i]
    <3>1. ASSUME NEW i \in 1..b PROVE Text(input)[From(input, k) - 1 + i] = HT[k][i]
      <4>1. From(input, k) - 1 + i = a + i
        BY <2>2, <2>4
      <4>2. QED
        BY <2>3, <2>5, <4>1
    <3>2. QED
      BY <3>1
  <2>8. From(input, k) \in Nat /\ From(input, k) >= 1 /\ From(input, k + 1) = From(input, k) + b /\ From(input, k + 1) <= Len(Text(input)) + 1
    BY <2>2, <2>3, <2>4, <2>5, <2>6
  <2>9. QED
    BY <2>5, <2>7, <2>8 DEF b
<1>6. QED
  BY <1>1, <1>3, <1>4, <1>5 DEF n

LEMMA FieldFromIs ==
  ASSUME input \in Inputs, NEW k \in DOMAIN heads, NEW j \in 1..(Len(fields(k)) + 1)
  PROVE  FieldFrom(input, k, j) = From(input, k) + Len(LineText(heads[k])) + Len(Pre(FT(k), j - 1))
<1>1. Len(fields(k)) \in Nat
  BY InputParts
<1>2. \A i \in 1..(j - 1) : i \in 1..Len(fields(k))
  BY <1>1
<1>3. \A i \in 1..Len(fields(k)) : FT(k)[i] = FieldText(fields(k)[i])
  BY HeadTextType
<1>4. [i \in 1..(j - 1) |-> FieldText(input.heads[k].fields[i])] = [i \in 1..(j - 1) |-> FT(k)[i]]
  BY <1>2, <1>3 DEF fields, heads
<1>5. QED
  BY <1>4 DEF FieldFrom, Pre, heads

\* Where the lines of head k lie in the buffer.
LEMMA FieldPlaces ==
  ASSUME input \in Inputs, NEW k \in DOMAIN heads
  PROVE  LET l == LineText(heads[k])  n == Len(fields(k))  e == heads[k].end IN
         /\ Len(l) \in Nat /\ From(input, k) + Len(l) = FieldFrom(input, k, 1)
         /\ \A i \in 1..Len(l) : Text(input)[From(input, k) - 1 + i] = l[i]
         /\ \A j \in 1..n :
              /\ FieldFrom(input, k, j) \in Nat /\ FieldFrom(input, k, j) >= 1
              /\ FieldFrom(input, k, j + 1) = FieldFrom(input, k, j) + Len(FieldText(fields(k)[j]))
              /\ \A i \in 1..Len(FieldText(fields(k)[j])) :
                   Text(input)[FieldFrom(input, k, j) - 1 + i] = FieldText(fields(k)[j])[i]
         /\ FieldFrom(input, k, n + 1) \in Nat /\ FieldFrom(input, k, n + 1) >= 1 /\ FieldFrom(input, k, n + 1) + Len(e) = From(input, k + 1)
         /\ \A i \in 1..Len(e) : Text(input)[FieldFrom(input, k, n + 1) - 1 + i] = e[i]
<1> DEFINE l == LineText(heads[k])  n == Len(fields(k))  e == heads[k].end  b == Pre(FT(k), n)
           f == From(input, k)  x == Len(l)  y == Len(b)  lb == l \o b  t == lb \o e  T == Text(input)
<1>1. e \in Ends /\ l \in Seq(Char) /\ n \in Nat
  BY InputParts
<1>2. e \in Seq(Char)
  BY <1>1, LineEnds
<1>3. /\ \A j \in 1..n : FT(k)[j] \in Seq(Char) /\ FT(k)[j] = FieldText(fields(k)[j])
      /\ b \in Seq(Char) /\ HeadText(heads[k]) = t
  BY HeadTextType
<1>4. f \in Nat /\ f >= 1 /\ From(input, k + 1) = f + Len(t) /\ \A i \in 1..Len(t) : T[f - 1 + i] = t[i]
  BY <1>3, HeadPlaces
<1>5. \A j \in 1..(n + 1) : FieldFrom(input, k, j) = f + x + Len(Pre(FT(k), j - 1))
  BY FieldFromIs
<1> HIDE DEF l, n, e, b, f, T
<1>6. x \in Nat /\ y \in Nat /\ Len(e) \in Nat
  BY <1>1, <1>2, <1>3
<1>7. /\ lb \in Seq(Char) /\ Len(lb) = x + y /\ \A i \in 1..x : lb[i] = l[i]
      /\ \A i \in 1..y : lb[x + i] = b[i]
  BY <1>1, <1>3, <1>6, Behind
<1> HIDE DEF x, y, lb
<1>8. /\ Len(t) = x + y + Len(e) /\ \A i \in 1..(x + y) : t[i] = lb[i]
      /\ \A i \in 1..Len(e) : t[x + y + i] = e[i]
  <2>1. x + y \in Nat
    BY <1>6
  <2>2. QED
    BY <1>2, <1>7, <2>1, Behind, SMTT(30)
<1> HIDE DEF t
<1>9. FieldFrom(input, k, 1) = f + x
  <2>1. 1 \in 1..(n + 1) /\ 1 - 1 = 0
    BY <1>1
  <2>2. FieldFrom(input, k, 1) = f + x + Len(Pre(FT(k), 0)) /\ Pre(FT(k), 0) = <<>>
    BY <1>5, <2>1, PreNone
  <2>3. QED
    BY <1>4, <1>6, <2>2
<1>10. \A i \in 1..x : T[f - 1 + i] = l[i]
  <2>1. ASSUME NEW i \in 1..x PROVE T[f - 1 + i] = l[i]
    <3>1. i \in 1..(x + y) /\ i \in 1..Len(t)
      BY <1>6, <1>8
    <3>2. QED
      BY <1>4, <1>7, <1>8, <3>1
  <2>2. QED
    BY <2>1
<1>11. \A i \in 1..y : T[f + x - 1 + i] = b[i]
  <2>1. ASSUME NEW i \in 1..y PROVE T[f + x - 1 + i] = b[i]
    <3>1. x + i \in 1..(x + y) /\ x + i \in 1..Len(t) /\ f + x - 1 + i = f - 1 + (x + i)
      BY <1>4, <1>6, <1>8
    <3>2. t[x + i] = b[i]
      BY <1>7, <1>8, <3>1
    <3>3. QED
      BY <1>4, <3>1, <3>2
  <2>2. QED
    BY <2>1
<1>12. FieldFrom(input, k, n + 1) = f + x + y
  <2>1. n + 1 \in 1..(n + 1) /\ (n + 1) - 1 = n
    BY <1>1
  <2>2. QED
    BY <1>5, <2>1 DEF y, b
<1>13. \A i \in 1..Len(e) : T[f + x + y - 1 + i] = e[i]
  <2>1. ASSUME NEW i \in 1..Len(e) PROVE T[f + x + y - 1 + i] = e[i]
    <3>1. x + y + i \in 1..Len(t) /\ f + x + y - 1 + i = f - 1 + (x + y + i)
      BY <1>4, <1>6, <1>8
    <3>2. QED
      BY <1>4, <1>8, <3>1
  <2>2. QED
    BY <2>1
<1>14. ASSUME NEW j \in 1..n
       PROVE  /\ FieldFrom(input, k, j) \in Nat /\ FieldFrom(input, k, j) >= 1
              /\ FieldFrom(input, k, j + 1) = FieldFrom(input, k, j) + Len(FT(k)[j])
              /\ \A i \in 1..Len(FT(k)[j]) : T[FieldFrom(input, k, j) - 1 + i] = FT(k)[j][i]
  <2> DEFINE c == Len(Pre(FT(k), j - 1))  d == Len(FT(k)[j])
  <2>1. j \in Nat \ {0} /\ j \in 1..(n + 1) /\ j + 1 \in 1..(n + 1) /\ (j + 1) - 1 = j
        /\ \A i \in 1..j : FT(k)[i] \in Seq(Char)
    BY <1>1, <1>3
  <2>2. Len(Pre(FT(k), j)) = c + d /\ c \in Nat /\ d \in Nat
    BY <2>1, PreStep
  <2>3. Len(Pre(FT(k), j)) <= y /\ \A i \in 1..d : b[c + i] = FT(k)[j][i]
    <3>1. \A i \in 1..n : FT(k)[i] \in Seq(Char)
      BY <1>3
    <3>2. QED
      BY <1>1, <3>1, PreAtAll DEF y, b
  <2>4. FieldFrom(input, k, j) = f + x + c /\ FieldFrom(input, k, j + 1) = f + x + Len(Pre(FT(k), j))
    BY <1>5, <2>1
  <2> HIDE DEF c, d
  <2>5. ASSUME NEW i \in 1..d PROVE T[FieldFrom(input, k, j) - 1 + i] = FT(k)[j][i]
    <3>1. c + i \in 1..y /\ FieldFrom(input, k, j) - 1 + i = f + x - 1 + (c + i)
      BY <1>4, <1>6, <2>2, <2>3, <2>4
    <3>2. QED
      BY <1>11, <2>3, <3>1
  <2>6. FieldFrom(input, k, j) \in Nat /\ FieldFrom(input, k, j) >= 1 /\ FieldFrom(input, k, j + 1) = FieldFrom(input, k, j) + d
    BY <1>4, <1>6, <2>2, <2>4
  <2>7. QED
    BY <2>5, <2>6 DEF d
<1>15. /\ FieldFrom(input, k, n + 1) \in Nat /\ FieldFrom(input, k, n + 1) >= 1 /\ FieldFrom(input, k, n + 1) + Len(e) = From(input, k + 1)
       /\ \A i \in 1..Len(e) : T[FieldFrom(input, k, n + 1) - 1 + i] = e[i]
  BY <1>4, <1>6, <1>8, <1>12, <1>13
<1>16. f + x = FieldFrom(input, k, 1) /\ x \in Nat
  BY <1>6, <1>9
<1>17. \A j \in 1..n :
         /\ FieldFrom(input, k, j) \in Nat /\ FieldFrom(input, k, j) >= 1
         /\ FieldFrom(input, k, j + 1) = FieldFrom(input, k, j) + Len(FieldText(fields(k)[j]))
         /\ \A i \in 1..Len(FieldText(fields(k)[j])) : T[FieldFrom(input, k, j) - 1 + i] = FieldText(fields(k)[j])[i]
  BY <1>3, <1>14
<1>18. QED
  BY <1>10, <1>15, <1>16, <1>17 DEF l, n, e, f, x, T

-----------------------------------------------------------------------------
(* ValidUpto: the header lines with a valid name.                          *)

ValidNth(k, j) == ValidName(input.heads[k].fields[j].name)

WithNth(k, s, j) == IF ValidNth(k, j) THEN Append(s, j) ELSE s

ValidRun(f, k, n) == f = [j \in 0..n |-> IF j = 0 THEN <<>> ELSE WithNth(k, f[j - 1], j)]

LEMMA ValidRunExists == ASSUME NEW k, NEW n \in Nat PROVE \E f : ValidRun(f, k, n)
<1> DEFINE Bad == {j \in Nat : ~\E f : ValidRun(f, k, j)}
<1>1. SUFFICES ASSUME Bad # {} PROVE FALSE
  OBVIOUS
<1>2. PICK j \in Bad : \A m \in Bad : j <= m
  BY <1>1, LeastNumber
<1>3. CASE j = 0
  <2> DEFINE g == [i \in 0..0 |-> <<>>]
  <2>1. ValidRun(g, k, 0)
    BY DEF ValidRun
  <2>2. QED
    BY <1>3, <2>1
<1>4. CASE j # 0
  <2>1. j - 1 \in Nat /\ j - 1 \notin Bad
    BY <1>2, <1>4
  <2>2. PICK f : ValidRun(f, k, j - 1)
    BY <2>1
  <2> DEFINE g == [i \in 0..j |-> IF i = j THEN WithNth(k, f[j - 1], j) ELSE f[i]]
  <2>3. ValidRun(g, k, j)
    <3>1. ASSUME NEW i \in 0..j
          PROVE  g[i] = IF i = 0 THEN <<>> ELSE WithNth(k, g[i - 1], i)
      BY <1>4, <2>1, <2>2 DEF ValidRun
    <3>2. g = [i \in 0..j |-> g[i]]
      OBVIOUS
    <3> HIDE DEF g
    <3>3. QED
      BY <3>1, <3>2 DEF ValidRun
  <2>4. QED
    BY <2>3
<1>5. QED
  BY <1>3, <1>4

LEMMA ValidUptoDef == ASSUME NEW k, NEW n \in Nat PROVE \E f : ValidRun(f, k, n) /\ ValidUpto(input, k, n) = f[n]
<1>1. \E f : ValidRun(f, k, n)
  BY ValidRunExists
<1>2. PICK h : h = (CHOOSE f : f = [j \in 0..n |-> IF j = 0 THEN <<>>
                                     ELSE IF ValidName(input.heads[k].fields[j].name) THEN Append(f[j - 1], j) ELSE f[j - 1]])
  OBVIOUS
<1>3. ValidRun(h, k, n)
  BY <1>1, <1>2, Zenon DEF ValidRun, WithNth, ValidNth
<1>4. ValidUpto(input, k, n) = h[n]
  BY <1>2 DEF ValidUpto
<1>5. QED
  BY <1>3, <1>4

LEMMA ValidRunUnique ==
  ASSUME NEW k, NEW m \in Nat, NEW n \in Nat, m <= n, NEW f, NEW g, ValidRun(f, k, m), ValidRun(g, k, n)
  PROVE  f[m] = g[m]
<1> DEFINE Bad == {i \in 0..m : f[i] # g[i]}
<1>0. m \in 0..m
  OBVIOUS
<1>1. SUFFICES ASSUME Bad # {} PROVE FALSE
  BY <1>0
<1>2. PICK i \in Bad : \A j \in Bad : i <= j
  <2>1. Bad \subseteq Nat
    OBVIOUS
  <2> HIDE DEF Bad
  <2>2. QED
    BY <1>1, <2>1, LeastNumber
<1>3. i \in 0..m /\ i \in 0..n /\ f[i] # g[i]
  OBVIOUS
<1>4. /\ f[i] = (IF i = 0 THEN <<>> ELSE WithNth(k, f[i - 1], i))
      /\ g[i] = (IF i = 0 THEN <<>> ELSE WithNth(k, g[i - 1], i))
  BY <1>3 DEF ValidRun
<1>5. i # 0
  BY <1>3, <1>4
<1>6. i - 1 \in 0..m /\ i - 1 \notin Bad
  BY <1>2, <1>3, <1>5
<1>7. f[i - 1] = g[i - 1]
  BY <1>6
<1>8. QED
  BY <1>3, <1>4, <1>7

LEMMA ValidUptoStep ==
  ASSUME NEW k
  PROVE  /\ ValidUpto(input, k, 0) = <<>>
         /\ \A n \in Nat \ {0} :
              ValidUpto(input, k, n) = IF ValidName(fields(k)[n].name) THEN Append(ValidUpto(input, k, n - 1), n) ELSE ValidUpto(input, k, n - 1)
<1>1. ValidUpto(input, k, 0) = <<>>
  <2>1. PICK f : ValidRun(f, k, 0) /\ ValidUpto(input, k, 0) = f[0]
    BY ValidUptoDef
  <2>2. QED
    BY <2>1 DEF ValidRun
<1>2. ASSUME NEW n \in Nat \ {0}
      PROVE  ValidUpto(input, k, n) = WithNth(k, ValidUpto(input, k, n - 1), n)
  <2>1. n \in Nat /\ n - 1 \in Nat /\ n - 1 <= n /\ n # 0
    OBVIOUS
  <2>2. PICK f : ValidRun(f, k, n) /\ ValidUpto(input, k, n) = f[n]
    BY <2>1, ValidUptoDef
  <2>3. PICK g : ValidRun(g, k, n - 1) /\ ValidUpto(input, k, n - 1) = g[n - 1]
    BY <2>1, ValidUptoDef
  <2>4. f[n - 1] = g[n - 1]
    BY <2>1, <2>2, <2>3, ValidRunUnique
  <2>5. f[n] = WithNth(k, f[n - 1], n)
    BY <2>1, <2>2 DEF ValidRun
  <2>6. QED
    BY <2>2, <2>3, <2>4, <2>5
<1>3. QED
  BY <1>1, <1>2 DEF WithNth, ValidNth, fields, heads

LEMMA ValidUptoType ==
  ASSUME NEW k, NEW n \in Nat
  PROVE  ValidUpto(input, k, n) \in Seq(Nat) /\ \A i \in DOMAIN ValidUpto(input, k, n) : ValidUpto(input, k, n)[i] \in 1..n
<1> DEFINE Ok(m) == ValidUpto(input, k, m) \in Seq(Nat) /\ \A i \in DOMAIN ValidUpto(input, k, m) : ValidUpto(input, k, m)[i] \in 1..m
           Bad == {m \in Nat : ~Ok(m)}
<1>1. SUFFICES ASSUME Bad # {} PROVE FALSE
  OBVIOUS
<1>2. PICK m \in Bad : \A j \in Bad : m <= j
  <2>1. Bad \subseteq Nat
    OBVIOUS
  <2> HIDE DEF Bad
  <2>2. QED
    BY <1>1, <2>1, LeastNumber
<1>3. m \in Nat /\ ~Ok(m)
  OBVIOUS
<1>4. m # 0
  <2>1. ValidUpto(input, k, 0) = <<>>
    BY ValidUptoStep
  <2>2. \A s : s = <<>> => s \in Seq(Nat) /\ \A i \in DOMAIN s : s[i] \in 1..0
    OBVIOUS
  <2>3. Ok(0)
    BY <2>1, <2>2
  <2>4. QED
    BY <1>3, <2>3
<1>5. m - 1 \in Nat /\ m - 1 \notin Bad
  BY <1>2, <1>3, <1>4
<1> DEFINE a == ValidUpto(input, k, m - 1)
<1>6. a \in Seq(Nat) /\ \A i \in DOMAIN a : a[i] \in 1..(m - 1)
  BY <1>5
<1>7. ValidUpto(input, k, m) = a \/ ValidUpto(input, k, m) = Append(a, m)
  BY <1>3, <1>4, ValidUptoStep
<1> HIDE DEF a, Bad
<1>8. CASE ValidUpto(input, k, m) = a
  BY <1>3, <1>6, <1>8
<1>9. CASE ValidUpto(input, k, m) = Append(a, m)
  <2>1. Append(a, m) \in Seq(Nat) /\ \A i \in DOMAIN Append(a, m) : Append(a, m)[i] \in 1..m
    BY <1>3, <1>4, <1>6
  <2>2. QED
    BY <1>3, <1>9, <2>1
<1>10. QED
  BY <1>7, <1>8, <1>9

-----------------------------------------------------------------------------
(* The parser in a header line.                                            *)

\* What c is as the character with o others before it in line f.
FieldChar(f, c, o) ==
  LET n == Len(f.name)  s == Len(f.sep)  v == Len(f.value)  w == Len(f.pad) IN
  \/ o < n /\ c = f.name[o + 1] /\ c \notin {":", CR, LF}
  \/ o = n /\ s > 0 /\ c = ":"
  \/ n < o /\ o < n + s /\ c = SP
  \/ /\ n + s <= o /\ o < n + s + v /\ c \notin {CR, LF}
     /\ o = n + s \/ o = n + s + v - 1 => c # SP
  \/ n + s + v <= o /\ o < n + s + v + w /\ c = SP
  \/ o = n + s + v + w /\ c = IF f.eol = CRLF THEN CR ELSE LF
  \/ o = n + s + v + w + 1 /\ f.eol = CRLF /\ c = LF

\* The lengths of a line's parts.
FieldSizes(f) ==
  LET n == Len(f.name)  s == Len(f.sep)  v == Len(f.value)  w == Len(f.pad) IN
  /\ n \in Nat /\ s \in Nat /\ v \in Nat /\ w \in Nat
  /\ DOMAIN f.name = 1..n
  /\ f.name = <<>> <=> n = 0
  /\ f.sep = <<>> <=> s = 0
  /\ f.value = <<>> <=> v = 0
  /\ s = 0 => n > 0 /\ v = 0 /\ w = 0
  /\ Len(FieldText(f)) = n + s + v + w + (IF f.eol = CRLF THEN 2 ELSE 1)

LEMMA FieldChars ==
  ASSUME NEW f \in FieldParts, FieldForm(f)
  PROVE  FieldSizes(f) /\ \A i \in 1..Len(FieldText(f)) : FieldChar(f, FieldText(f)[i], i - 1)
<1> DEFINE a == f.name  b == f.sep  c == f.value  d == f.pad  e == f.eol
           n == Len(a)  s == Len(b)  v == Len(c)  w == Len(d)  t == FieldText(f)
<1>1. /\ n \in Nat /\ s \in Nat /\ v \in Nat /\ w \in Nat /\ Len(e) \in {1, 2}
      /\ a \in Seq(Char) /\ b \in Seq(Char) /\ c \in Seq(Char) /\ d \in Seq(Char)
      /\ Len(t) = n + s + v + w + Len(e)
      /\ \A i \in 1..n : t[i] = a[i]
      /\ \A i \in 1..s : t[n + i] = b[i]
      /\ \A i \in 1..v : t[n + s + i] = c[i]
      /\ \A i \in 1..w : t[n + s + v + i] = d[i]
      /\ \A i \in 1..Len(e) : t[n + s + v + w + i] = e[i]
  BY FieldTextAt
<1>2. /\ \A i \in DOMAIN a : a[i] \notin {":", CR, LF}
      /\ \/ b # <<>> /\ \A i \in DOMAIN b : b[i] = IF i = 1 THEN ":" ELSE SP
         \/ b = <<>> /\ a # <<>> /\ c = <<>> /\ d = <<>>
      /\ \A i \in DOMAIN c : c[i] \notin {CR, LF} /\ (i \in {1, Len(c)} => c[i] # SP)
      /\ \A i \in DOMAIN d : d[i] = SP
  BY DEF FieldForm
<1>3. e = CRLF \/ e = <<LF>>
  BY DEF FieldParts, Ends
<1>4. /\ e = CRLF => Len(e) = 2 /\ e[1] = CR /\ e[2] = LF
      /\ e # CRLF => Len(e) = 1 /\ e[1] = LF
  BY <1>3 DEF CRLF
<1> HIDE DEF a, b, c, d, e, t
<1>5. /\ a = <<>> <=> n = 0
      /\ b = <<>> <=> s = 0
      /\ c = <<>> <=> v = 0
      /\ d = <<>> <=> w = 0
      /\ DOMAIN a = 1..n /\ DOMAIN b = 1..s /\ DOMAIN c = 1..v /\ DOMAIN d = 1..w
  BY <1>1
<1>0. n \in Nat /\ s \in Nat /\ v \in Nat /\ w \in Nat /\ Len(e) \in {1, 2}
  BY <1>1
<1> HIDE DEF n, s, v, w
<1>6. s = 0 => n > 0 /\ v = 0 /\ w = 0
  BY <1>1, <1>2, <1>5
<1>7. Len(t) = n + s + v + w + (IF e = CRLF THEN 2 ELSE 1)
  BY <1>1, <1>4
<1>8. FieldSizes(f)
  BY <1>1, <1>5, <1>6, <1>7 DEF FieldSizes, a, b, c, d, e, n, s, v, w, t
<1>9. ASSUME NEW i \in 1..Len(t)
      PROVE  \/ i - 1 < n /\ t[i] = a[(i - 1) + 1] /\ t[i] \notin {":", CR, LF}
             \/ i - 1 = n /\ s > 0 /\ t[i] = ":"
             \/ n < i - 1 /\ i - 1 < n + s /\ t[i] = SP
             \/ /\ n + s <= i - 1 /\ i - 1 < n + s + v /\ t[i] \notin {CR, LF}
                /\ i - 1 = n + s \/ i - 1 = n + s + v - 1 => t[i] # SP
             \/ n + s + v <= i - 1 /\ i - 1 < n + s + v + w /\ t[i] = SP
             \/ i - 1 = n + s + v + w /\ t[i] = IF e = CRLF THEN CR ELSE LF
             \/ i - 1 = n + s + v + w + 1 /\ e = CRLF /\ t[i] = LF
  <2>0. i \in Nat /\ i >= 1 /\ i <= n + s + v + w + (IF e = CRLF THEN 2 ELSE 1) /\ (i - 1) + 1 = i
    BY <1>1, <1>7, SMTT(30)
  <2>1. CASE i <= n
    BY <1>1, <1>2, <1>5, <2>0, <2>1
  <2>2. CASE n < i /\ i <= n + s
    <3> DEFINE j == i - n
    <3>1. j \in 1..s /\ n + j = i
      BY <1>0, <2>0, <2>2
    <3> HIDE DEF j
    <3>2. t[n + j] = b[j] /\ s # 0
      BY <1>1, <3>1
    <3>3. b[j] = IF j = 1 THEN ":" ELSE SP
      BY <1>2, <1>5, <3>1, <3>2
    <3>4. t[i] = IF j = 1 THEN ":" ELSE SP
      BY <3>1, <3>2, <3>3
    <3>5. QED
      BY <1>0, <2>0, <2>2, <3>1, <3>4
  <2>3. CASE n + s < i /\ i <= n + s + v
    <3> DEFINE j == i - n - s
    <3>1. j \in 1..v /\ n + s + j = i
      BY <1>0, <2>0, <2>3
    <3> HIDE DEF j
    <3>2. t[n + s + j] = c[j]
      BY <1>1, <3>1
    <3>3. c[j] \notin {CR, LF} /\ (j \in {1, v} => c[j] # SP)
      BY <1>2, <1>5, <3>1 DEF v
    <3>4. t[i] = c[j]
      BY <3>1, <3>2
    <3>5. QED
      BY <1>0, <2>0, <2>3, <3>1, <3>3, <3>4
  <2>4. CASE n + s + v < i /\ i <= n + s + v + w
    <3> DEFINE j == i - n - s - v
    <3>1. j \in 1..w /\ n + s + v + j = i
      BY <1>0, <2>0, <2>4
    <3> HIDE DEF j
    <3>2. t[n + s + v + j] = d[j]
      BY <1>1, <3>1
    <3>3. d[j] = SP
      BY <1>2, <1>5, <3>1
    <3>4. t[i] = SP
      BY <3>1, <3>2, <3>3
    <3>5. QED
      BY <1>0, <2>0, <2>4, <3>4
  <2>5. CASE n + s + v + w < i
    <3> DEFINE j == i - n - s - v - w
    <3>1. j \in 1..Len(e) /\ n + s + v + w + j = i /\ j \in {1, 2} /\ (j = 2 => e = CRLF)
      BY <1>0, <1>4, <2>0, <2>5
    <3> HIDE DEF j
    <3>2. t[n + s + v + w + j] = e[j]
      BY <1>1, <3>1
    <3>3. t[i] = e[j]
      BY <3>1, <3>2
    <3>4. QED
      BY <1>0, <1>4, <2>0, <3>1, <3>3
  <2>6. QED
    BY <1>0, <2>0, <2>1, <2>2, <2>3, <2>4, <2>5
<1>10. QED
  BY <1>8, <1>9 DEF FieldChar, a, b, c, d, e, n, s, v, w, t

LEMMA LineFacts ==
  ASSUME Types, mode = "headers", More, r.state \in InLine, HeaderLineTo # "invalid", NEW to, to # "start" \/ r.state # "start"
  PROVE  LET w == HeaderLineChar(to)  st == r.state IN
         /\ p \in Nat /\ ch \in Char
         /\ r.header_name_end \in Int /\ r.header_start \in Int /\ r.header_end \in Int /\ r.invalid_header \in BOOLEAN
         /\ HeaderEdge(st, ch, HeaderLineTo) \/ (st = "name" /\ ch = "/" /\ HeaderLineTo = "ignore_line")
         /\ w.state = to /\ w.header_name_start = r.header_name_start
         /\ w.header_name_end = (IF st = "name" /\ ch \in {":", CR, LF} THEN p ELSE r.header_name_end)
         /\ w.header_start = (IF (st = "name" /\ ch \in {CR, LF}) \/ (st = "space_before_value" /\ ch # SP)
                               THEN p ELSE r.header_start)
         /\ w.header_end = (IF (st \in {"name", "space_before_value", "value"} /\ ch \in {CR, LF}) \/ (st = "value" /\ ch = SP)
                             THEN p ELSE r.header_end)
         /\ w.invalid_header <=> (r.invalid_header \/ (st = "name" /\ ch \notin NameChar \cup {":", CR, LF} /\ to = "name"))
<1> DEFINE w == HeaderLineChar(to)  st == r.state  vs == ValueStarts  ve == ValueEnds
<1>1. p \in Nat /\ ch \in Char /\ st \in State
  BY Reading
<1>2. /\ r.header_name_end \in Int /\ r.header_start \in Int /\ r.header_end \in Int /\ r.invalid_header \in BOOLEAN
      /\ r \in RequestT
  BY DEF Types, RequestT
<1>3. HeaderEdge(st, ch, HeaderLineTo) \/ (st = "name" /\ ch = "/" /\ HeaderLineTo = "ignore_line")
  BY <1>1, HeaderTo
<1>4. /\ w.state = to
      /\ w.header_name_start = (IF st = "start" THEN p ELSE r.header_name_start)
      /\ w.header_name_end = (IF st = "name" /\ ch \in {":", CR, LF} THEN p ELSE r.header_name_end)
      /\ w.header_start = (IF vs THEN p ELSE r.header_start)
      /\ w.header_end = (IF ve THEN p ELSE r.header_end)
      /\ w.invalid_header = (CASE st = "start" -> ch \notin NameChar \cup {CR, LF}
                               [] st = "name"  -> r.invalid_header \/ (ch \notin NameChar \cup {":", CR, LF} /\ to = "name")
                               [] OTHER        -> r.invalid_header)
  BY <1>2, HeaderLineCharFields
<1>5. st # "start"
  BY DEF InLine
<1>6. /\ vs <=> (st = "name" /\ ch \in {CR, LF}) \/ (st = "space_before_value" /\ ch # SP)
      /\ ve <=> (st \in {"name", "space_before_value", "value"} /\ ch \in {CR, LF}) \/ (st = "value" /\ ch = SP)
  BY <1>5 DEF ValueStarts, ValueEnds
<1> HIDE DEF vs, ve
<1>7. w.invalid_header <=> (r.invalid_header \/ (st = "name" /\ ch \notin NameChar \cup {":", CR, LF} /\ to = "name"))
  BY <1>2, <1>4, <1>5
<1>8. w.header_start = (IF (st = "name" /\ ch \in {CR, LF}) \/ (st = "space_before_value" /\ ch # SP)
                          THEN p ELSE r.header_start)
  BY <1>4, <1>6
<1>9. w.header_end = (IF (st \in {"name", "space_before_value", "value"} /\ ch \in {CR, LF}) \/ (st = "value" /\ ch = SP)
                        THEN p ELSE r.header_end)
  BY <1>4, <1>6
<1>10. w.state = to /\ w.header_name_start = r.header_name_start
  BY <1>4, <1>5
<1>11. w.header_name_end = (IF st = "name" /\ ch \in {":", CR, LF} THEN p ELSE r.header_name_end)
  BY <1>4
<1>12. QED
  BY <1>1, <1>2, <1>3, <1>7, <1>8, <1>9, <1>10, <1>11, Zenon

\* The line goes on.
LEMMA LineStep ==
  ASSUME Types, mode = "headers", More, HeaderLineTo \notin {"done", "header_done", "invalid"},
         r' = HeaderLineChar(HeaderLineTo), p' = p + 1,
         NEW f, FieldSizes(f), NEW from \in Nat,
         p \in (from + 1)..(from + Len(FieldText(f)) - 1), FieldChar(f, ch, p - from),
         r.header_name_start = from, ValidLine(r, p, f, from)
  PROVE  /\ p' \in (from + 1)..(from + Len(FieldText(f)) - 1)
         /\ r'.state \in InLine => r'.header_name_start = from
         /\ InvalidLine(r, f)' \/ ValidLine(r, p, f, from)'
<1> DEFINE to == HeaderLineTo  st == r.state  c == ch
           n == Len(f.name)  s == Len(f.sep)  v == Len(f.value)  w == Len(f.pad)  u == Len(FieldText(f))
           o == p - from  nc == f.name[p - from + 1]  ec == IF f.eol = CRLF THEN CR ELSE LF
           crlf == f.eol = CRLF  novalue == f.value = <<>>  valid == ValidName(f.name)
           after == from + n  value == after + s + (IF f.value = <<>> THEN w ELSE 0)
           b == r.header_name_end  hs == r.header_start  he == r.header_end
           b1 == r'.header_name_end  hs1 == r'.header_start  he1 == r'.header_end
           inv == r'.invalid_header
           sofar == \A i \in 1..(p - from) : f.name[i] \in NameChar
           sofar1 == \A i \in 1..(p + 1 - from) : f.name[i] \in NameChar
<1>1. /\ p \in Nat /\ c \in Char /\ b \in Int /\ hs \in Int /\ he \in Int /\ st \in InLine /\ ~r.invalid_header
      /\ HeaderEdge(st, c, to) \/ (st = "name" /\ c = "/" /\ to = "ignore_line")
      /\ r'.state = to /\ r'.header_name_start = from
      /\ b1 = (IF st = "name" /\ c \in {":", CR, LF} THEN p ELSE b)
      /\ hs1 = (IF (st = "name" /\ c \in {CR, LF}) \/ (st = "space_before_value" /\ c # SP) THEN p ELSE hs)
      /\ he1 = (IF (st \in {"name", "space_before_value", "value"} /\ c \in {CR, LF}) \/ (st = "value" /\ c = SP) THEN p ELSE he)
      /\ inv <=> (st = "name" /\ c \notin NameChar \cup {":", CR, LF} /\ to = "name")
  <2>1. st \in InLine /\ ~r.invalid_header /\ st # "start"
    BY DEF ValidLine, InLine
  <2>2. QED
    BY <2>1, LineFacts
<1>2. /\ n \in Nat /\ s \in Nat /\ v \in Nat /\ w \in Nat
      /\ s = 0 => n > 0 /\ v = 0 /\ w = 0
      /\ u = n + s + v + w + (IF crlf THEN 2 ELSE 1)
      /\ f.name = <<>> <=> n = 0
      /\ DOMAIN f.name = 1..n
      /\ f.sep = <<>> <=> s = 0
      /\ novalue <=> v = 0
  BY DEF FieldSizes
<1>3. \/ o < n /\ c = nc /\ c \notin {":", CR, LF}
      \/ o = n /\ s > 0 /\ c = ":"
      \/ n < o /\ o < n + s /\ c = SP
      \/ n + s <= o /\ o < n + s + v /\ c \notin {CR, LF} /\ (o = n + s \/ o = n + s + v - 1 => c # SP)
      \/ n + s + v <= o /\ o < n + s + v + w /\ c = SP
      \/ o = n + s + v + w /\ c = ec
      \/ o = n + s + v + w + 1 /\ crlf /\ c = LF
  BY DEF FieldChar
<1>4. \/ st = "name" /\ p <= after /\ sofar
      \/ /\ st # "name" /\ valid /\ b = after
         /\ \/ st = "space_before_value" /\ s # 0 /\ p \in (after + 1)..value
            \/ st = "value" /\ v > 0 /\ hs = value /\ p \in (value + 1)..(value + v)
            \/ /\ st = "space_after_value" /\ v > 0 /\ hs = value
               /\ \/ p \in (value + 2)..(value + v - 1)
                  \/ p \in (value + v + 1)..(value + v + w) /\ he = value + v
            \/ st = "almost_done" /\ crlf /\ p = from + u - 1 /\ hs = value /\ he = value + v
  BY <1>2 DEF ValidLine, LinePlace
<1>5. SUFFICES
        /\ p + 1 \in (from + 1)..(from + u - 1)
        /\ \/ ~valid /\ (to = "ignore_line" \/ (to \in InLine /\ inv))
           \/ /\ ~inv /\ to \in InLine
              /\ \/ to = "name" /\ p + 1 <= after /\ sofar1
                 \/ /\ to # "name" /\ valid /\ b1 = after
                    /\ \/ to = "space_before_value" /\ s # 0 /\ p + 1 \in (after + 1)..value
                       \/ to = "value" /\ v > 0 /\ hs1 = value /\ p + 1 \in (value + 1)..(value + v)
                       \/ /\ to = "space_after_value" /\ v > 0 /\ hs1 = value
                          /\ \/ p + 1 \in (value + 2)..(value + v - 1)
                             \/ p + 1 \in (value + v + 1)..(value + v + w) /\ he1 = value + v
                       \/ to = "almost_done" /\ crlf /\ p + 1 = from + u - 1 /\ hs1 = value /\ he1 = value + v
  <2>1. /\ r'.state = to /\ p' = p + 1 /\ r'.header_name_start = from
        /\ f.sep = <<>> <=> s = 0
    BY <1>1, <1>2
  <2>2. InvalidLine(r, f)' <=> ~valid /\ (to = "ignore_line" \/ (to \in InLine /\ inv))
    BY <2>1 DEF InvalidLine
  <2>3. ValidLine(r, p, f, from)' <=> ~inv /\ to \in InLine /\ LinePlace(r, p, f, from)'
    BY <2>1 DEF ValidLine
  <2>4. LinePlace(r, p, f, from)' <=>
          \/ to = "name" /\ p + 1 <= after /\ sofar1
          \/ /\ to # "name" /\ valid /\ b1 = after
             /\ \/ to = "space_before_value" /\ s # 0 /\ p + 1 \in (after + 1)..value
                \/ to = "value" /\ v > 0 /\ hs1 = value /\ p + 1 \in (value + 1)..(value + v)
                \/ /\ to = "space_after_value" /\ v > 0 /\ hs1 = value
                   /\ \/ p + 1 \in (value + 2)..(value + v - 1)
                      \/ p + 1 \in (value + v + 1)..(value + v + w) /\ he1 = value + v
                \/ to = "almost_done" /\ crlf /\ p + 1 = from + u - 1 /\ hs1 = value /\ he1 = value + v
    BY <2>1 DEF LinePlace
  <2>5. u = Len(FieldText(f))
    OBVIOUS
  <2> HIDE DEF sofar1, after, value, valid, crlf, n, s, v, w, u, to
  <2>6. QED
    BY <2>1, <2>2, <2>3, <2>4, <2>5
<1>6. value = after + s + (IF v = 0 THEN w ELSE 0)
  BY <1>2
<1>7. valid <=> n # 0 /\ \A i \in 1..n : f.name[i] \in NameChar
  <2> HIDE DEF n
  <2>1. QED
    BY <1>2 DEF ValidName
<1>8. {":", CR, LF, "/"} \cap NameChar = {} /\ CR # LF /\ SP # CR /\ SP # LF /\ CR # ":" /\ LF # ":" /\ CR # "/" /\ LF # "/"
  BY DEF NameChar, Letter, Upper, Digit, CR, LF, SP, UNDERSCORE
<1>20. p \in (from + 1)..(from + u - 1) /\ after = from + n /\ o = p - from /\ (crlf => ec = CR) /\ (~crlf => ec = LF)
  OBVIOUS
<1> HIDE DEF to, st, c, o, nc, ec, n, s, v, w, u, crlf, novalue, valid, after, value, b, hs, he, b1, hs1, he1, inv
<1>21. /\ n \in Nat /\ s \in Nat /\ v \in Nat /\ w \in Nat /\ p \in Nat /\ from \in Nat
       /\ s = 0 => n > 0 /\ v = 0 /\ w = 0
       /\ u = n + s + v + w + (IF crlf THEN 2 ELSE 1)
       /\ p >= from + 1 /\ p <= from + u - 1 /\ o \in Nat /\ p = from + o
       /\ after = from + n /\ value = after + s + (IF v = 0 THEN w ELSE 0)
  BY <1>1, <1>2, <1>6, <1>20
<1>9. CASE st = "name"
  <2>1. p <= after /\ sofar
    BY <1>4, <1>9
  <2>2. \/ c = ":" /\ to = "space_before_value"
        \/ c \notin {":", CR, LF} /\ to = "name"
        \/ c = CR /\ to = "almost_done"
        \/ c = "/" /\ to = "ignore_line"
    BY <1>1, <1>9 DEF HeaderEdge, to
  <2>3. CASE p < after
    <3>1. c = nc /\ c \notin {":", CR, LF} /\ p - from + 1 \in 1..n
      BY <1>3, <1>21, <2>3
    <3>2. p + 1 \in (from + 1)..(from + u - 1) /\ p + 1 <= after
      BY <1>21, <2>3
    <3>3. CASE c \in NameChar
      <4>1. to = "name" /\ ~inv
        BY <1>1, <1>8, <2>2, <3>1, <3>3
      <4>2. ASSUME NEW i \in 1..(p + 1 - from) PROVE f.name[i] \in NameChar
        <5>1. i \in 1..(p - from) \/ i = p - from + 1
          BY <1>21
        <5>2. QED
          BY <2>1, <3>1, <3>3, <5>1 DEF nc
      <4>3. sofar1
        BY <4>2
      <4>4. QED
        BY <3>2, <4>1, <4>3 DEF InLine
    <3>4. CASE c \notin NameChar
      <4>1. ~valid
        BY <1>7, <3>1, <3>4 DEF nc
      <4>2. to = "ignore_line" \/ (to \in InLine /\ inv)
        BY <1>1, <1>9, <2>2, <3>1, <3>4 DEF InLine
      <4>3. QED
        BY <3>2, <4>1, <4>2
    <3>5. QED
      BY <3>3, <3>4
  <2>4. CASE p = after
    <3>1. o = n /\ n # 0 /\ p - from = n
      BY <1>21, <2>4
    <3>2. valid
      BY <1>7, <2>1, <3>1
    <3>3. \/ s > 0 /\ c = ":"
          \/ s = 0 /\ v = 0 /\ w = 0 /\ c = ec
      BY <1>3, <1>21, <3>1
    <3>4. CASE s > 0 /\ c = ":"
      <4>1. to = "space_before_value" /\ ~inv /\ b1 = p
        BY <1>1, <1>8, <1>9, <2>2, <3>4
      <4>2. p + 1 \in (from + 1)..(from + u - 1) /\ p + 1 \in (after + 1)..value
        BY <1>21, <2>4, <3>4
      <4>3. QED
        BY <2>4, <3>2, <3>4, <4>1, <4>2 DEF InLine
    <3>5. CASE s = 0 /\ v = 0 /\ w = 0 /\ c = ec
      <4>1. crlf /\ c = CR /\ to = "almost_done" /\ ~inv /\ b1 = p /\ hs1 = p /\ he1 = p
        BY <1>1, <1>8, <1>9, <1>20, <2>2, <3>5
      <4>2. p + 1 \in (from + 1)..(from + u - 1) /\ p + 1 = from + u - 1 /\ p = value /\ p = value + v
        BY <1>21, <2>4, <3>5, <4>1
      <4>3. QED
        BY <2>4, <3>2, <4>1, <4>2 DEF InLine
    <3>6. QED
      BY <3>3, <3>4, <3>5
  <2>5. p < after \/ p = after
    <3>1. p <= after /\ p \in Nat /\ after \in Nat
      <4> HIDE DEF sofar
      <4>1. QED
        BY <1>21, <2>1
    <3>2. QED
      BY <3>1
  <2>6. QED
    BY <2>3, <2>4, <2>5
<1>10. CASE st = "space_before_value"
  <2>1. valid /\ b = after /\ s # 0 /\ p \in (after + 1)..value
    BY <1>4, <1>10
  <2>2. \/ c = SP /\ to = "space_before_value"
        \/ c \notin {SP, CR, LF} /\ to = "value"
        \/ c = CR /\ to = "almost_done"
    BY <1>1, <1>10 DEF HeaderEdge, to
  <2>3. ~inv /\ b1 = after
    BY <1>1, <1>10, <2>1
  <2>4. CASE c = SP
    <3>1. p + 1 \in (from + 1)..(from + u - 1) /\ p + 1 \in (after + 1)..value
      BY <1>3, <1>8, <1>20, <1>21, <2>1, <2>4
    <3>2. to = "space_before_value"
      BY <1>8, <2>2, <2>4
    <3>3. QED
      BY <2>1, <2>3, <3>1, <3>2 DEF InLine
  <2>5. CASE c \notin {SP, CR, LF}
    <3>1. v > 0 /\ p = value /\ p + 1 \in (value + 1)..(value + v) /\ p + 1 \in (from + 1)..(from + u - 1)
      BY <1>3, <1>20, <1>21, <2>1, <2>5
    <3>2. to = "value" /\ hs1 = p
      BY <1>1, <1>10, <2>2, <2>5
    <3>3. QED
      BY <2>1, <2>3, <3>1, <3>2 DEF InLine
  <2>6. CASE c = CR
    <3>1. crlf /\ p = value /\ v = 0 /\ p + 1 = from + u - 1 /\ p + 1 \in (from + 1)..(from + u - 1) /\ p = value + v
      BY <1>3, <1>8, <1>20, <1>21, <2>1, <2>6
    <3>2. to = "almost_done" /\ hs1 = p /\ he1 = p
      BY <1>1, <1>8, <1>10, <2>2, <2>6
    <3>3. QED
      BY <2>1, <2>3, <3>1, <3>2 DEF InLine
  <2>7. QED
    BY <2>2, <2>4, <2>5, <2>6
<1>11. CASE st = "value"
  <2>1. valid /\ b = after /\ v > 0 /\ hs = value /\ p \in (value + 1)..(value + v)
    BY <1>4, <1>11
  <2>2. \/ c = SP /\ to = "space_after_value"
        \/ c \notin {SP, CR, LF} /\ to = "value"
        \/ c = CR /\ to = "almost_done"
    BY <1>1, <1>11 DEF HeaderEdge, to
  <2>3. ~inv /\ b1 = after /\ hs1 = value
    BY <1>1, <1>11, <2>1
  <2>4. CASE c = SP
    <3>1. /\ p + 1 \in (from + 1)..(from + u - 1)
          /\ p + 1 \in (value + 2)..(value + v - 1) \/ (p + 1 \in (value + v + 1)..(value + v + w) /\ p = value + v)
      BY <1>3, <1>8, <1>20, <1>21, <2>1, <2>4
    <3>2. to = "space_after_value" /\ he1 = p
      BY <1>1, <1>8, <1>11, <2>2, <2>4
    <3>3. QED
      BY <2>1, <2>3, <3>1, <3>2 DEF InLine
  <2>5. CASE c \notin {SP, CR, LF}
    <3>1. p + 1 \in (value + 1)..(value + v) /\ p + 1 \in (from + 1)..(from + u - 1)
      BY <1>3, <1>20, <1>21, <2>1, <2>5
    <3>2. to = "value"
      BY <2>2, <2>5
    <3>3. QED
      BY <2>1, <2>3, <3>1, <3>2 DEF InLine
  <2>6. CASE c = CR
    <3>1. crlf /\ p = value + v /\ p + 1 = from + u - 1 /\ p + 1 \in (from + 1)..(from + u - 1)
      BY <1>3, <1>8, <1>20, <1>21, <2>1, <2>6
    <3>2. to = "almost_done" /\ he1 = p
      BY <1>1, <1>8, <1>11, <2>2, <2>6
    <3>3. QED
      BY <2>1, <2>3, <3>1, <3>2 DEF InLine
  <2>7. QED
    BY <2>2, <2>4, <2>5, <2>6
<1>12. CASE st = "space_after_value"
  <2>1. /\ valid /\ b = after /\ v > 0 /\ hs = value
        /\ p \in (value + 2)..(value + v - 1) \/ (p \in (value + v + 1)..(value + v + w) /\ he = value + v)
    BY <1>4, <1>12
  <2>2. \/ c = SP /\ to = "space_after_value"
        \/ c \notin {SP, CR, LF} /\ to = "value"
        \/ c = CR /\ to = "almost_done"
    BY <1>1, <1>12 DEF HeaderEdge, to
  <2>3. ~inv /\ b1 = after /\ hs1 = value /\ he1 = he
    BY <1>1, <1>12, <2>1
  <2>4. CASE c = SP
    <3>1. /\ p + 1 \in (from + 1)..(from + u - 1)
          /\ p + 1 \in (value + 2)..(value + v - 1) \/ (p + 1 \in (value + v + 1)..(value + v + w) /\ he = value + v)
      BY <1>3, <1>8, <1>20, <1>21, <2>1, <2>4
    <3>2. to = "space_after_value"
      BY <1>8, <2>2, <2>4
    <3>3. QED
      BY <2>1, <2>3, <3>1, <3>2 DEF InLine
  <2>5. CASE c \notin {SP, CR, LF}
    <3>1. p + 1 \in (value + 1)..(value + v) /\ p + 1 \in (from + 1)..(from + u - 1)
      BY <1>3, <1>20, <1>21, <2>1, <2>5
    <3>2. to = "value"
      BY <2>2, <2>5
    <3>3. QED
      BY <2>1, <2>3, <3>1, <3>2 DEF InLine
  <2>6. CASE c = CR
    <3>1. crlf /\ he = value + v /\ p + 1 = from + u - 1 /\ p + 1 \in (from + 1)..(from + u - 1)
      BY <1>3, <1>8, <1>20, <1>21, <2>1, <2>6
    <3>2. to = "almost_done"
      BY <1>8, <2>2, <2>6
    <3>3. QED
      BY <2>1, <2>3, <3>1, <3>2 DEF InLine
  <2>7. QED
    BY <2>2, <2>4, <2>5, <2>6
<1>13. CASE st = "almost_done"
  <2>1. crlf /\ p = from + u - 1
    BY <1>4, <1>13
  <2>2. c = LF
    BY <1>3, <1>8, <1>20, <1>21, <2>1
  <2>3. QED
    BY <1>1, <1>8, <1>13, <2>2 DEF HeaderEdge, to
<1>14. QED
  BY <1>1, <1>9, <1>10, <1>11, <1>12, <1>13 DEF InLine

\* A line feed is the last character of a line, and only it.
LEMMA LineFeedEnds ==
  ASSUME NEW f, FieldSizes(f), NEW c, NEW o \in Nat, o < Len(FieldText(f)), FieldChar(f, c, o)
  PROVE  c = LF <=> o = Len(FieldText(f)) - 1
<1> DEFINE n == Len(f.name)  s == Len(f.sep)  v == Len(f.value)  w == Len(f.pad)  u == Len(FieldText(f))
           nc == f.name[o + 1]  ec == IF f.eol = CRLF THEN CR ELSE LF  crlf == f.eol = CRLF
<1>1. /\ n \in Nat /\ s \in Nat /\ v \in Nat /\ w \in Nat
      /\ s = 0 => n > 0 /\ v = 0 /\ w = 0
      /\ u = n + s + v + w + (IF crlf THEN 2 ELSE 1)
  BY DEF FieldSizes
<1>2. \/ o < n /\ c = nc /\ c \notin {":", CR, LF}
      \/ o = n /\ s > 0 /\ c = ":"
      \/ n < o /\ o < n + s /\ c = SP
      \/ n + s <= o /\ o < n + s + v /\ c \notin {CR, LF} /\ (o = n + s \/ o = n + s + v - 1 => c # SP)
      \/ n + s + v <= o /\ o < n + s + v + w /\ c = SP
      \/ o = n + s + v + w /\ c = ec
      \/ o = n + s + v + w + 1 /\ crlf /\ c = LF
  BY DEF FieldChar
<1>3. (crlf => ec = CR) /\ (~crlf => ec = LF) /\ CR # LF /\ SP # LF /\ ":" # LF
  BY DEF CR, LF, SP
<1> HIDE DEF n, s, v, w, u, nc, ec, crlf
<1>4. QED
  BY <1>1, <1>2, <1>3 DEF u

\* The line is complete: its pointers are those of its name and its value.
LEMMA LineComplete ==
  ASSUME Types, mode = "headers", More, HeaderLineTo = "done",
         NEW f, FieldSizes(f), NEW from \in Nat,
         p \in (from + 1)..(from + Len(FieldText(f)) - 1), FieldChar(f, ch, p - from),
         r.header_name_start = from, ValidLine(r, p, f, from)
  PROVE  LET q == HeaderLineChar("start")
             value == from + Len(f.name) + Len(f.sep) + (IF f.value = <<>> THEN Len(f.pad) ELSE 0)
         IN  /\ ValidName(f.name) /\ ~q.invalid_header
             /\ q.header_name_start = from /\ q.header_name_end = from + Len(f.name)
             /\ q.header_start = value /\ q.header_end = value + Len(f.value)
<1> DEFINE q == HeaderLineChar("start")  st == r.state  c == ch
           n == Len(f.name)  s == Len(f.sep)  v == Len(f.value)  w == Len(f.pad)  u == Len(FieldText(f))
           o == p - from  nc == f.name[p - from + 1]  ec == IF f.eol = CRLF THEN CR ELSE LF
           crlf == f.eol = CRLF  novalue == f.value = <<>>  valid == ValidName(f.name)
           after == from + n  value == after + s + (IF f.value = <<>> THEN w ELSE 0)
           b == r.header_name_end  hs == r.header_start  he == r.header_end
           b1 == q.header_name_end  hs1 == q.header_start  he1 == q.header_end
           inv == q.invalid_header
           sofar == \A i \in 1..(p - from) : f.name[i] \in NameChar
<1>1. /\ p \in Nat /\ c \in Char /\ b \in Int /\ hs \in Int /\ he \in Int /\ st \in InLine /\ ~r.invalid_header
      /\ HeaderEdge(st, c, "done")
      /\ q.header_name_start = from
      /\ b1 = (IF st = "name" /\ c \in {":", CR, LF} THEN p ELSE b)
      /\ hs1 = (IF (st = "name" /\ c \in {CR, LF}) \/ (st = "space_before_value" /\ c # SP) THEN p ELSE hs)
      /\ he1 = (IF (st \in {"name", "space_before_value", "value"} /\ c \in {CR, LF}) \/ (st = "value" /\ c = SP) THEN p ELSE he)
      /\ inv <=> (st = "name" /\ c \notin NameChar \cup {":", CR, LF} /\ "start" = "name")
  <2>1. st \in InLine /\ ~r.invalid_header /\ st # "start"
    BY DEF ValidLine, InLine
  <2>2. QED
    BY <2>1, LineFacts
<1>2. /\ n \in Nat /\ s \in Nat /\ v \in Nat /\ w \in Nat
      /\ s = 0 => n > 0 /\ v = 0 /\ w = 0
      /\ u = n + s + v + w + (IF crlf THEN 2 ELSE 1)
      /\ f.name = <<>> <=> n = 0
      /\ DOMAIN f.name = 1..n
      /\ f.sep = <<>> <=> s = 0
      /\ novalue <=> v = 0
  BY DEF FieldSizes
<1>3. c = LF
  BY <1>1 DEF HeaderEdge
<1>4. \/ st = "name" /\ p <= after /\ sofar
      \/ /\ st # "name" /\ valid /\ b = after
         /\ \/ st = "space_before_value" /\ s # 0 /\ p \in (after + 1)..value
            \/ st = "value" /\ v > 0 /\ hs = value /\ p \in (value + 1)..(value + v)
            \/ /\ st = "space_after_value" /\ v > 0 /\ hs = value
               /\ \/ p \in (value + 2)..(value + v - 1)
                  \/ p \in (value + v + 1)..(value + v + w) /\ he = value + v
            \/ st = "almost_done" /\ crlf /\ p = from + u - 1 /\ hs = value /\ he = value + v
  BY <1>2 DEF ValidLine, LinePlace
<1>5. o = u - 1 /\ o \in Nat /\ p = from + o
  <2>1. o \in Nat /\ o < u
    <3>1. u \in Nat
      <4> DEFINE two == IF crlf THEN 2 ELSE 1
      <4>1. u = n + s + v + w + two /\ two \in Nat /\ n \in Nat /\ s \in Nat /\ v \in Nat /\ w \in Nat
        BY <1>2
      <4> HIDE DEF u, n, s, v, w, two
      <4>2. QED
        BY <4>1
    <3> HIDE DEF u
    <3>2. QED
      BY <1>1, <3>1 DEF u
  <2>2. c = LF <=> o = u - 1
    <3> HIDE DEF o
    <3>1. FieldChar(f, c, o)
      BY DEF o
    <3>2. QED
      BY <2>1, <3>1, LineFeedEnds
  <2>3. QED
    BY <1>1, <1>3, <2>1, <2>2
<1>6. value = after + s + (IF v = 0 THEN w ELSE 0) /\ after = from + n
  BY <1>2
<1>7. valid <=> n # 0 /\ \A i \in 1..n : f.name[i] \in NameChar
  <2> HIDE DEF n
  <2>1. QED
    BY <1>2 DEF ValidName
<1>8. sofar <=> \A i \in 1..o : f.name[i] \in NameChar
  OBVIOUS
<1>9. p >= from + 1
  BY <1>1, <1>2
<1>10. CR # LF /\ SP # LF /\ LF # ":"
  BY DEF CR, LF, SP
<1> HIDE DEF q, st, c, n, s, v, w, u, o, nc, ec, crlf, novalue, valid, after, value, b, hs, he, b1, hs1, he1, inv, sofar
<1>11. /\ n \in Nat /\ s \in Nat /\ v \in Nat /\ w \in Nat /\ p \in Nat /\ from \in Nat
       /\ s = 0 => n > 0 /\ v = 0 /\ w = 0
       /\ p = from + n + s + v + w + (IF crlf THEN 1 ELSE 0)
       /\ o = n + s + v + w + (IF crlf THEN 1 ELSE 0)
  BY <1>1, <1>2, <1>5
<1>12. CASE st = "name"
  <2>1. p <= after /\ sofar
    BY <1>4, <1>12
  <2>2. s = 0 /\ v = 0 /\ w = 0 /\ ~crlf /\ o = n /\ n > 0 /\ p = after /\ p = value
    BY <1>6, <1>9, <1>11, <2>1
  <2>3. valid
    BY <1>7, <1>8, <2>1, <2>2
  <2>4. b1 = p /\ hs1 = p /\ he1 = p /\ value + v = p
    BY <1>1, <1>3, <1>11, <1>12, <2>2
  <2>5. QED
    BY <1>1, <2>2, <2>3, <2>4 DEF value, after, v, n, s, w, valid, inv, q, b1, hs1, he1
<1>13. CASE st \in {"space_before_value", "value", "space_after_value", "almost_done"}
  <2>1. valid /\ b = after
    BY <1>4, <1>13
  <2>2. b1 = after /\ hs1 = value /\ he1 = value + v
    <3>1. CASE st = "space_before_value"
      <4>1. p \in (after + 1)..value
        BY <1>4, <3>1
      <4>2. p = value /\ v = 0 /\ p = value + v
        BY <1>6, <1>11, <4>1
      <4>3. QED
        BY <1>1, <1>3, <1>10, <2>1, <3>1, <4>2
    <3>2. CASE st = "value"
      <4>1. p \in (value + 1)..(value + v) /\ hs = value /\ v > 0
        BY <1>4, <3>2
      <4>2. p = value + v
        BY <1>6, <1>11, <4>1
      <4>3. QED
        BY <1>1, <1>3, <2>1, <3>2, <4>1, <4>2
    <3>3. CASE st = "space_after_value"
      <4>1. hs = value /\ v > 0 /\ (p \in (value + 2)..(value + v - 1) \/ he = value + v)
        BY <1>4, <3>3
      <4>2. he = value + v
        BY <1>6, <1>11, <4>1
      <4>3. QED
        BY <1>1, <2>1, <3>3, <4>1, <4>2
    <3>4. CASE st = "almost_done"
      BY <1>1, <1>4, <2>1, <3>4
    <3>5. QED
      BY <1>13, <3>1, <3>2, <3>3, <3>4
  <2>3. QED
    BY <1>1, <2>1, <2>2 DEF value, after, v, n, s, w, valid, inv, q, b1, hs1, he1
<1>14. QED
  BY <1>1, <1>12, <1>13 DEF InLine

-----------------------------------------------------------------------------
(* The parser in the headers of a head.                                    *)

LEMMA FitsNone == ASSUME NEW k PROVE ElementsFit(input, <<>>, k, 0)
<1>1. ValidUpto(input, k, 0) = <<>>
  BY ValidUptoStep
<1>2. QED
  BY <1>1 DEF ElementsFit

\* A line that is no header adds no element, one that is adds its own.
LEMMA FitsSkip ==
  ASSUME NEW k, NEW n \in Nat \ {0}, NEW es, ElementsFit(input, es, k, n - 1), ~ValidName(fields(k)[n].name)
  PROVE  ElementsFit(input, es, k, n)
<1>1. ValidUpto(input, k, n) = ValidUpto(input, k, n - 1)
  BY ValidUptoStep
<1>2. QED
  BY <1>1 DEF ElementsFit

LEMMA FitsAppend ==
  ASSUME NEW k, NEW n \in Nat \ {0}, NEW es \in Seq(AnElement), NEW e \in AnElement,
         ElementsFit(input, es, k, n - 1), ValidName(fields(k)[n].name), Fits(input, e, k, n)
  PROVE  ElementsFit(input, Append(es, e), k, n)
<1> DEFINE a == ValidUpto(input, k, n - 1)  b == ValidUpto(input, k, n)  F(x, j) == Fits(input, x, k, j)
<1>1. b = Append(a, n)
  BY ValidUptoStep
<1>2. a \in Seq(Nat)
  <2>1. n - 1 \in Nat
    OBVIOUS
  <2>2. QED
    BY <2>1, ValidUptoType
<1>3. Len(es) = Len(a) /\ \A i \in DOMAIN a : F(es[i], a[i])
  BY DEF ElementsFit
<1>4. F(e, n)
  OBVIOUS
<1> HIDE DEF a, b, F
<1> DEFINE m == Len(a)
<1>5. m \in Nat /\ DOMAIN a = 1..m /\ Len(es) = m
  BY <1>2, <1>3
<1>6. Len(b) = m + 1 /\ DOMAIN b = 1..(m + 1) /\ b[m + 1] = n /\ \A i \in 1..m : b[i] = a[i]
  BY <1>1, <1>2
<1>7. Len(Append(es, e)) = m + 1 /\ Append(es, e)[m + 1] = e /\ \A i \in 1..m : Append(es, e)[i] = es[i]
  BY <1>5
<1> HIDE DEF m
<1>8. ASSUME NEW i \in 1..(m + 1) PROVE F(Append(es, e)[i], b[i])
  <2>1. CASE i = m + 1
    BY <1>4, <1>6, <1>7, <2>1
  <2>2. CASE i # m + 1
    <3>1. i \in 1..m
      BY <1>5, <2>2
    <3>2. QED
      BY <1>3, <1>5, <1>6, <1>7, <3>1
  <2>3. QED
    BY <2>1, <2>2
<1>9. QED
  BY <1>6, <1>7, <1>8 DEF ElementsFit, F, b

\* The character under the parser is the one the peer has sent.
LEMMA CharHere ==
  ASSUME HeadInv, Untouched, More
  PROVE  ch = Text(input)[p]
<1>1. Types /\ Pointers
  BY DEF HeadInv
<1>2. p \in Nat /\ p \in 1..Len(text)
  BY <1>1, Reading
<1>3. LineStart \in Int /\ LineStart <= p /\ Len(text) \in Nat
  <2>1. r.header_name_start \in Int /\ text \in Seq(Char)
    BY <1>1 DEF Types, RequestT
  <2>2. mode = "headers" /\ r.state \in InLine => r.header_name_start < p
    BY <1>1 DEF Pointers
  <2>3. QED
    BY <1>2, <2>1, <2>2 DEF LineStart
<1>4. p \in LineStart..Len(text)
  BY <1>2, <1>3
<1>5. QED
  BY <1>4 DEF Untouched, ch

\* What is known of header line j of head k and of a character of it.
LEMMA FieldHere ==
  ASSUME input \in Inputs, NEW k \in DOMAIN heads, NEW j \in 1..Len(fields(k)), NEW from, from = FieldFrom(input, k, j),
         NEW f, f = fields(k)[j]
  PROVE  /\ from \in Nat /\ from >= 1 /\ f \in FieldParts /\ FieldForm(f) /\ FieldSizes(f)
         /\ FieldFrom(input, k, j + 1) = from + Len(FieldText(f)) /\ Len(FieldText(f)) \in Nat
         /\ \A x \in from..(from + Len(FieldText(f)) - 1) : FieldChar(f, Text(input)[x], x - from)
<1>1. Len(fields(k)) \in Nat /\ f \in FieldParts /\ FieldForm(f)
  BY InputParts
<1>2. FieldSizes(f) /\ \A i \in 1..Len(FieldText(f)) : FieldChar(f, FieldText(f)[i], i - 1)
  BY <1>1, FieldChars
<1>3. FieldText(f) \in Seq(Char)
  BY <1>1, FieldTextAt
<1>4. /\ from \in Nat /\ from >= 1 /\ FieldFrom(input, k, j + 1) = from + Len(FieldText(f))
      /\ \A i \in 1..Len(FieldText(f)) : Text(input)[from - 1 + i] = FieldText(f)[i]
  BY FieldPlaces
<1> DEFINE t == FieldText(f)  u == Len(t)
<1>5. u \in Nat
  BY <1>3
<1>6. \A i \in 1..u : FieldChar(f, t[i], i - 1) /\ Text(input)[from - 1 + i] = t[i]
  BY <1>2, <1>4
<1> HIDE DEF u, t
<1>7. ASSUME NEW x \in from..(from + u - 1) PROVE FieldChar(f, Text(input)[x], x - from)
  <2> DEFINE i == x - from + 1
  <2>0. from \in Nat
    BY <1>4
  <2>1. i \in 1..u /\ i - 1 = x - from /\ from - 1 + i = x
    BY <1>5, <2>0
  <2> HIDE DEF i
  <2>2. FieldChar(f, t[i], i - 1) /\ Text(input)[from - 1 + i] = t[i]
    BY <1>6, <2>1
  <2>3. QED
    BY <2>1, <2>2
<1>8. QED
  BY <1>1, <1>2, <1>4, <1>5, <1>7 DEF u, t

\* What is known of the end of head k.
LEMMA EndHere ==
  ASSUME input \in Inputs, NEW k \in DOMAIN heads, NEW from, from = FieldFrom(input, k, Len(fields(k)) + 1)
  PROVE  /\ from \in Nat /\ from >= 1
         /\ heads[k].end = CRLF => Text(input)[from] = CR /\ Text(input)[from + 1] = LF /\ From(input, k + 1) = from + 2
         /\ heads[k].end # CRLF => Text(input)[from] = LF /\ From(input, k + 1) = from + 1
<1> DEFINE e == heads[k].end
<1>1. e \in Ends
  BY InputParts
<1>2. /\ e = CRLF => Len(e) = 2 /\ e[1] = CR /\ e[2] = LF
      /\ e # CRLF => Len(e) = 1 /\ e[1] = LF
  BY <1>1 DEF Ends, CRLF
<1>3. /\ from \in Nat /\ from >= 1 /\ from + Len(e) = From(input, k + 1)
      /\ \A i \in 1..Len(e) : Text(input)[from - 1 + i] = e[i]
  BY FieldPlaces
<1> HIDE DEF e
<1>4. CASE e = CRLF
  <2>0. Len(e) = 2 /\ from \in Nat
    BY <1>2, <1>3, <1>4
  <2>1. 1 \in 1..Len(e) /\ 2 \in 1..Len(e) /\ from - 1 + 1 = from /\ from - 1 + 2 = from + 1
    BY <2>0
  <2>2. QED
    BY <1>2, <1>3, <1>4, <2>1 DEF e
<1>5. CASE e # CRLF
  <2>1. 1 \in 1..Len(e) /\ from - 1 + 1 = from
    BY <1>2, <1>3, <1>5
  <2>2. QED
    BY <1>2, <1>3, <1>5, <2>1 DEF e
<1>6. QED
  BY <1>4, <1>5

LEMMA FieldPlaceIs ==
  ASSUME NEW q, NEW x, NEW k, NEW j, NEW f, f = fields(k)[j], NEW from, from = FieldFrom(input, k, j)
  PROVE  FieldPlace(input, q, x, k, j) <=>
           \/ q.state = "start" /\ x = from
           \/ q.state = "header_almost_done" /\ j = Len(fields(k)) + 1 /\ x = from + 1 /\ heads[k].end = CRLF
           \/ /\ j <= Len(fields(k))
              /\ x \in (from + 1)..(from + Len(FieldText(f)) - 1)
              /\ q.state \in InLine => q.header_name_start = from
              /\ InvalidLine(q, f) \/ ValidLine(q, x, f, from)
  BY DEF FieldPlace, fields, heads

\* The first character of a header line.
LEMMA FieldStarts ==
  ASSUME Types, mode = "headers", More, HeaderLineTo \notin {"done", "header_done", "invalid"},
         r' = HeaderLineChar(HeaderLineTo), p' = p + 1, r.state = "start",
         NEW f \in FieldParts, FieldForm(f), FieldSizes(f), FieldChar(f, ch, 0)
  PROVE  /\ p' \in (p + 1)..(p + Len(FieldText(f)) - 1)
         /\ r'.state \in InLine /\ r'.header_name_start = p
         /\ InvalidLine(r', f) \/ ValidLine(r', p', f, p)
<1> DEFINE n == Len(f.name)  s == Len(f.sep)  v == Len(f.value)  w == Len(f.pad)  u == Len(FieldText(f))
           nc == f.name[1]  ec == IF f.eol = CRLF THEN CR ELSE LF  c == ch  crlf == f.eol = CRLF
           valid == ValidName(f.name)
<1>1. p \in Nat /\ c \in Char /\ r.state \in State /\ r \in RequestT
  BY Reading DEF Types
<1>2. HeaderEdge("start", c, HeaderLineTo)
  BY <1>1, HeaderTo
<1>3. (HeaderLineTo = "name" /\ c \in Char \ {CR, LF, NUL}) \/ c = CR
  BY <1>2 DEF HeaderEdge
<1>4. /\ n \in Nat /\ s \in Nat /\ v \in Nat /\ w \in Nat
      /\ s = 0 => n > 0 /\ v = 0 /\ w = 0
      /\ u = n + s + v + w + (IF crlf THEN 2 ELSE 1)
      /\ f.name = <<>> <=> n = 0
      /\ DOMAIN f.name = 1..n
  BY DEF FieldSizes
<1>5. \/ 0 < n /\ c = f.name[0 + 1] /\ c \notin {":", CR, LF}
      \/ 0 = n /\ s > 0 /\ c = ":"
      \/ n < 0 /\ 0 < n + s /\ c = SP
      \/ n + s <= 0 /\ 0 < n + s + v /\ c \notin {CR, LF}
      \/ n + s + v <= 0 /\ 0 < n + s + v + w /\ c = SP
      \/ 0 = n + s + v + w /\ c = ec
      \/ 0 = n + s + v + w + 1 /\ crlf /\ c = LF
  BY DEF FieldChar
<1>6. valid <=> n # 0 /\ \A i \in 1..n : f.name[i] \in NameChar
  <2> HIDE DEF n
  <2>1. QED
    BY <1>4 DEF ValidName
<1> HIDE DEF n, s, v, w, u, nc, ec, crlf, c
<1>7. (n > 0 /\ c = f.name[1] /\ c \notin {":", CR, LF}) \/ (n = 0 /\ s > 0 /\ c = ":")
  <2>1. n \in Nat /\ s \in Nat /\ v \in Nat /\ w \in Nat /\ (s = 0 => n > 0 /\ v = 0 /\ w = 0) /\ 0 + 1 = 1
    BY <1>4
  <2>2. QED
    BY <1>5, <2>1
<1>8. HeaderLineTo = "name"
  BY <1>3, <1>7 DEF CR
<1>9. p + 1 \in (p + 1)..(p + u - 1)
  <2> DEFINE two == IF crlf THEN 2 ELSE 1
  <2>1. two \in Nat /\ two >= 1 /\ u = n + s + v + w + two /\ n \in Nat /\ s \in Nat /\ v \in Nat /\ w \in Nat /\ (s = 0 => n > 0)
    BY <1>4
  <2> HIDE DEF two
  <2>2. QED
    BY <1>1, <2>1
<1>10. /\ r'.state = "name" /\ r'.header_name_start = p
       /\ r'.invalid_header <=> c \notin NameChar \cup {CR, LF}
  BY <1>1, <1>8, HeaderLineCharFields DEF c
<1>11. CASE c \in NameChar
  <2>1. n > 0 /\ c = f.name[1]
    BY <1>7, <1>11 DEF NameChar, Letter, Upper, Digit, UNDERSCORE
  <2>2. \A i \in 1..((p + 1) - p) : f.name[i] \in NameChar
    <3>1. ASSUME NEW i \in 1..((p + 1) - p) PROVE i = 1
      BY <1>1
    <3>2. QED
      BY <1>11, <2>1, <3>1
  <2>3. p + 1 <= p + n
    BY <1>1, <1>4, <2>1
  <2>4. LinePlace(r', p', f, p)
    BY <1>10, <2>2, <2>3 DEF LinePlace, n
  <2>5. ValidLine(r', p', f, p)
    BY <1>10, <1>11, <2>4 DEF ValidLine, InLine
  <2>6. QED
    BY <1>9, <1>10, <2>5 DEF u, InLine
<1>12. CASE c \notin NameChar
  <2>1. c \notin {CR, LF}
    BY <1>7 DEF CR, LF
  <2>2. ~valid
    <3>1. CASE n = 0
      BY <1>6, <3>1
    <3>2. CASE n > 0 /\ c = f.name[1]
      <4>1. 1 \in 1..n
        BY <1>4, <3>2
      <4>2. QED
        BY <1>6, <1>12, <3>2, <4>1
    <3>3. QED
      BY <1>7, <3>1, <3>2
  <2>3. InvalidLine(r', f)
    BY <1>10, <1>12, <2>1, <2>2 DEF InvalidLine, InLine
  <2>4. QED
    BY <1>9, <1>10, <2>3 DEF u, InLine
<1>13. QED
  BY <1>11, <1>12

\* A line that is no header goes on, and ends where the next one starts.
LEMMA InvalidStep ==
  ASSUME Types, mode = "headers", More, HeaderLineTo \notin {"done", "header_done", "invalid"},
         r' = HeaderLineChar(HeaderLineTo), p' = p + 1,
         NEW f, FieldSizes(f), Len(FieldText(f)) \in Nat, NEW from \in Nat,
         p \in (from + 1)..(from + Len(FieldText(f)) - 1), FieldChar(f, ch, p - from),
         r.state \in InLine => r.header_name_start = from, InvalidLine(r, f)
  PROVE  \/ r'.state = "start" /\ p' = from + Len(FieldText(f))
         \/ /\ p' \in (from + 1)..(from + Len(FieldText(f)) - 1)
            /\ r'.state \in InLine => r'.header_name_start = from
            /\ InvalidLine(r', f)
<1> DEFINE u == Len(FieldText(f))  o == p - from  c == ch  to == HeaderLineTo  st == r.state
<1>1. p \in Nat /\ c \in Char /\ st \in State /\ r \in RequestT
  BY Reading DEF Types
<1>2. o \in Nat /\ u \in Nat /\ o < u /\ p = from + o
  <2> HIDE DEF u
  <2>1. QED
    BY <1>1 DEF u
<1>3. c = LF <=> o = u - 1
  <2> HIDE DEF o
  <2>1. FieldChar(f, c, o)
    BY DEF o
  <2>2. QED
    BY <1>2, <2>1, LineFeedEnds
<1>4. HeaderEdge(st, c, to) \/ (st = "name" /\ c = "/" /\ to = "ignore_line")
  BY <1>1, HeaderTo
<1>5. r'.state = to
  BY <1>1, HeaderLineCharFields
<1>6. c # LF => p + 1 \in (from + 1)..(from + u - 1)
  <2> HIDE DEF u, o, c
  <2>1. QED
    BY <1>2, <1>3
<1>7. c = LF => p + 1 = from + u
  <2> HIDE DEF u, o, c
  <2>1. QED
    BY <1>2, <1>3
<1>8. CASE st = "ignore_line"
  <2>1. (c = LF /\ to = "start") \/ (c # LF /\ to = "ignore_line")
    BY <1>4, <1>8 DEF HeaderEdge
  <2>2. QED
    BY <1>5, <1>6, <1>7, <2>1 DEF InvalidLine, InLine
<1>9. CASE st \in InLine /\ r.invalid_header
  <2>1. st # "start"
    BY <1>9 DEF InLine
  <2>2. r'.header_name_start = from /\ (r'.invalid_header <=> TRUE)
    BY <1>9, <2>1, LineFacts
  <2>3. c # LF /\ to \in InLine \cup {"ignore_line"}
    <3>1. CASE HeaderEdge(st, c, to)
      BY <1>9, <3>1 DEF HeaderEdge, InLine, CR, LF, SP
    <3>2. CASE c = "/" /\ to = "ignore_line"
      BY <3>2 DEF LF
    <3>3. QED
      BY <1>4, <3>1, <3>2
  <2>4. InvalidLine(r', f)
    BY <1>5, <2>2, <2>3 DEF InvalidLine
  <2>5. QED
    BY <1>6, <2>2, <2>3, <2>4
<1>10. QED
  BY <1>8, <1>9 DEF InvalidLine

\* A character of the headers of head k.
LEMMA FieldStep ==
  ASSUME Types, mode = "headers", More, HeaderLineTo \notin {"done", "header_done", "invalid"},
         r' = HeaderLineChar(HeaderLineTo), p' = p + 1, ch = Text(input)[p],
         NEW k \in DOMAIN heads, NEW j \in 1..(Len(fields(k)) + 1), FieldPlace(input, r, p, k, j)
  PROVE  \/ FieldPlace(input, r', p', k, j)
         \/ j <= Len(fields(k)) /\ ~ValidName(fields(k)[j].name) /\ FieldPlace(input, r', p', k, j + 1)
<1> DEFINE n == Len(fields(k))  In(q, x, i) == FieldPlace(input, q, x, k, i)
<1>0. input \in Inputs /\ n \in Nat /\ r \in RequestT
  BY InputParts DEF Types
<1>1. p \in Nat /\ ch \in Char /\ r.state \in State
  BY Reading
<1>2. HeaderEdge(r.state, ch, HeaderLineTo) \/ (r.state = "name" /\ ch = "/" /\ HeaderLineTo = "ignore_line")
  BY <1>1, HeaderTo
<1>3. r'.state = HeaderLineTo
  BY <1>0, HeaderLineCharFields
<1>4. PICK from : from = FieldFrom(input, k, j)
  OBVIOUS
<1>5. PICK f : f = fields(k)[j]
  OBVIOUS
<1>6. \A q, x :
        In(q, x, j) <=>
           \/ q.state = "start" /\ x = from
           \/ q.state = "header_almost_done" /\ j = n + 1 /\ x = from + 1 /\ heads[k].end = CRLF
           \/ /\ j <= n
              /\ x \in (from + 1)..(from + Len(FieldText(f)) - 1)
              /\ q.state \in InLine => q.header_name_start = from
              /\ InvalidLine(q, f) \/ ValidLine(q, x, f, from)
  BY <1>4, <1>5, FieldPlaceIs
<1>7. CASE j = n + 1
  <2>1. /\ from \in Nat
        /\ heads[k].end = CRLF => Text(input)[from] = CR /\ Text(input)[from + 1] = LF
        /\ heads[k].end # CRLF => Text(input)[from] = LF
    BY <1>0, <1>4, <1>7, EndHere
  <2>2. ~(j <= n)
    BY <1>0, <1>7
  <2>3. CASE r.state = "start" /\ p = from
    <3>1. HeaderLineTo = "header_almost_done" /\ heads[k].end = CRLF
      BY <1>2, <2>1, <2>3 DEF HeaderEdge, CR, LF
    <3>2. QED
      BY <1>3, <1>6, <1>7, <2>3, <3>1
  <2>4. CASE r.state = "header_almost_done"
    BY <1>2, <2>4 DEF HeaderEdge
  <2>5. QED
    BY <1>6, <2>2, <2>3, <2>4
<1>8. CASE j \in 1..n
  <2>1. /\ from \in Nat /\ f \in FieldParts /\ FieldForm(f) /\ FieldSizes(f) /\ Len(FieldText(f)) \in Nat
        /\ FieldFrom(input, k, j + 1) = from + Len(FieldText(f))
        /\ \A x \in from..(from + Len(FieldText(f)) - 1) : FieldChar(f, Text(input)[x], x - from)
    BY <1>0, <1>4, <1>5, <1>8, FieldHere
  <2> DEFINE u == Len(FieldText(f))
  <2>2. j <= n /\ j # n + 1
    BY <1>0, <1>8
  <2>3. CASE r.state = "start" /\ p = from
    <3>1. u > 0
      <4> DEFINE two == IF f.eol = CRLF THEN 2 ELSE 1
                 a == Len(f.name)  b == Len(f.sep)  c == Len(f.value)  d == Len(f.pad)
      <4>1. /\ u = a + b + c + d + two /\ two >= 1 /\ two \in Nat
            /\ a \in Nat /\ b \in Nat /\ c \in Nat /\ d \in Nat
        BY <2>1 DEF FieldSizes
      <4> HIDE DEF two, u, a, b, c, d
      <4>2. QED
        BY <4>1
    <3>2. p \in from..(from + u - 1) /\ p - from = 0
      <4> HIDE DEF u
      <4>1. QED
        BY <2>1, <2>3, <3>1 DEF u
    <3>3. FieldChar(f, ch, 0)
      BY <2>1, <3>2
    <3>4. /\ p' \in (p + 1)..(p + Len(FieldText(f)) - 1)
          /\ r'.state \in InLine /\ r'.header_name_start = p
          /\ InvalidLine(r', f) \/ ValidLine(r', p', f, p)
      BY <2>1, <2>3, <3>3, FieldStarts
    <3>5. QED
      BY <1>6, <2>2, <2>3, <3>4
  <2>4. CASE /\ p \in (from + 1)..(from + u - 1)
             /\ r.state \in InLine => r.header_name_start = from
             /\ InvalidLine(r, f) \/ ValidLine(r, p, f, from)
    <3>1. p \in from..(from + u - 1)
      <4> HIDE DEF u
      <4>1. QED
        BY <2>1, <2>4 DEF u
    <3>2. FieldChar(f, ch, p - from)
      BY <2>1, <3>1
    <3>3. CASE InvalidLine(r, f)
      <4>1. \/ r'.state = "start" /\ p' = from + u
            \/ /\ p' \in (from + 1)..(from + u - 1)
               /\ r'.state \in InLine => r'.header_name_start = from
               /\ InvalidLine(r', f)
        BY <2>1, <2>4, <3>2, <3>3, InvalidStep
      <4>2. CASE r'.state = "start" /\ p' = from + u
        <5>1. ~ValidName(fields(k)[j].name)
          BY <1>5, <3>3 DEF InvalidLine
        <5>2. In(r', p', j + 1)
          BY <2>1, <4>2 DEF FieldPlace
        <5>3. QED
          BY <2>2, <5>1, <5>2
      <4>3. QED
        BY <1>6, <2>2, <4>1, <4>2
    <3>4. CASE ValidLine(r, p, f, from)
      <4>1. r.header_name_start = from
        BY <2>4, <3>4 DEF ValidLine
      <4>2. /\ p' \in (from + 1)..(from + u - 1)
            /\ r'.state \in InLine => r'.header_name_start = from
            /\ InvalidLine(r, f)' \/ ValidLine(r, p, f, from)'
        BY <2>1, <2>4, <3>2, <3>4, <4>1, LineStep
      <4>3. QED
        BY <1>6, <2>2, <4>2
    <3>5. QED
      BY <2>4, <3>3, <3>4
  <2>5. QED
    BY <1>6, <2>2, <2>3, <2>4
<1>9. QED
  BY <1>0, <1>7, <1>8

-----------------------------------------------------------------------------
(* The parsers stay where the parts of the buffer say they are.            *)

LEMMA AgreeInit == Init => AgreeInv
<1> SUFFICES ASSUME Init PROVE AgreeInv
  OBVIOUS
<1>1. input \in Inputs /\ sent = <<>> /\ p = 1 /\ text = Text(input) /\ mode \in {"request_line", "status_line"}
  BY DEF Init
<1>2. Len(heads) \in Nat /\ DOMAIN heads = 1..Len(heads) /\ From(input, 1) = 1
  BY <1>1, InputParts, HeadPlaces
<1>3. sent \in Seq([chain : Pieces, elements : Seq(AnElement)]) /\ Cur = 1
  BY <1>1 DEF Cur
<1>4. SentFit /\ Untouched
  BY <1>1, <1>2 DEF SentFit, Untouched
<1>5. Place
  <2>1. CASE Len(heads) = 0
    BY <1>1, <1>2, <1>3, <2>1 DEF Place
  <2>2. CASE Len(heads) # 0
    <3>1. 1 \in DOMAIN heads
      BY <1>2, <2>2
    <3>2. LineText(heads[1]) \in Seq(Char) /\ LineText(heads[1]) # <<>>
      BY <1>1, <3>1, InputParts DEF LineForm
    <3> DEFINE n == Len(LineText(heads[1]))
    <3>3. n \in Nat /\ n # 0
      BY <3>2
    <3> HIDE DEF n
    <3>4. p \in From(input, 1)..(From(input, 1) + n - 1)
      BY <1>1, <1>2, <3>3
    <3>5. QED
      BY <1>1, <1>2, <1>3, <3>1, <3>4 DEF Place, n
  <2>3. QED
    BY <2>1, <2>2
<1>6. QED
  BY <1>3, <1>4, <1>5 DEF AgreeInv

LEMMA UntouchedKept ==
  ASSUME Untouched, UNCHANGED <<input, text>>, Len(text) \in Nat, LineStart \in Int, LineStart' \in Int, LineStart <= LineStart'
  PROVE  Untouched'
<1> SUFFICES ASSUME NEW x \in (LineStart')..Len(text) PROVE text[x] = Text(input)[x]
  BY DEF Untouched
<1>1. x \in LineStart..Len(text)
  OBVIOUS
<1>2. QED
  BY <1>1 DEF Untouched

\* A step outside the header lines.
LEMMA Outside ==
  ASSUME HeadInv, HeadInv', AgreeInv, UNCHANGED <<input, text, sent>>, p <= p',
         ~(mode' = "headers" /\ r'.state \in InLine), Place'
  PROVE  AgreeInv'
<1>1. p \in Int /\ p' \in Int /\ r.header_name_start \in Int /\ Len(text) \in Nat
  BY HeadAssumption DEF HeadInv, Types, RequestT
<1>2. LineStart \in Int /\ LineStart <= p
  BY <1>1 DEF LineStart, Pointers, HeadInv
<1>3. LineStart' = p'
  BY DEF LineStart
<1>4. Untouched'
  BY <1>1, <1>2, <1>3, UntouchedKept DEF AgreeInv
<1>5. SentFit'
  BY DEF AgreeInv, SentFit, heads, fields
<1>6. QED
  BY <1>4, <1>5 DEF AgreeInv

LEMMA Stopped ==
  ASSUME HeadInv, HeadInv', AgreeInv, UNCHANGED <<input, text, sent>>, p <= p', mode' \in {"idle", "crashed", "spinning"}
  PROVE  AgreeInv'
<1>1. Place' /\ mode' # "headers"
  BY DEF Place
<1>2. QED
  BY <1>1, Outside

\* The parser in the first line of head k.
LEMMA FirstLine ==
  ASSUME HeadInv, AgreeInv, More, mode \in {"request_line", "status_line"}, NEW k, k = Cur
  PROVE  LET l == Len(LineText(heads[k])) IN
         /\ k \in DOMAIN heads /\ l \in Nat /\ From(input, k) \in Nat
         /\ p \in From(input, k)..(From(input, k) + l - 1) /\ FieldFrom(input, k, 1) = From(input, k) + l
         /\ ch = LF <=> p = From(input, k) + l - 1
         /\ r.state = "start" => ch \notin {CR, LF}
<1>1. Types /\ Untouched /\ Place
  BY DEF HeadInv, AgreeInv
<1>2. input \in Inputs /\ p \in 1..Len(text) /\ p \in Nat /\ Len(text) = Len(Text(input)) /\ Len(text) \in Nat
  <2>1. text \in Seq(Char)
    BY <1>1 DEF Types
  <2>2. QED
    BY <1>1, <2>1, Reading DEF Types
<1>3. ch = Text(input)[p]
  BY <1>1, CharHere
<1>4. /\ k \in DOMAIN heads
      /\ p \in From(input, k)..(From(input, k) + Len(LineText(heads[k])) - 1)
      /\ r.state = "start" => p = From(input, k)
  <2>1. From(input, Len(heads) + 1) = Len(text) + 1
    BY <1>2, HeadPlaces
  <2>2. k # Len(heads) + 1 \/ p # From(input, k)
    <3> DEFINE n == Len(text)
    <3>1. n \in Nat /\ p \in 1..n /\ From(input, Len(heads) + 1) = n + 1
      BY <1>2, <2>1
    <3> HIDE DEF n
    <3>2. p # n + 1
      BY <3>1
    <3>3. QED
      BY <3>1, <3>2
  <2>3. QED
    BY <1>1, <2>2 DEF Place
<1> DEFINE t == LineText(heads[k])  l == Len(t)  b == From(input, k)
<1>5. t \in Seq(Char) /\ t[1] \notin {CR, LF} /\ \A i \in DOMAIN t : t[i] = LF <=> i = l
  BY <1>2, <1>4, InputParts DEF LineForm
<1>6. b \in Nat
  BY <1>2, <1>4, HeadPlaces
<1>7. l \in Nat /\ b + l = FieldFrom(input, k, 1) /\ \A i \in 1..l : Text(input)[b - 1 + i] = t[i]
  BY <1>2, <1>4, FieldPlaces
<1>8. DOMAIN t = 1..l
  BY <1>5
<1>9. p \in b..(b + l - 1) /\ (r.state = "start" => p = b)
  BY <1>4
<1> HIDE DEF t, l, b
<1> DEFINE i == p - b + 1
<1>10. i \in 1..l /\ b - 1 + i = p /\ (p = b => i = 1) /\ (i = l <=> p = b + l - 1)
  BY <1>6, <1>7, <1>9
<1> HIDE DEF i
<1>11. ch = t[i] /\ (t[i] = LF <=> i = l)
  BY <1>3, <1>5, <1>7, <1>8, <1>10
<1>12. ch = LF <=> p = b + l - 1
  BY <1>10, <1>11
<1>13. r.state = "start" => ch \notin {CR, LF}
  BY <1>5, <1>9, <1>10, <1>11
<1>14. QED
  BY <1>4, <1>6, <1>7, <1>9, <1>12, <1>13 DEF t, l, b

\* The first line goes on.
LEMMA FirstLineGoesOn ==
  ASSUME HeadInv, HeadInv', AgreeInv, More, mode \in {"request_line", "status_line"},
         UNCHANGED <<input, text, mode, sent>>, p' \in {p, p + 1}, ch # LF, r'.state # "start"
  PROVE  AgreeInv'
<1>1. PICK k : k = Cur
  OBVIOUS
<1> DEFINE l == Len(LineText(heads[k]))  b == From(input, k)
<1>2. k \in DOMAIN heads /\ l \in Nat /\ b \in Nat /\ p \in b..(b + l - 1) /\ (ch = LF <=> p = b + l - 1)
  BY <1>1, FirstLine
<1> HIDE DEF l, b
<1>3. p' \in b..(b + l - 1) /\ p <= p'
  BY <1>2
<1>4. Cur' = k /\ heads' = heads
  BY <1>1 DEF Cur, heads
<1>5. p' \in From(input', Cur')..(From(input', Cur') + Len(LineText(heads'[Cur'])) - 1)
  BY <1>3, <1>4 DEF l, b
<1>6. Cur' \in DOMAIN heads'
  BY <1>2, <1>4
<1>7. Place'
  BY <1>5, <1>6 DEF Place
<1>8. QED
  BY <1>3, <1>7, Outside

\* The first line is complete: the headers follow.
LEMMA FirstLineEnds ==
  ASSUME HeadInv, HeadInv', AgreeInv, More, mode \in {"request_line", "status_line"}, mode' = "headers",
         UNCHANGED <<input, text, sent>>, p' = p + 1, ch = LF, r'.state = "start", elements' = <<>>
  PROVE  AgreeInv'
<1>1. PICK k : k = Cur
  OBVIOUS
<1> DEFINE l == Len(LineText(heads[k]))  b == From(input, k)
<1>2. /\ k \in DOMAIN heads /\ l \in Nat /\ b \in Nat /\ p \in b..(b + l - 1) /\ (ch = LF <=> p = b + l - 1)
      /\ FieldFrom(input, k, 1) = b + l
  BY <1>1, FirstLine
<1> HIDE DEF l, b
<1>3. p' = b + l /\ p <= p'
  BY <1>2
<1>4. Cur' = k /\ heads' = heads
  BY <1>1 DEF Cur, heads
<1>5. FieldPlace(input, r', p', k, 1)
  BY <1>2, <1>3 DEF FieldPlace
<1>6. ElementsFit(input, elements', k, 1 - 1)
  BY FitsNone
<1>7. 1 \in 1..(Len(fields(k)) + 1)
  <2>1. Len(fields(k)) \in Nat
    BY <1>2, InputParts DEF HeadInv, Types
  <2>2. QED
    BY <2>1
<1>8. Place'
  BY <1>2, <1>4, <1>5, <1>6, <1>7 DEF Place, fields
<1>9. QED
  BY <1>3, <1>8, Outside DEF InLine

LEMMA RequestLineAgrees ==
  ASSUME HeadInv, HeadInv', AgreeInv, request_line_char \/ request_line_done
  PROVE  AgreeInv'
<1>1. mode = "request_line" /\ More /\ UNCHANGED <<input, text, sent>>
  BY DEF request_line_char, request_line_done
<1>2. r \in RequestT /\ p \in Nat /\ ch \in Char /\ r.state \in State
  BY <1>1, Reading DEF HeadInv, Types
<1>3. r.state = "start" => ch \notin {CR, LF}
  <2>1. PICK k : k = Cur
    OBVIOUS
  <2>2. QED
    BY <1>1, <2>1, FirstLine
<1> DEFINE to == RequestLineMove[r.state][ch]
<1>4. CASE request_line_char
  <2>1. to \notin {"done", "invalid"} /\ r' = RequestLineChar(to) /\ p' \in {p, p + 1} /\ mode' = mode
    BY <1>4 DEF request_line_char
  <2>2. to # "start" /\ ch # LF
    BY <1>2, <1>3, <2>1, RequestTarget
  <2> HIDE DEF to
  <2>3. r'.state # "start"
    BY <1>2, <2>1, <2>2, RequestLineCharFields
  <2>4. QED
    BY <1>1, <2>1, <2>2, <2>3, FirstLineGoesOn
<1>5. CASE request_line_done
  <2>1. /\ to = "done" /\ p' = p + 1 /\ elements' = <<>>
        /\ r' \in {RequestLineDone, http_request_line_parsed(RequestLineDone)} /\ mode' \in {"idle", "headers"}
    BY <1>5 DEF request_line_done
  <2>2. ch = LF
    BY <1>2, <2>1, RequestTarget
  <2>3. r'.state = "start"
    BY <1>2, <2>1, RequestLineDoneType
  <2>4. p <= p'
    BY <1>2, <2>1
  <2>5. CASE mode' = "headers"
    BY <1>1, <2>1, <2>2, <2>3, <2>5, FirstLineEnds
  <2>6. CASE mode' = "idle"
    BY <1>1, <2>4, <2>6, Stopped
  <2>7. QED
    BY <2>1, <2>5, <2>6
<1>6. QED
  BY <1>4, <1>5

LEMMA StatusLineAgrees ==
  ASSUME HeadInv, HeadInv', AgreeInv, status_line_char \/ status_line_done
  PROVE  AgreeInv'
<1>1. mode = "status_line" /\ More /\ UNCHANGED <<input, text, sent>> /\ p' = p + 1
  BY DEF status_line_char, status_line_done
<1>2. r \in RequestT /\ p \in Nat /\ ch \in Char /\ r.state \in State
  BY <1>1, Reading DEF HeadInv, Types
<1>3. CASE status_line_char
  <2>1. StatusLineTo \notin {"done", "invalid"} /\ r' = StatusLineChar(StatusLineTo) /\ mode' = mode
    BY <1>3 DEF status_line_char
  <2>2. StatusLineTo # "start" /\ ch # LF
    BY <1>2, <2>1, StatusTo
  <2>3. r'.state # "start"
    BY <1>2, <2>1, <2>2, StatusLineCharFields
  <2>4. QED
    BY <1>1, <2>1, <2>2, <2>3, FirstLineGoesOn
<1>4. CASE status_line_done
  <2> DEFINE w == StatusLineChar("start")  e == IF w.status_end = NULL THEN p ELSE w.status_end
  <2>1. StatusLineTo = "done" /\ elements' = <<>> /\ r' = [w EXCEPT !.status_end = e] /\ mode' = "headers"
    BY <1>4 DEF status_line_done
  <2>2. ch = LF
    BY <1>2, <2>1, StatusTo
  <2>3. w \in RequestT /\ w.state = "start"
    BY <1>2, StatusLineCharType, StatusLineCharFields, HeaderStates
  <2> HIDE DEF w, e
  <2>4. r'.state = "start"
    BY <2>1, <2>3 DEF RequestT
  <2>5. QED
    BY <1>1, <2>1, <2>2, <2>4, FirstLineEnds
<1>5. QED
  BY <1>3, <1>4

LEMMA HeaderLineCharAgrees ==
  ASSUME HeadInv, HeadInv', AgreeInv, header_line_char
  PROVE  AgreeInv'
<1>1. /\ mode = "headers" /\ More /\ HeaderLineTo \notin {"done", "header_done", "invalid"}
      /\ r' = HeaderLineChar(HeaderLineTo) /\ p' = p + 1
      /\ UNCHANGED <<input, text, mode, elements, sent>>
  BY DEF header_line_char
<1>2. Types /\ Pointers /\ Untouched /\ SentFit /\ Place
  BY DEF HeadInv, AgreeInv
<1>3. ch = Text(input)[p]
  BY <1>1, <1>2, CharHere
<1>4. PICK k : k = Cur
  OBVIOUS
<1>5. k \in DOMAIN heads /\ \E j \in 1..(Len(fields(k)) + 1) : FieldPlace(input, r, p, k, j) /\ ElementsFit(input, elements, k, j - 1)
  BY <1>1, <1>2, <1>4 DEF Place
<1>6. PICK j \in 1..(Len(fields(k)) + 1) : FieldPlace(input, r, p, k, j) /\ ElementsFit(input, elements, k, j - 1)
  BY <1>5
<1>7. Len(fields(k)) \in Nat
  BY <1>2, <1>5, InputParts DEF Types
<1>8. \/ FieldPlace(input, r', p', k, j)
      \/ j <= Len(fields(k)) /\ ~ValidName(fields(k)[j].name) /\ FieldPlace(input, r', p', k, j + 1)
  BY <1>1, <1>2, <1>3, <1>5, <1>6, FieldStep
<1>9. \E i \in 1..(Len(fields(k)) + 1) : FieldPlace(input, r', p', k, i) /\ ElementsFit(input, elements, k, i - 1)
  <2>1. CASE FieldPlace(input, r', p', k, j)
    BY <1>6, <2>1
  <2>2. CASE j <= Len(fields(k)) /\ ~ValidName(fields(k)[j].name) /\ FieldPlace(input, r', p', k, j + 1)
    <3> DEFINE m == j + 1
    <3>1. j \in Nat \ {0} /\ m \in 1..(Len(fields(k)) + 1) /\ m - 1 = j
      BY <1>7, <2>2
    <3>2. ElementsFit(input, elements, k, j)
      BY <1>6, <2>2, <3>1, FitsSkip
    <3>3. FieldPlace(input, r', p', k, m) /\ ElementsFit(input, elements, k, m - 1)
      BY <2>2, <3>1, <3>2
    <3> HIDE DEF m
    <3>4. QED
      BY <3>1, <3>3
  <2>3. QED
    BY <1>8, <2>1, <2>2
<1>10. Cur' = k /\ heads' = heads
  BY <1>1, <1>4 DEF Cur, heads
<1>11. Place'
  BY <1>1, <1>5, <1>9, <1>10 DEF Place, fields
<1>12. LineStart \in Int /\ LineStart' \in Int /\ LineStart <= LineStart'
  BY <1>1, <1>2, PointersMove
<1>13. Untouched'
  <2>1. Len(text) \in Nat
    BY <1>2 DEF Types
  <2>2. QED
    BY <1>1, <1>2, <1>12, <2>1, UntouchedKept
<1>14. SentFit'
  BY <1>1, <1>2 DEF SentFit, heads, fields
<1>15. QED
  BY <1>1, <1>11, <1>13, <1>14 DEF AgreeInv

LEMMA SubSeqIs ==
  ASSUME NEW S, NEW t \in Seq(S), NEW w \in Seq(S), NEW a \in Nat, a >= 1, a + Len(w) - 1 <= Len(t),
         \A i \in 1..Len(w) : t[a - 1 + i] = w[i]
  PROVE  SubSeq(t, a, a + Len(w) - 1) = w
<1> DEFINE n == Len(w)  b == a + n - 1  u == SubSeq(t, a, b)
<1>1. n \in Nat /\ Len(t) \in Nat
  OBVIOUS
<1> HIDE DEF n
<1>2. b \in Int /\ b <= Len(t) /\ b - a + 1 = n /\ a <= b + 1 /\ (a <= b <=> n > 0)
  BY <1>1 DEF n
<1> HIDE DEF b
<1>3. u \in Seq(S) /\ Len(u) = (IF a <= b THEN b - a + 1 ELSE 0)
  BY <1>1, <1>2, SubSeqProperties
<1>4. Len(u) = n
  BY <1>1, <1>2, <1>3
<1>5. ASSUME NEW i \in 1..n PROVE u[i] = w[i]
  <2>1. i \in 1..(b - a + 1)
    BY <1>2
  <2>2. u[i] = t[a + i - 1]
    BY <1>1, <1>2, <2>1, SubSeqProperties
  <2>3. a + i - 1 = a - 1 + i
    BY <1>1
  <2>4. QED
    BY <2>2, <2>3 DEF n
<1> HIDE DEF u
<1>6. u = w
  <2>1. u = [i \in 1..n |-> u[i]] /\ w = [i \in 1..n |-> w[i]]
    BY <1>3, <1>4 DEF n
  <2>2. QED
    BY <1>5, <2>1
<1>7. QED
  BY <1>6 DEF u, b, n

\* SubSeqIs as a formula, about characters.
LEMMA SubSeqIsAll ==
  \A t, w \in Seq(Char) : \A a \in Nat :
    a >= 1 /\ a + Len(w) - 1 <= Len(t) /\ (\A i \in 1..Len(w) : t[a - 1 + i] = w[i]) => SubSeq(t, a, a + Len(w) - 1) = w
<1> SUFFICES ASSUME NEW t \in Seq(Char), NEW w \in Seq(Char), NEW a \in Nat, a >= 1, a + Len(w) - 1 <= Len(t),
                    \A i \in 1..Len(w) : t[a - 1 + i] = w[i]
             PROVE  SubSeq(t, a, a + Len(w) - 1) = w
  OBVIOUS
<1>1. QED
  BY SubSeqIs

\* A complete line makes the element its parts say.
\* The same for a part of a copy.
SameFrom(x, T, from) == \A i \in from..Len(x) : x[i] = T[i]
Holds(T, from, t, u) == \A i \in 1..u : T[from - 1 + i] = t[i]
HasPart(t, o, w, u) == o + Len(w) <= u /\ \A i \in 1..Len(w) : t[o + i] = w[i]
CutOut(x, from, o, w) == SubSeq(x, from + o, from + o + Len(w) - 1) = w
Reaches(x, from, o, w) == from + o + Len(w) - 1 <= Len(x)

LEMMA PartCopied ==
  ASSUME NEW x \in Seq(Char), NEW T, NEW t, NEW w \in Seq(Char), NEW from \in Nat, NEW o \in Nat, NEW u \in Nat, from >= 1,
         SameFrom(x, T, from), Holds(T, from, t, u), HasPart(t, o, w, u), Reaches(x, from, o, w)
  PROVE  CutOut(x, from, o, w)
<1>1. ASSUME NEW i \in 1..Len(w) PROVE x[from + o - 1 + i] = w[i]
  <2>1. Len(w) \in Nat /\ Len(x) \in Nat
    OBVIOUS
  <2>2. /\ from + o - 1 + i \in from..Len(x) /\ o + i \in 1..u /\ from + o - 1 + i = from - 1 + (o + i)
    BY <2>1 DEF HasPart, Reaches
  <2>3. T[from - 1 + (o + i)] = t[o + i] /\ t[o + i] = w[i]
    BY <2>2 DEF Holds, HasPart
  <2>4. QED
    BY <2>2, <2>3 DEF SameFrom
<1>2. from + o \in Nat /\ from + o >= 1
  OBVIOUS
<1>3. QED
  BY <1>1, <1>2, SubSeqIs DEF CutOut, Reaches

LEMMA LineElement ==
  ASSUME Types, Pointers, Untouched, mode = "headers", More, HeaderLineTo = "done",
         NEW f \in FieldParts, FieldSizes(f), NEW from \in Nat, from >= 1, FieldChar(f, ch, p - from),
         \A i \in 1..Len(FieldText(f)) : Text(input)[from - 1 + i] = FieldText(f)[i],
         p \in (from + 1)..(from + Len(FieldText(f)) - 1), r.header_name_start = from, ValidLine(r, p, f, from)
  PROVE  LET q == HeaderLineChar("start")  e == Element(q)
             value == from + Len(f.name) + Len(f.sep) + (IF f.value = <<>> THEN Len(f.pad) ELSE 0)
         IN  /\ ValidName(f.name) /\ ~q.invalid_header /\ e \in AnElement
             /\ e.key = Piece(from, Len(f.name)) /\ e.value.from = value
             /\ e.value.len = IF IsHost(f.name) THEN http_process_host(f.value).length ELSE Len(f.value)
<1>1. text \in Seq(Char) /\ Len(FieldText(f)) \in Nat
  BY FieldTextAt DEF Types
<1>2. p \in Nat /\ p \in 1..Len(text) /\ Len(text) \in Nat
  BY <1>1, Reading
<1> DEFINE n == Len(f.name)  s == Len(f.sep)  v == Len(f.value)  w == Len(f.pad)  t == FieldText(f)  u == Len(t)
           novalue == f.value = <<>>
           value == from + n + s + (IF novalue THEN w ELSE 0)
           q == HeaderLineChar("start")  e == Element(q)
<1>3. /\ ValidName(f.name) /\ ~q.invalid_header
      /\ q.header_name_start = from /\ q.header_name_end = from + n
      /\ q.header_start = value /\ q.header_end = value + v
  BY LineComplete
<1>4. /\ q \in RequestT
      /\ 1 <= q.header_name_start /\ q.header_name_start < q.header_name_end
      /\ q.header_name_end <= q.header_start /\ q.header_start <= q.header_end /\ q.header_end <= p
      /\ r.state \in InLine
  BY <1>1, LineDone
<1> HIDE DEF q
<1>5. /\ e \in AnElement /\ e.key = Key(q) /\ e.value.from = q.header_start
      /\ ~IsHost(Chars(text, Key(q))) => e.value = Val(q)
      /\ IsHost(Chars(text, Key(q))) => e.value.len = http_process_host(Chars(text, Val(q))).length
  BY <1>1, <1>4, ElementPlaced
<1>6. /\ n \in Nat /\ s \in Nat /\ v \in Nat /\ w \in Nat
      /\ f.name \in Seq(Char) /\ f.sep \in Seq(Char) /\ f.value \in Seq(Char)
      /\ u >= n + s + v + w
      /\ \A i \in 1..n : t[i] = f.name[i]
      /\ \A i \in 1..v : t[n + s + i] = f.value[i]
  <2>1. /\ n \in Nat /\ s \in Nat /\ v \in Nat /\ w \in Nat
        /\ f.name \in Seq(Char) /\ f.sep \in Seq(Char) /\ f.value \in Seq(Char)
        /\ u = n + s + v + w + Len(f.eol) /\ Len(f.eol) \in {1, 2}
        /\ \A i \in 1..n : t[i] = f.name[i]
        /\ \A i \in 1..v : t[n + s + i] = f.value[i]
    BY FieldTextAt
  <2> DEFINE eol == Len(f.eol)
  <2> HIDE DEF n, s, v, w, u, t, eol
  <2>2. u >= n + s + v + w
    <3>1. n \in Nat /\ s \in Nat /\ v \in Nat /\ w \in Nat /\ u = n + s + v + w + eol /\ eol \in {1, 2}
      BY <2>1 DEF eol
    <3>2. QED
      BY <3>1
  <2>3. QED
    BY <2>1, <2>2
<1>7. \A i \in 1..u : Text(input)[from - 1 + i] = t[i]
  OBVIOUS
<1>8. \A x \in from..Len(text) : text[x] = Text(input)[x]
  BY <1>4 DEF Untouched, LineStart
<1>9. (novalue <=> v = 0) /\ value = from + n + s + (IF novalue THEN w ELSE 0)
  BY DEF FieldSizes
<1> HIDE DEF n, s, v, w, u, t, value, novalue, e
<1> DEFINE l == Len(text)  o == value - from
<1>10. /\ o \in Nat /\ value = from + o /\ value \in Nat /\ o + v <= u /\ (v # 0 => o = n + s)
       /\ value + v - 1 <= l /\ from + n - 1 <= l /\ n <= u /\ value >= 1 /\ u \in Nat /\ l \in Nat
       /\ (from + n) - from = n /\ (value + v) - value = v
  <2> DEFINE z == IF v = 0 THEN w ELSE 0
  <2>1. u \in Nat /\ u >= n + s + v + w /\ p <= l /\ l \in Nat /\ p \in Nat
    BY <1>1, <1>2, <1>6 DEF u, t
  <2>2. from + n <= value /\ value + v <= p
    BY <1>3, <1>4
  <2>3. value = from + n + s + z /\ z \in Nat /\ z <= w /\ (v # 0 => z = 0)
    BY <1>6, <1>9
  <2>4. n \in Nat /\ s \in Nat /\ v \in Nat /\ w \in Nat /\ from \in Nat /\ from >= 1
    BY <1>6
  <2> HIDE DEF z, l
  <2>5. QED
    BY <2>1, <2>2, <2>3, <2>4
<1> HIDE DEF o, l
<1>11. Chars(text, Key(q)) = f.name /\ Chars(text, Val(q)) = f.value
  <2>1. /\ Chars(text, Key(q)) = SubSeq(text, from, from + ((from + n) - from) - 1)
        /\ Chars(text, Val(q)) = SubSeq(text, value, value + ((value + v) - value) - 1)
    BY <1>3 DEF Chars, Key, Val, Span
  <2>2. SubSeq(text, from, from + Len(f.name) - 1) = f.name
    <3>1. ASSUME NEW i \in 1..n PROVE text[from - 1 + i] = f.name[i]
      <4>1. from - 1 + i \in from..l /\ i \in 1..u
        BY <1>6, <1>10
      <4>2. QED
        BY <1>6, <1>7, <1>8, <4>1 DEF l
    <3>2. /\ from + Len(f.name) - 1 <= Len(text) /\ from >= 1 /\ f.name \in Seq(Char)
          /\ \A i \in 1..Len(f.name) : text[from - 1 + i] = f.name[i]
      BY <1>6, <1>10, <3>1 DEF n, l
    <3>3. QED
      BY <1>1, <3>2, SubSeqIsAll
  <2>3. SubSeq(text, value, value + Len(f.value) - 1) = f.value
    <3>1. ASSUME NEW i \in 1..v PROVE t[o + i] = f.value[i]
      <4>1. o = n + s
        BY <1>6, <1>10
      <4>2. QED
        BY <1>6, <4>1
    <3>2. o + Len(f.value) <= u /\ from + o + Len(f.value) - 1 <= Len(text) /\ o \in Nat /\ u \in Nat /\ value = from + o
      BY <1>10 DEF v, l
    <3>3. SubSeq(text, from + o, from + o + Len(f.value) - 1) = f.value
      <4>1. HasPart(t, o, f.value, u) /\ Reaches(text, from, o, f.value)
        BY <3>1, <3>2 DEF v, HasPart, Reaches
      <4>2. text \in Seq(Char) /\ f.value \in Seq(Char) /\ from \in Nat /\ from >= 1
        BY <1>1, <1>6
      <4>3. SameFrom(text, Text(input), from) /\ Holds(Text(input), from, t, u)
        BY <1>7, <1>8 DEF SameFrom, Holds
      <4>4. CutOut(text, from, o, f.value)
        BY <3>2, <4>1, <4>2, <4>3, PartCopied
      <4>5. QED
        BY <4>4 DEF CutOut
    <3>4. QED
      BY <3>2, <3>3
  <2>4. QED
    BY <1>10, <2>1, <2>2, <2>3 DEF n, v
<1>12. Key(q) = Piece(from, n) /\ Val(q) = Piece(value, v)
  BY <1>3, <1>10 DEF Key, Val, Span, Piece
<1>13. e.key = Piece(from, n) /\ e.value.from = value
  BY <1>3, <1>5, <1>12
<1>14. e.value.len = IF IsHost(f.name) THEN http_process_host(f.value).length ELSE v
  BY <1>5, <1>11, <1>12 DEF Piece
<1>15. QED
  BY <1>3, <1>5, <1>13, <1>14 DEF q, e, n, v, value, s, w, novalue

LEMMA LineFits ==
  ASSUME HeadInv, Untouched, mode = "headers", More, HeaderLineTo = "done",
         NEW k \in DOMAIN heads, NEW j \in 1..Len(fields(k)), NEW f, f = fields(k)[j], NEW from, from = FieldFrom(input, k, j),
         p \in (from + 1)..(from + Len(FieldText(f)) - 1), r.header_name_start = from, ValidLine(r, p, f, from)
  PROVE  LET q == HeaderLineChar("start") IN
         ValidName(f.name) /\ ~q.invalid_header /\ Element(q) \in AnElement /\ Fits(input, Element(q), k, j)
<1> DEFINE e == Element(HeaderLineChar("start"))  u == Len(FieldText(f))
           value == from + Len(f.name) + Len(f.sep) + (IF f.value = <<>> THEN Len(f.pad) ELSE 0)
<1>1. Types /\ Pointers /\ input \in Inputs
  BY DEF HeadInv, Types
<1>2. /\ from \in Nat /\ from >= 1 /\ f \in FieldParts /\ FieldSizes(f) /\ u \in Nat
      /\ \A x \in from..(from + u - 1) : FieldChar(f, Text(input)[x], x - from)
  BY <1>1, FieldHere
<1>3. \A i \in 1..u : Text(input)[from - 1 + i] = FieldText(f)[i]
  BY <1>1, FieldPlaces, ZenonT(40)
<1>4. p \in Nat /\ ch = Text(input)[p]
  BY <1>1, CharHere, Reading
<1>5. FieldChar(f, ch, p - from)
  <2>1. p \in from..(from + u - 1)
    <3> HIDE DEF u
    <3>1. QED
      BY <1>2, <1>4 DEF u
  <2>2. QED
    BY <1>2, <1>4, <2>1
<1>6. /\ ValidName(f.name) /\ ~HeaderLineChar("start").invalid_header /\ e \in AnElement
      /\ e.key = Piece(from, Len(f.name)) /\ e.value.from = value
      /\ e.value.len = IF IsHost(f.name) THEN http_process_host(f.value).length ELSE Len(f.value)
  BY <1>1, <1>2, <1>3, <1>5, LineElement
<1> HIDE DEF e, value
<1>7. Expected(input, k, j).key = Piece(from, Len(f.name)) /\ Expected(input, k, j).value = Piece(value, Len(f.value))
  <2> DEFINE n == Len(f.name)  s == Len(f.sep)  z == IF f.value = <<>> THEN Len(f.pad) ELSE 0
  <2>1. Len(f.name \o f.sep) = n + s /\ n \in Nat /\ s \in Nat /\ z \in Nat
    BY <1>2, FieldTextAt
  <2>2. /\ Expected(input, k, j).key = Piece(from, n)
        /\ Expected(input, k, j).value = Piece(from + Len(f.name \o f.sep) + z, Len(f.value))
    BY DEF Expected, fields, heads
  <2>3. value = from + n + s + z
    BY DEF value
  <2> HIDE DEF n, s, z
  <2>4. value = from + (n + s) + z
    BY <1>2, <2>1, <2>3
  <2>5. QED
    BY <2>1, <2>2, <2>4 DEF n
<1>8. Fits(input, e, k, j)
  <2>1. e.key = Expected(input, k, j).key /\ e.value.from = Expected(input, k, j).value.from
    BY <1>6, <1>7 DEF Piece
  <2>2. e.value.len = IF IsHost(f.name) THEN http_process_host(f.value).length ELSE Expected(input, k, j).value.len
    BY <1>6, <1>7 DEF Piece
  <2>3. QED
    BY <2>1, <2>2 DEF Fits, fields, heads
<1>9. QED
  BY <1>6, <1>8 DEF e

\* Only the characters of the line are changed.
LEMMA LowcaseElsewhere ==
  ASSUME NEW t, NEW a \in Int, NEW b \in Int, NEW x \in DOMAIN t, x \in Int, b <= x
  PROVE  lowcase_key_copy_from_origin(t, Span(a, b))[x] = t[x] /\ DOMAIN lowcase_key_copy_from_origin(t, Span(a, b)) = DOMAIN t
<1> DEFINE s == Span(a, b)
<1>1. s.from = a /\ s.len = b - a
  BY DEF Span
<1> HIDE DEF s
<1>2. x \notin s.from..(s.from + s.len - 1)
  BY <1>1
<1>3. lowcase_key_copy_from_origin(t, s)[x] = t[x] /\ DOMAIN lowcase_key_copy_from_origin(t, s) = DOMAIN t
  BY <1>2 DEF lowcase_key_copy_from_origin
<1>4. QED
  BY <1>3 DEF s

LEMMA TextAfterElsewhere ==
  ASSUME NEW q \in RequestT, NEW x \in DOMAIN text, x \in Int, q.header_name_end <= x, q.header_end <= x
  PROVE  TextAfter(q)[x] = text[x]
<1> DEFINE t == lowcase_key_copy_from_origin(text, Key(q))
<1>1. q.header_name_start \in Int /\ q.header_name_end \in Int /\ q.header_start \in Int /\ q.header_end \in Int
  BY DEF RequestT
<1>2. t[x] = text[x] /\ DOMAIN t = DOMAIN text
  BY <1>1, LowcaseElsewhere DEF Key
<1>3. TextAfter(q) = IF IsHost(Chars(text, Key(q))) /\ Host(q).ok THEN lowcase_key_copy_from_origin(t, Val(q)) ELSE t
  BY DEF TextAfter
<1> HIDE DEF t
<1>4. lowcase_key_copy_from_origin(t, Val(q))[x] = t[x]
  BY <1>1, <1>2, LowcaseElsewhere DEF Val
<1>5. QED
  BY <1>2, <1>3, <1>4

\* A line feed that ends a line ends it where its parts say.
LEMMA FieldEnds ==
  ASSUME HeadInv, Untouched, mode = "headers", More, HeaderLineTo = "done",
         NEW k \in DOMAIN heads, NEW j \in 1..(Len(fields(k)) + 1), FieldPlace(input, r, p, k, j), NEW q, q = HeaderLineChar("start")
  PROVE  /\ j <= Len(fields(k)) /\ p + 1 = FieldFrom(input, k, j + 1)
         /\ \/ q.invalid_header /\ ~ValidName(fields(k)[j].name)
            \/ /\ ~q.invalid_header /\ ValidName(fields(k)[j].name)
               /\ Element(q) \in AnElement /\ Fits(input, Element(q), k, j)
<1>1. Types /\ Pointers /\ input \in Inputs /\ Len(fields(k)) \in Nat /\ r \in RequestT
  BY InputParts DEF HeadInv, Types
<1>2. p \in Nat /\ ch \in Char /\ r.state \in State
  BY <1>1, Reading
<1>3. ch = LF /\ r.state \in InLine /\ r.state \notin {"start", "header_almost_done"}
  <2>1. HeaderEdge(r.state, ch, "done")
    BY <1>2, HeaderTo
  <2>2. QED
    BY <2>1 DEF HeaderEdge, InLine
<1>4. PICK from : from = FieldFrom(input, k, j)
  OBVIOUS
<1>5. PICK f : f = fields(k)[j]
  OBVIOUS
<1> DEFINE u == Len(FieldText(f))
<1>6. /\ j <= Len(fields(k)) /\ p \in (from + 1)..(from + u - 1) /\ r.header_name_start = from
      /\ InvalidLine(r, f) \/ ValidLine(r, p, f, from)
  BY <1>3, <1>4, <1>5, FieldPlaceIs
<1>7. j \in 1..Len(fields(k))
  BY <1>1, <1>6
<1>8. /\ from \in Nat /\ FieldSizes(f) /\ FieldFrom(input, k, j + 1) = from + u /\ u \in Nat
      /\ \A x \in from..(from + u - 1) : FieldChar(f, Text(input)[x], x - from)
  BY <1>1, <1>4, <1>5, <1>7, FieldHere
<1>9. p + 1 = from + u
  <2> DEFINE o == p - from
  <2>1. o \in Nat /\ o < u /\ p = from + o /\ p \in from..(from + u - 1)
    <3>1. from \in Nat /\ u \in Nat /\ p \in (from + 1)..(from + u - 1)
      BY <1>6, <1>8
    <3> HIDE DEF u
    <3>2. QED
      BY <1>2, <3>1
  <2>2. ch = Text(input)[p]
    BY CharHere
  <2>3. FieldChar(f, LF, o)
    BY <1>3, <1>8, <2>1, <2>2
  <2> HIDE DEF o
  <2>4. o = u - 1
    BY <1>8, <2>1, <2>3, LineFeedEnds
  <2>5. QED
    <3>1. from \in Nat /\ u \in Nat
      BY <1>8
    <3> HIDE DEF u
    <3>2. QED
      BY <2>1, <2>4, <3>1
<1>10. CASE InvalidLine(r, f)
  <2>1. ~ValidName(f.name) /\ r.invalid_header
    BY <1>3, <1>10 DEF InvalidLine, InLine
  <2>2. q.invalid_header
    BY <1>1, <1>3, <2>1, LineFacts
  <2>3. QED
    BY <1>5, <1>6, <1>8, <1>9, <2>1, <2>2
<1>11. CASE ValidLine(r, p, f, from)
  <2>1. ValidName(f.name) /\ ~q.invalid_header /\ Element(q) \in AnElement /\ Fits(input, Element(q), k, j)
    BY <1>4, <1>5, <1>6, <1>7, <1>11, LineFits
  <2>2. QED
    BY <1>5, <1>6, <1>8, <1>9, <2>1
<1>12. QED
  BY <1>6, <1>10, <1>11

LEMMA HeaderLineDoneAgrees ==
  ASSUME HeadInv, HeadInv', AgreeInv, header_line_done
  PROVE  AgreeInv'
<1>0. PICK q : q = HeaderLineChar("start")
  OBVIOUS
<1>1. /\ mode = "headers" /\ More /\ HeaderLineTo = "done" /\ p' = p + 1 /\ r' = q
      /\ UNCHANGED <<input, mode, sent>>
      /\ \/ q.invalid_header /\ UNCHANGED <<text, elements>>
         \/ ~q.invalid_header /\ text' = TextAfter(q) /\ elements' = Append(elements, Element(q))
  BY <1>0 DEF header_line_done
<1>2. Types /\ Pointers /\ Untouched /\ SentFit /\ Place /\ elements \in Seq(AnElement) /\ text \in Seq(Char)
  BY DEF HeadInv, AgreeInv, Types
<1>3. p \in Nat /\ 1 <= p
  BY <1>1, <1>2, Reading
<1>4. /\ r.state \in InLine /\ q \in RequestT /\ q.state = "start"
      /\ q.header_name_end <= q.header_start /\ q.header_start <= q.header_end /\ q.header_end <= p
  BY <1>0, <1>1, <1>2, LineDone
<1>5. PICK k : k = Cur
  OBVIOUS
<1>6. k \in DOMAIN heads /\ \E j \in 1..(Len(fields(k)) + 1) : FieldPlace(input, r, p, k, j) /\ ElementsFit(input, elements, k, j - 1)
  BY <1>1, <1>2, <1>5 DEF Place
<1>7. PICK j \in 1..(Len(fields(k)) + 1) : FieldPlace(input, r, p, k, j) /\ ElementsFit(input, elements, k, j - 1)
  BY <1>6
<1>8. Len(fields(k)) \in Nat
  BY <1>2, <1>6, InputParts DEF Types
<1>9. /\ j <= Len(fields(k)) /\ p + 1 = FieldFrom(input, k, j + 1)
      /\ \/ q.invalid_header /\ ~ValidName(fields(k)[j].name)
         \/ /\ ~q.invalid_header /\ ValidName(fields(k)[j].name)
            /\ Element(q) \in AnElement /\ Fits(input, Element(q), k, j)
  BY <1>0, <1>1, <1>2, <1>6, <1>7, FieldEnds
<1> DEFINE m == j + 1
<1>10. j \in Nat \ {0} /\ m \in 1..(Len(fields(k)) + 1) /\ m - 1 = j
  BY <1>8, <1>9
<1>11. ElementsFit(input, elements', k, j)
  <2>1. CASE q.invalid_header
    BY <1>1, <1>7, <1>9, <1>10, <2>1, FitsSkip
  <2>2. CASE ~q.invalid_header
    BY <1>1, <1>2, <1>7, <1>9, <1>10, <2>2, FitsAppend
  <2>3. QED
    BY <2>1, <2>2
<1>12. FieldPlace(input, r', p', k, m)
  BY <1>1, <1>4, <1>9 DEF FieldPlace
<1> HIDE DEF m
<1>13. Cur' = k /\ heads' = heads
  BY <1>1, <1>5 DEF Cur, heads
<1>14. Place'
  BY <1>1, <1>6, <1>10, <1>11, <1>12, <1>13 DEF Place, fields
<1>15. LineStart' = p + 1
  BY <1>1, <1>4 DEF LineStart, InLine
<1>16. LineStart \in Int /\ LineStart <= p
  <2>1. r.header_name_start \in Int /\ r.header_name_start < p
    BY <1>1, <1>2, <1>4 DEF Types, RequestT, Pointers
  <2>2. QED
    BY <1>1, <1>3, <1>4, <2>1 DEF LineStart
<1>17. Len(text) \in Nat /\ DOMAIN text = 1..Len(text) /\ Len(text') = Len(text)
  BY <1>1, <1>2, TextAfterType
<1>18. ASSUME NEW x \in (p + 1)..Len(text) PROVE text'[x] = Text(input)[x]
  <2>1. x \in LineStart..Len(text) /\ x \in DOMAIN text /\ x \in Int /\ p <= x
    BY <1>3, <1>16, <1>17
  <2>2. text[x] = Text(input)[x]
    BY <1>2, <2>1 DEF Untouched
  <2>3. q.header_name_end <= x /\ q.header_end <= x
    <3>1. q.header_name_end \in Int /\ q.header_start \in Int /\ q.header_end \in Int
      BY <1>4 DEF RequestT
    <3>2. QED
      BY <1>3, <1>4, <2>1, <3>1
  <2>4. TextAfter(q)[x] = text[x]
    BY <1>4, <2>1, <2>3, TextAfterElsewhere
  <2>5. QED
    BY <1>1, <2>2, <2>4
<1>19. Untouched'
  BY <1>1, <1>15, <1>17, <1>18 DEF Untouched
<1>20. SentFit'
  BY <1>1, <1>2 DEF SentFit, heads, fields
<1>21. QED
  BY <1>1, <1>14, <1>19, <1>20 DEF AgreeInv

\* A line feed that ends a head ends it where its parts say.
LEMMA HeadEnds ==
  ASSUME HeadInv, Untouched, mode = "headers", More, HeaderLineTo = "header_done",
         NEW k \in DOMAIN heads, NEW j \in 1..(Len(fields(k)) + 1), FieldPlace(input, r, p, k, j)
  PROVE  j = Len(fields(k)) + 1 /\ p + 1 = From(input, k + 1) /\ r.state \in {"start", "header_almost_done"}
<1>1. Types /\ input \in Inputs
  BY DEF HeadInv, Types
<1>2. p \in Nat /\ ch \in Char /\ r.state \in State
  BY <1>1, Reading
<1>3. ch = LF /\ r.state \in {"start", "header_almost_done"}
  <2>1. HeaderEdge(r.state, ch, "header_done")
    BY <1>2, HeaderTo
  <2>2. QED
    BY <2>1 DEF HeaderEdge
<1>4. ch = Text(input)[p]
  BY <1>1, CharHere
<1> DEFINE n == Len(fields(k))
<1>5. n \in Nat
  BY <1>1, InputParts
<1>6. PICK from : from = FieldFrom(input, k, j)
  OBVIOUS
<1>7. \/ r.state = "start" /\ p = from
      \/ r.state = "header_almost_done" /\ j = n + 1 /\ p = from + 1 /\ heads[k].end = CRLF
  <2>1. r.state \notin InLine /\ r.state # "ignore_line"
    BY <1>3 DEF InLine
  <2>2. PICK f : f = fields(k)[j]
    OBVIOUS
  <2>3. QED
    BY <1>6, <2>1, <2>2, FieldPlaceIs DEF InvalidLine, ValidLine
<1>8. j = n + 1
  <2>1. SUFFICES ASSUME j # n + 1 PROVE FALSE
    OBVIOUS
  <2>2. j \in 1..n /\ p = from
    BY <1>5, <1>7, <2>1
  <2>3. PICK f : f = fields(k)[j]
    OBVIOUS
  <2> DEFINE u == Len(FieldText(f))
  <2>4. /\ from \in Nat /\ FieldSizes(f) /\ u \in Nat
        /\ \A x \in from..(from + u - 1) : FieldChar(f, Text(input)[x], x - from)
    BY <1>1, <1>6, <2>2, <2>3, FieldHere
  <2>5. u >= 2
    <3> DEFINE two == IF f.eol = CRLF THEN 2 ELSE 1
               a == Len(f.name)  b == Len(f.sep)  c == Len(f.value)  d == Len(f.pad)
    <3>1. /\ u = a + b + c + d + two /\ two >= 1 /\ two \in Nat /\ (b = 0 => a > 0)
          /\ a \in Nat /\ b \in Nat /\ c \in Nat /\ d \in Nat
      BY <2>4 DEF FieldSizes
    <3> HIDE DEF two, u, a, b, c, d
    <3>2. QED
      BY <3>1
  <2>6. from \in from..(from + u - 1) /\ from - from = 0 /\ 0 \in Nat /\ 0 < u /\ 0 # u - 1
    <3>1. from \in Nat /\ u \in Nat
      BY <2>4
    <3> HIDE DEF u
    <3>2. QED
      BY <2>5, <3>1
  <2>7. FieldChar(f, LF, 0)
    BY <1>3, <1>4, <2>2, <2>4, <2>6
  <2>8. QED
    BY <2>4, <2>6, <2>7, LineFeedEnds
<1>9. p + 1 = From(input, k + 1)
  <2>1. /\ from \in Nat
        /\ heads[k].end = CRLF => Text(input)[from] = CR /\ Text(input)[from + 1] = LF /\ From(input, k + 1) = from + 2
        /\ heads[k].end # CRLF => Text(input)[from] = LF /\ From(input, k + 1) = from + 1
    BY <1>1, <1>6, <1>8, EndHere
  <2>2. CASE r.state = "start" /\ p = from
    BY <1>3, <1>4, <2>1, <2>2 DEF CR, LF
  <2>3. CASE p = from + 1 /\ heads[k].end = CRLF
    BY <2>1, <2>3
  <2>4. QED
    BY <1>7, <2>2, <2>3
<1>10. QED
  BY <1>3, <1>8, <1>9

LEMMA HeadersDoneAgrees ==
  ASSUME HeadInv, HeadInv', AgreeInv, headers_done
  PROVE  AgreeInv'
<1>1. /\ mode = "headers" /\ More /\ HeaderLineTo = "header_done" /\ p' = p + 1 /\ mode' \in {"send", "crashed"}
      /\ UNCHANGED <<input, text, elements, sent>>
  BY DEF headers_done
<1>2. Types /\ Untouched /\ Place /\ input \in Inputs
  BY DEF HeadInv, AgreeInv, Types
<1>3. PICK k : k = Cur
  OBVIOUS
<1>4. k \in DOMAIN heads /\ \E j \in 1..(Len(fields(k)) + 1) : FieldPlace(input, r, p, k, j) /\ ElementsFit(input, elements, k, j - 1)
  BY <1>1, <1>2, <1>3 DEF Place
<1>5. PICK j \in 1..(Len(fields(k)) + 1) : FieldPlace(input, r, p, k, j) /\ ElementsFit(input, elements, k, j - 1)
  BY <1>4
<1>6. j = Len(fields(k)) + 1 /\ p' = From(input, k + 1)
  BY <1>1, <1>2, <1>4, <1>5, HeadEnds
<1>7. ElementsFit(input, elements, k, Len(fields(k)))
  <2> DEFINE n == Len(fields(k))
  <2>1. n \in Nat
    BY <1>2, <1>4, InputParts
  <2> HIDE DEF n
  <2>2. j - 1 = n
    BY <1>6, <2>1 DEF n
  <2>3. QED
    BY <1>5, <2>2 DEF n
<1>8. Cur' = k /\ heads' = heads
  BY <1>1, <1>3 DEF Cur, heads
<1>9. Place'
  BY <1>1, <1>4, <1>6, <1>7, <1>8 DEF Place, fields
<1>10. p <= p'
  <2>1. p \in Nat
    BY <1>1, <1>2, Reading
  <2>2. QED
    BY <1>1, <2>1
<1>11. QED
  BY <1>1, <1>9, <1>10, Outside

LEMMA SendAgrees ==
  ASSUME HeadInv, HeadInv', AgreeInv, send
  PROVE  AgreeInv'
<1> DEFINE e == [chain |-> chain, elements |-> elements]  S == [chain : Pieces, elements : Seq(AnElement)]
<1>1. /\ mode = "send" /\ mode' \in {"request_line", "idle"} /\ UNCHANGED <<input, text, p, r, elements, chain>>
      /\ sent' = Append(sent, e)
  BY DEF send
<1>2. Types /\ Untouched /\ SentFit /\ Place /\ input \in Inputs /\ sent \in Seq(S)
  BY DEF HeadInv, AgreeInv, Types
<1>3. e \in S /\ e.elements = elements
  BY <1>2 DEF Types
<1> HIDE DEF e, S
<1>4. PICK k : k = Cur
  OBVIOUS
<1>5. k \in DOMAIN heads /\ p = From(input, k + 1) /\ ElementsFit(input, elements, k, Len(fields(k)))
  BY <1>1, <1>2, <1>4 DEF Place
<1>6. Len(heads) \in Nat /\ DOMAIN heads = 1..Len(heads)
  BY <1>2, InputParts
<1>7. /\ sent' \in Seq(S) /\ Len(sent) \in Nat /\ k = Len(sent) + 1 /\ Len(sent') = k /\ DOMAIN sent' = 1..k
      /\ sent'[k] = e /\ \A i \in 1..Len(sent) : sent'[i] = sent[i]
  BY <1>1, <1>2, <1>3, <1>4 DEF Cur
<1>8. heads' = heads /\ Cur' = k + 1
  BY <1>1, <1>7 DEF heads, Cur
<1>9. SentFit'
  <2>1. ASSUME NEW i \in DOMAIN sent' PROVE ElementsFit(input, sent'[i].elements, i, Len(fields(i)))
    <3>1. CASE i = k
      BY <1>3, <1>5, <1>7, <3>1
    <3>2. CASE i # k
      <4>1. i \in 1..Len(sent) /\ i \in DOMAIN sent
        BY <1>2, <1>7, <3>2
      <4>2. QED
        BY <1>2, <1>7, <4>1 DEF SentFit
    <3>3. QED
      BY <3>1, <3>2
  <2>2. Len(sent') <= Len(heads')
    BY <1>5, <1>6, <1>7, <1>8
  <2>3. QED
    BY <1>1, <1>8, <2>1, <2>2 DEF SentFit, fields
<1>10. Place'
  <2>1. CASE mode' = "idle"
    BY <2>1 DEF Place
  <2>2. CASE mode' = "request_line" /\ k = Len(heads)
    BY <1>1, <1>5, <1>8, <2>2 DEF Place
  <2>3. CASE mode' = "request_line" /\ k # Len(heads)
    <3> DEFINE m == k + 1  b == From(input, m)  l == Len(LineText(heads[m]))
    <3>1. m \in DOMAIN heads
      BY <1>5, <1>6, <2>3
    <3>2. LineText(heads[m]) \in Seq(Char) /\ LineText(heads[m]) # <<>>
      BY <1>2, <3>1, InputParts DEF LineForm
    <3>3. l \in Nat /\ l # 0 /\ b \in Nat
      BY <1>2, <3>1, <3>2, HeadPlaces
    <3>4. p = b
      BY <1>5
    <3> HIDE DEF l, b
    <3>5. p \in b..(b + l - 1)
      BY <3>3, <3>4
    <3>6. QED
      BY <1>1, <1>8, <2>3, <3>1, <3>4, <3>5 DEF Place, b, l
  <2>4. QED
    BY <1>1, <2>1, <2>2, <2>3
<1>11. LineStart' = LineStart
  BY <1>1 DEF LineStart
<1>12. Untouched'
  BY <1>1, <1>2, <1>11 DEF Untouched
<1>13. QED
  BY <1>7, <1>9, <1>10, <1>12 DEF AgreeInv, S

LEMMA AgreeNext == HeadInv /\ HeadInv' /\ AgreeInv /\ [Next]_vars => AgreeInv'
<1> SUFFICES ASSUME HeadInv, HeadInv', AgreeInv, [Next]_vars PROVE AgreeInv'
  OBVIOUS
<1>1. CASE request_line_ends \/ status_line_ends \/ header_line_wild \/ headers_spin \/ send_wild
  <2>1. mode' \in {"idle", "crashed", "spinning"} /\ UNCHANGED <<input, text, p, sent>>
    BY <1>1 DEF request_line_ends, status_line_ends, header_line_wild, headers_spin, send_wild
  <2>2. p <= p'
    <3>1. p \in Int
      BY DEF HeadInv, Types
    <3>2. QED
      BY <2>1, <3>1
  <2>3. QED
    BY <2>1, <2>2, Stopped
<1>2. CASE UNCHANGED vars \/ Ended
  BY <1>2 DEF vars, Ended, AgreeInv, SentFit, Untouched, LineStart, Place, Cur, heads, fields
<1>3. CASE request_line_char \/ request_line_done
  BY <1>3, RequestLineAgrees
<1>4. CASE status_line_char \/ status_line_done
  BY <1>4, StatusLineAgrees
<1>5. CASE header_line_char \/ header_line_done \/ headers_done
  BY <1>5, HeaderLineCharAgrees, HeaderLineDoneAgrees, HeadersDoneAgrees
<1>6. CASE send
  BY <1>6, SendAgrees
<1>7. QED
  BY <1>1, <1>2, <1>3, <1>4, <1>5, <1>6 DEF Next

LEMMA AgreeInvariant == Spec => []AgreeInv
  BY HeadInvariant, AgreeInit, AgreeNext, PTL DEF Spec

\* The header loop finds exactly the header lines with a valid name, in order,
\* with the name and the value each was written with: http_process_element's
\* elements are the lines of the head, for every buffer of well-formed parts,
\* however the reads cut it and whatever the memory of the request_t held.
THEOREM ElementsRight == Spec => []ElementsAgree
<1>1. HeadInv /\ AgreeInv => ElementsAgree
  <2> SUFFICES ASSUME HeadInv, AgreeInv PROVE ElementsAgree
    OBVIOUS
  <2>1. SUFFICES ASSUME NEW k \in DOMAIN sent
        PROVE  LET js == ValidFields(input, k) IN
               /\ Len(sent[k].elements) = Len(js)
               /\ \A i \in DOMAIN js :
                    LET e == sent[k].elements[i]  x == Expected(input, k, js[i]) IN
                    /\ e.key = x.key /\ e.value.from = x.value.from
                    /\ IsHost(input.heads[k].fields[js[i]].name) \/ e.value.len = x.value.len
    BY DEF ElementsAgree
  <2>2. ElementsFit(input, sent[k].elements, k, Len(fields(k)))
    BY DEF AgreeInv, SentFit
  <2>3. ValidFields(input, k) = ValidUpto(input, k, Len(fields(k)))
    BY DEF ValidFields, fields, heads
  <2>4. QED
    BY <2>2, <2>3 DEF ElementsFit, Fits
<1>2. QED
  BY <1>1, HeadInvariant, AgreeInvariant, PTL

-----------------------------------------------------------------------------
(* The first line of a head: what it has set in the request_t.             *)

\* Where the first n parts of a line end that starts at from.
Part(l, from, n) == from + Len(Pre(l, n))

\* Characters of a request line whose method, spaces, URI, spaces and version
\* end before M, U, W, V and Z.
RequestShape(T, from, M, U, W, V, Z) ==
  /\ from \in Nat /\ M \in Nat /\ U \in Nat /\ W \in Nat /\ V \in Nat /\ Z \in Nat
  /\ from < M /\ M < U /\ U < W /\ W <= V /\ V <= Z /\ (V < Z => W < V)
  /\ \A x \in from..(M - 1) : T[x] \notin {SP, CR, LF}
  /\ \A x \in M..(U - 1) : T[x] = SP
  /\ \A x \in U..(W - 1) : T[x] \notin {CR, LF}
  /\ T[U] # SP /\ T[W - 1] # SP
  /\ \A x \in W..(V - 1) : T[x] = SP
  /\ V < Z => T[V] = "H"
  /\ \A x \in V..(Z - 1) : T[x] \notin {CR, LF}
  /\ T[Z] \in {CR, LF}

\* Plain, for a URI that lies in T.
PlainText(T, U, W) ==
  /\ T[U] = "/" /\ \A x \in U..(W - 1) : T[x] # "#"
  /\ \A x \in U..(W - 1) :
       \/ ~(T[x] = "%" \/ (T[x] \in {"/", "."} /\ \E y \in U..(x - 1) : T[y] = "/" /\ \A z \in (y + 1)..(x - 1) : T[z] = "+"))
       \/ \E y \in U..(x - 1) : T[y] = "?"

VersionStates == {"http_H", "http_HT", "http_HTT", "http_HTTP", "first_major_digit", "major_digit",
                  "first_minor_digit", "minor_digit", "spaces_after_digit"}
Spaced == {"check_uri_http_09", "http_09"}

\* Where the parser can be behind the first character of a URI, and what it has
\* set by then.  A space may be part of the URI; an "H" behind it is taken for
\* the version, from which there is no way to the end of the line.
UriPlace(q, x, U, W, V, Z) ==
  \/ q.state \in InUri /\ x \in (U + 1)..W
  \/ q.state \in Spaced /\ x \in (U + 1)..(W - 1)
  \/ q.state \in Spaced /\ x \in (W + 1)..V /\ q.uri_end = W
  \/ q.state \in VersionStates /\ x \in (U + 1)..V
  \/ q.state \in VersionStates /\ x \in (V + 1)..Z /\ q.uri_end = W /\ q.http_protocol = V
  \/ q.state = "almost_done" /\ x = Z + 1 /\ (V < Z => q.uri_end = W /\ q.http_protocol = V)

RequestPlace(q, x, from, M, U, W, V, Z) ==
  \/ q.state = "start" /\ x = from
  \/ q.state = "method" /\ x \in (from + 1)..M /\ q.request_start = from
  \/ q.state = "spaces_before_uri" /\ x \in (M + 1)..U /\ q.request_start = from /\ q.method_end = M - 1
  \/ /\ q.request_start = from /\ q.method_end = M - 1 /\ q.uri_start = U
     /\ UriPlace(q, x, U, W, V, Z)

\* What keeps complex_uri from being set.
PlainSoFar(q, x, T, U, W) ==
  /\ ~q.complex_uri
  /\ q.state \in {"after_slash_in_uri", "check_uri", "check_uri_http_09"} => \A y \in U..(x - 1) : y < W => T[y] # "?"
  /\ q.state = "after_slash_in_uri" => \E y \in U..(x - 1) : T[y] = "/" /\ \A z \in (y + 1)..(x - 1) : T[z] = "+"

\* Where the machine goes from the states behind a URI's first character.
EdgesFrom(s, c, m) == RequestEdge(s, c, m) /\ m \notin {"done", "invalid"}

LEMMA UriMove ==
  ASSUME NEW s \in InUri, NEW c, NEW m, EdgesFrom(s, c, m)
  PROVE  /\ ~Rereads(s, c)
         /\ \/ /\ m \in InUri /\ c \notin {SP, CR, LF}
               /\ m \in {"after_slash_in_uri", "check_uri"} => s \in {"after_slash_in_uri", "check_uri"} /\ c # "?"
               /\ m = "after_slash_in_uri" => (c = "+" /\ s = "after_slash_in_uri") \/ c = "/"
            \/ m \in Spaced /\ c = SP /\ (m = "check_uri_http_09" => s \in {"after_slash_in_uri", "check_uri"})
            \/ m = "almost_done" /\ c = CR
<1>1. UriEdge(s, c, m)
  BY DEF EdgesFrom, RequestEdge, MethodEdge, HostEdge, AfterUriEdge, VersionEdge, VersionEndEdge, AfterUri, InUri
<1>2. QED
  BY <1>1 DEF EdgesFrom, UriEdge, Spaced, InUri, Rereads, Usual, Letter, Upper, Digit, SP, CR, LF, UNDERSCORE

LEMMA SpacedMove ==
  ASSUME NEW s \in Spaced, NEW c, NEW m, EdgesFrom(s, c, m)
  PROVE  \/ ~Rereads(s, c) /\ m = s /\ c = SP
         \/ ~Rereads(s, c) /\ m = "http_H" /\ c = "H"
         \/ /\ Rereads(s, c) /\ m \in {"check_uri", "uri"} /\ c \notin {SP, CR, LF, "H"}
            /\ m = "check_uri" => s = "check_uri_http_09"
         \/ ~Rereads(s, c) /\ m = "almost_done" /\ c = CR
<1>1. AfterUriEdge(s, c, m)
  BY DEF EdgesFrom, RequestEdge, MethodEdge, HostEdge, UriEdge, VersionEdge, VersionEndEdge, Spaced
<1>2. QED
  BY <1>1 DEF EdgesFrom, AfterUriEdge, Spaced, Rereads, MoreUri, SP, CR, LF

LEMMA VersionMove ==
  ASSUME NEW s \in VersionStates, NEW c, NEW m, EdgesFrom(s, c, m)
  PROVE  ~Rereads(s, c) /\ ((m \in VersionStates /\ c \notin {CR, LF, "H"}) \/ (m = "almost_done" /\ c = CR))
<1>1. VersionEdge(s, c, m) \/ VersionEndEdge(s, c, m)
  BY SMTT(40) DEF EdgesFrom, RequestEdge, MethodEdge, HostEdge, UriEdge, AfterUriEdge, AfterUri, VersionStates
<1>2. QED
  BY <1>1 DEF EdgesFrom, VersionEdge, VersionEndEdge, VersionStates, Rereads, Digit, SP, CR, LF

\* One character of a request line with a plain URI.
LEMMA RequestPlaceStep ==
  ASSUME r \in RequestT, NEW T, NEW from, NEW M, NEW U, NEW W, NEW V, NEW Z,
         RequestShape(T, from, M, U, W, V, Z), PlainText(T, U, W),
         RequestPlace(r, p, from, M, U, W, V, Z), PlainSoFar(r, p, T, U, W), p \in Nat, ch = T[p], ch \in Char, r.state \in State,
         NEW to, to = RequestLineMove[r.state][ch], to \notin {"done", "invalid"},
         NEW x, x = (IF Rereads(r.state, ch) THEN p ELSE p + 1), NEW q, q = RequestLineChar(to)
  PROVE  RequestPlace(q, x, from, M, U, W, V, Z) /\ PlainSoFar(q, x, T, U, W)
<1>1. RequestEdge(r.state, ch, to)
  BY RequestMove
<1>2. /\ q.state = to
      /\ q.request_start = (IF r.state = "start" THEN p ELSE r.request_start)
      /\ q.method_end = (IF r.state \in {"method"} /\ ch \in {SP} THEN p - 1 ELSE r.method_end)
      /\ q.uri_start = (IF r.state \in {"spaces_before_uri"} \cup InHost /\ ch \in {"/"} THEN p
                          ELSE IF r.state \in InHost /\ ch \in {SP} THEN r.schema_end + 1 ELSE r.uri_start)
      /\ q.uri_end = (IF r.state \in InUri /\ ch \in {SP, CR, LF} THEN p
                          ELSE IF r.state \in InHost /\ ch \in {SP} THEN r.schema_end + 2 ELSE r.uri_end)
      /\ q.complex_uri = (r.complex_uri \/ (r.state \in InUri /\ ch \in {"#"})
                          \/ (r.state \in {"after_slash_in_uri", "check_uri"} /\ ch \in {"%"})
                          \/ (r.state \in {"after_slash_in_uri"} /\ ch \in {".", "/"}))
      /\ q.http_protocol = (IF r.state \in AfterUri /\ ch \in {"H"} THEN p ELSE r.http_protocol)
  BY RequestLineCharFields
<1>3. PICK s, c : s = r.state /\ c = ch
  OBVIOUS
<1>4. r.complex_uri \in BOOLEAN
  BY DEF RequestT
<1>5. /\ from \in Nat /\ M \in Nat /\ U \in Nat /\ W \in Nat /\ V \in Nat /\ Z \in Nat
      /\ from < M /\ M < U /\ U < W /\ W <= V /\ V <= Z /\ (V < Z => W < V)
  BY DEF RequestShape
<1>6. CASE s = "start"
  <2>1. p = from /\ c \notin {SP, CR, LF}
    BY <1>3, <1>5, <1>6 DEF RequestPlace, UriPlace, InUri, Spaced, VersionStates, RequestShape
  <2>2. to = "method"
    BY <1>1, <1>3, <1>6, <2>1 DEF RequestEdge, MethodEdge, HostEdge, UriEdge, AfterUriEdge, VersionEdge, VersionEndEdge, AfterUri
  <2>3. x = p + 1
    BY <1>3, <1>6 DEF Rereads
  <2>4. x \in (from + 1)..M /\ q.request_start = from
    BY <1>2, <1>3, <1>5, <1>6, <2>1, <2>3
  <2>5. q.complex_uri = r.complex_uri
    BY <1>2, <1>3, <1>4, <1>6 DEF InUri
  <2>6. QED
    BY <1>2, <2>2, <2>4, <2>5 DEF RequestPlace, PlainSoFar
<1>7. CASE s = "method"
  <2>1. p \in (from + 1)..M /\ r.request_start = from /\ (p < M => c # SP) /\ (p = M => c = SP)
    BY <1>3, <1>5, <1>7 DEF RequestPlace, UriPlace, InUri, Spaced, VersionStates, RequestShape
  <2>2. (to = "method" /\ c # SP) \/ (to = "spaces_before_uri" /\ c = SP)
    BY <1>1, <1>3, <1>7 DEF RequestEdge, MethodEdge, HostEdge, UriEdge, AfterUriEdge, VersionEdge, VersionEndEdge, AfterUri, Upper, SP, UNDERSCORE
  <2>3. x = p + 1
    BY <1>3, <1>7 DEF Rereads
  <2>4. q.request_start = from /\ (c = SP => q.method_end = p - 1)
    BY <1>2, <1>3, <1>7, <2>1
  <2>5. q.complex_uri = r.complex_uri
    BY <1>2, <1>3, <1>4, <1>7 DEF InUri
  <2>6. RequestPlace(q, x, from, M, U, W, V, Z)
    <3>1. CASE c # SP
      <4>1. x \in (from + 1)..M
        BY <1>5, <2>1, <2>3, <3>1
      <4>2. QED
        BY <1>2, <2>2, <2>4, <3>1, <4>1 DEF RequestPlace
    <3>2. CASE c = SP
      <4>1. p = M /\ x \in (M + 1)..U
        BY <1>5, <2>1, <2>3, <3>2
      <4>2. QED
        BY <1>2, <2>2, <2>4, <3>2, <4>1 DEF RequestPlace
    <3>3. QED
      BY <3>1, <3>2
  <2>7. QED
    BY <1>2, <2>2, <2>5, <2>6 DEF PlainSoFar
<1>8. CASE s = "spaces_before_uri"
  <2>1. /\ p \in (M + 1)..U /\ r.request_start = from /\ r.method_end = M - 1
        /\ p < U => c = SP
        /\ p = U => c = "/"
    BY <1>3, <1>5, <1>8 DEF RequestPlace, UriPlace, InUri, Spaced, VersionStates, RequestShape, PlainText
  <2>2. (to = "spaces_before_uri" /\ c = SP) \/ (to = "after_slash_in_uri" /\ c = "/" /\ p = U)
    <3>1. c = SP \/ (c = "/" /\ p = U)
      BY <1>5, <2>1
    <3>2. QED
      BY <1>1, <1>3, <1>8, <3>1 DEF RequestEdge, MethodEdge, HostEdge, UriEdge, AfterUriEdge, VersionEdge, VersionEndEdge, AfterUri, Letter, Upper, SP
  <2>3. x = p + 1
    BY <1>3, <1>8 DEF Rereads
  <2>4. q.request_start = from /\ q.method_end = M - 1 /\ (c = "/" => q.uri_start = p)
    BY <1>2, <1>3, <1>8, <2>1
  <2>5. q.complex_uri = r.complex_uri
    BY <1>2, <1>3, <1>4, <1>8 DEF InUri
  <2>6. CASE c = SP
    <3>1. p < U
      BY <1>5, <2>1, <2>6 DEF SP
    <3>2. x \in (M + 1)..U /\ to = "spaces_before_uri"
      BY <1>5, <2>1, <2>2, <2>3, <2>6, <3>1 DEF SP
    <3>3. QED
      BY <1>2, <2>4, <2>5, <3>2 DEF RequestPlace, PlainSoFar
  <2>7. CASE c # SP
    <3>1. x = U + 1 /\ to = "after_slash_in_uri" /\ c = "/" /\ q.uri_start = U
      BY <2>2, <2>3, <2>4, <2>7
    <3>2. x \in (U + 1)..W /\ U \in U..(x - 1) /\ T[U] = "/" /\ (\A z \in (U + 1)..(x - 1) : T[z] = "+") /\ \A y \in U..(x - 1) : y = U
      BY <1>5, <3>1 DEF PlainText
    <3>3. RequestPlace(q, x, from, M, U, W, V, Z)
      BY <1>2, <2>4, <3>1, <3>2 DEF RequestPlace, UriPlace, InUri
    <3>4. PlainSoFar(q, x, T, U, W)
      BY <1>2, <2>5, <3>1, <3>2 DEF PlainSoFar
    <3>5. QED
      BY <3>3, <3>4
  <2>8. QED
    BY <2>6, <2>7
<1>9. CASE s \in InUri
  <2>1. /\ p \in (U + 1)..W /\ r.request_start = from /\ r.method_end = M - 1 /\ r.uri_start = U
        /\ p < W => c \notin {CR, LF}
        /\ p = W - 1 => c # SP
        /\ p = W => c \in {SP, CR, LF}
        /\ p = W /\ W < V => c = SP
        /\ p = W /\ W = V => c \in {CR, LF} /\ V = Z
    <3>1. p \in (U + 1)..W /\ r.request_start = from /\ r.method_end = M - 1 /\ r.uri_start = U
      BY <1>3, <1>9 DEF RequestPlace, UriPlace, InUri, Spaced, VersionStates
    <3>2. (p < W => c \notin {CR, LF}) /\ (p = W - 1 => c # SP)
      BY <1>3, <1>5, <3>1 DEF RequestShape
    <3>3. p = W /\ W < V => c = SP
      BY <1>3, <1>5, <3>1 DEF RequestShape
    <3>4. p = W /\ W = V => c \in {CR, LF} /\ V = Z
      BY <1>3, <1>5, <3>1 DEF RequestShape
    <3>5. QED
      BY <1>5, <3>1, <3>2, <3>3, <3>4
  <2>2. EdgesFrom(s, c, to)
    BY <1>1, <1>3 DEF EdgesFrom
  <2>3. x = p + 1
    BY <1>3, <1>9, <2>2, UriMove
  <2>4. /\ q.request_start = from /\ q.method_end = M - 1 /\ q.uri_start = U
        /\ c \in {SP, CR, LF} => q.uri_end = p
    BY <1>2, <1>3, <1>9, <2>1 DEF InUri, InHost
  <2>5. /\ ~r.complex_uri
        /\ s \in {"after_slash_in_uri", "check_uri"} => \A y \in U..(p - 1) : y < W => T[y] # "?"
        /\ s = "after_slash_in_uri" => \E y \in U..(p - 1) : T[y] = "/" /\ \A z \in (y + 1)..(p - 1) : T[z] = "+"
    BY <1>3 DEF PlainSoFar
  <2>6. CASE to \in InUri
    <3>1. /\ c \notin {SP, CR, LF}
          /\ to \in {"after_slash_in_uri", "check_uri"} => s \in {"after_slash_in_uri", "check_uri"} /\ c # "?"
          /\ to = "after_slash_in_uri" => (c = "+" /\ s = "after_slash_in_uri") \/ c = "/"
      BY <1>9, <2>2, <2>6, UriMove DEF InUri, Spaced
    <3>2. p \in U..(W - 1) /\ p < W /\ x \in (U + 1)..W /\ x - 1 = p
      BY <1>5, <2>1, <2>3, <3>1
    <3>3. RequestPlace(q, x, from, M, U, W, V, Z)
      BY <1>2, <2>4, <2>6, <3>2 DEF RequestPlace, UriPlace
    <3>4. s \in {"after_slash_in_uri", "check_uri"} => \A y \in U..(p - 1) : T[y] # "?"
      BY <1>5, <2>5, <3>2
    <3>5. ~q.complex_uri
      <4>1. c # "#"
        BY <1>3, <3>2 DEF PlainText
      <4>2. \/ ~(c = "%" \/ (c \in {"/", "."} /\ \E y \in U..(p - 1) : T[y] = "/" /\ \A z \in (y + 1)..(p - 1) : T[z] = "+"))
            \/ \E y \in U..(p - 1) : T[y] = "?"
        BY <1>3, <3>2 DEF PlainText
      <4>3. s \in {"after_slash_in_uri", "check_uri"} => c # "%"
        BY <3>4, <4>2
      <4>4. s = "after_slash_in_uri" => c \notin {"/", "."}
        BY <2>5, <3>4, <4>2
      <4>5. QED
        BY <1>2, <1>3, <2>5, <4>1, <4>3, <4>4
    <3>6. to \in {"after_slash_in_uri", "check_uri"} => \A y \in U..(x - 1) : T[y] # "?"
      <4>1. SUFFICES ASSUME to \in {"after_slash_in_uri", "check_uri"}, NEW y \in U..(x - 1) PROVE T[y] # "?"
        OBVIOUS
      <4>2. y \in U..(p - 1) \/ y = p
        BY <1>5, <3>2
      <4>3. QED
        BY <1>3, <3>1, <3>4, <4>1, <4>2
    <3>7. to = "after_slash_in_uri" => \E y \in U..(x - 1) : T[y] = "/" /\ \A z \in (y + 1)..(x - 1) : T[z] = "+"
      <4>1. SUFFICES ASSUME to = "after_slash_in_uri" PROVE \E y \in U..(x - 1) : T[y] = "/" /\ \A z \in (y + 1)..(x - 1) : T[z] = "+"
        OBVIOUS
      <4>2. CASE c = "/"
        <5>1. p \in U..(x - 1) /\ \A z \in (p + 1)..(x - 1) : FALSE
          BY <1>5, <3>2
        <5>2. T[p] = "/"
          BY <1>3, <4>2
        <5>3. QED
          BY <5>1, <5>2
      <4>3. CASE c = "+" /\ s = "after_slash_in_uri"
        <5>1. PICK y \in U..(p - 1) : T[y] = "/" /\ \A z \in (y + 1)..(p - 1) : T[z] = "+"
          BY <2>5, <4>3
        <5>2. y \in U..(x - 1)
          BY <1>5, <3>2
        <5>3. ASSUME NEW z \in (y + 1)..(x - 1) PROVE T[z] = "+"
          <6>1. z \in (y + 1)..(p - 1) \/ z = p
            BY <1>5, <3>2
          <6>2. QED
            BY <1>3, <4>3, <5>1, <6>1
        <5>4. QED
          BY <5>1, <5>2, <5>3
      <4>4. QED
        BY <3>1, <4>1, <4>2, <4>3
    <3>8. to # "check_uri_http_09"
      BY <2>6 DEF InUri
    <3>9. PlainSoFar(q, x, T, U, W)
      BY <1>2, <3>5, <3>6, <3>7, <3>8 DEF PlainSoFar
    <3>10. QED
      BY <3>3, <3>9
  <2>7. CASE to \notin InUri
    <3>1. ~q.complex_uri
      <4>1. c \in {SP, CR, LF}
        BY <1>9, <2>2, <2>7, UriMove
      <4>2. c \notin {"#", "%", ".", "/"}
        BY <4>1 DEF SP, CR, LF
      <4>3. QED
        BY <1>2, <1>3, <2>5, <4>2
    <3>2. CASE c = SP
      <4>1. to \in Spaced /\ (to = "check_uri_http_09" => s \in {"after_slash_in_uri", "check_uri"}) /\ c \notin {CR, LF}
        BY <1>9, <2>2, <2>7, <3>2, UriMove DEF SP, CR, LF
      <4>2. x \in (U + 1)..(W - 1) \/ (x \in (W + 1)..V /\ q.uri_end = W)
        <5>1. p # W - 1 /\ (p = W => W < V /\ q.uri_end = W)
          BY <1>5, <2>1, <2>4, <3>2, <4>1
        <5>2. QED
          BY <1>5, <2>1, <2>3, <5>1
      <4>3. RequestPlace(q, x, from, M, U, W, V, Z)
        BY <1>2, <2>4, <4>1, <4>2 DEF RequestPlace, UriPlace
      <4>4. to = "check_uri_http_09" => \A y \in U..(x - 1) : y < W => T[y] # "?"
        <5>1. SUFFICES ASSUME to = "check_uri_http_09", NEW y \in U..(x - 1), y < W PROVE T[y] # "?"
          OBVIOUS
        <5>2. y \in U..(p - 1) \/ y = p
          BY <1>5, <2>3
        <5>3. QED
          BY <1>3, <2>5, <3>2, <4>1, <5>1, <5>2 DEF SP
      <4>5. to \notin {"after_slash_in_uri", "check_uri"}
        BY <4>1 DEF Spaced
      <4>6. PlainSoFar(q, x, T, U, W)
        BY <1>2, <3>1, <4>4, <4>5 DEF PlainSoFar
      <4>7. QED
        BY <4>3, <4>6
    <3>3. CASE c # SP
      <4>1. to = "almost_done" /\ c = CR
        BY <1>9, <2>2, <2>7, <3>3, UriMove
      <4>2. p = W /\ W = V /\ V = Z
        <5>1. p = W
          BY <1>5, <2>1, <4>1
        <5>2. W = V
          BY <1>5, <2>1, <3>3, <5>1
        <5>3. QED
          BY <2>1, <5>1, <5>2
      <4>3. x = Z + 1 /\ ~(V < Z)
        BY <1>5, <2>3, <4>2
      <4>4. RequestPlace(q, x, from, M, U, W, V, Z)
        BY <1>2, <2>4, <4>1, <4>3 DEF RequestPlace, UriPlace
      <4>5. QED
        BY <1>2, <3>1, <4>1, <4>4 DEF PlainSoFar
    <3>4. QED
      BY <3>2, <3>3
  <2>8. QED
    BY <2>6, <2>7
<1>10. CASE s \in Spaced
  <2>1. /\ r.request_start = from /\ r.method_end = M - 1 /\ r.uri_start = U
        /\ p \in (U + 1)..(W - 1) \/ (p \in (W + 1)..V /\ r.uri_end = W)
    BY <1>3, <1>10 DEF RequestPlace, UriPlace, InUri, Spaced, VersionStates
  <2>2. EdgesFrom(s, c, to)
    BY <1>1, <1>3 DEF EdgesFrom
  <2>3. /\ q.request_start = from /\ q.method_end = M - 1 /\ q.uri_start = U /\ q.uri_end = r.uri_end
        /\ c = "H" => q.http_protocol = p
    BY <1>2, <1>3, <1>10, <2>1 DEF InUri, InHost, Spaced, AfterUri
  <2>4. ~q.complex_uri
    BY <1>2, <1>3, <1>10 DEF InUri, Spaced, PlainSoFar
  <2>5. s = "check_uri_http_09" => \A y \in U..(p - 1) : y < W => T[y] # "?"
    BY <1>3 DEF PlainSoFar
  <2>6. /\ p < W => c \notin {CR, LF}
        /\ p = W - 1 => c # SP
        /\ p > W /\ p < V => c = SP
        /\ p = V /\ V < Z => c = "H"
        /\ p = V /\ V = Z => c \in {CR, LF}
    BY <1>3, <1>5, <2>1 DEF RequestShape
  <2>7. CASE Rereads(s, c)
    <3>1. to \in {"check_uri", "uri"} /\ c \notin {SP, CR, LF, "H"} /\ (to = "check_uri" => s = "check_uri_http_09")
      BY <1>10, <2>2, <2>7, SpacedMove
    <3>2. x = p
      BY <1>3, <2>7
    <3>3. x \in (U + 1)..W /\ x < W
      BY <1>5, <2>1, <2>6, <3>1, <3>2
    <3>4. RequestPlace(q, x, from, M, U, W, V, Z)
      BY <1>2, <2>3, <3>1, <3>3 DEF RequestPlace, UriPlace, InUri
    <3>5. PlainSoFar(q, x, T, U, W)
      BY <1>2, <2>4, <2>5, <3>1, <3>2 DEF PlainSoFar
    <3>6. QED
      BY <3>4, <3>5
  <2>8. CASE ~Rereads(s, c)
    <3>1. x = p + 1 /\ x - 1 = p
      BY <1>3, <2>8
    <3>2. CASE c = SP
      <4>1. to = s /\ c \notin {CR, LF, "H"}
        BY <1>10, <2>2, <2>8, <3>2, SpacedMove DEF SP, CR, LF
      <4>2. x \in (U + 1)..(W - 1) \/ (x \in (W + 1)..V /\ q.uri_end = W)
        BY <1>5, <2>1, <2>3, <2>6, <3>1, <3>2, <4>1
      <4>3. RequestPlace(q, x, from, M, U, W, V, Z)
        BY <1>2, <1>10, <2>3, <4>1, <4>2 DEF RequestPlace, UriPlace
      <4>4. s = "check_uri_http_09" => \A y \in U..(x - 1) : y < W => T[y] # "?"
        <5>1. SUFFICES ASSUME s = "check_uri_http_09", NEW y \in U..(x - 1), y < W PROVE T[y] # "?"
          OBVIOUS
        <5>2. y \in U..(p - 1) \/ y = p
          BY <1>5, <3>1
        <5>3. QED
          BY <1>3, <2>5, <3>2, <5>1, <5>2 DEF SP
      <4>5. s \notin {"after_slash_in_uri", "check_uri"}
        BY <1>10 DEF Spaced
      <4>6. PlainSoFar(q, x, T, U, W)
        BY <1>2, <2>4, <4>1, <4>4, <4>5 DEF PlainSoFar
      <4>7. QED
        BY <4>3, <4>6
    <3>3. CASE c = "H"
      <4>1. to = "http_H" /\ c \notin {SP, CR, LF}
        BY <1>10, <2>2, <2>8, <3>3, SpacedMove DEF SP, CR, LF
      <4>2. x \in (U + 1)..V \/ (x \in (V + 1)..Z /\ q.uri_end = W /\ q.http_protocol = V)
        <5>1. CASE p \in (U + 1)..(W - 1)
          BY <1>5, <3>1, <5>1
        <5>2. CASE p \in (W + 1)..V /\ r.uri_end = W
          <6>1. p = V /\ V # Z
            BY <1>5, <2>6, <4>1, <5>2
          <6>2. q.uri_end = W /\ q.http_protocol = V
            BY <2>3, <3>3, <5>2, <6>1
          <6>3. QED
            BY <1>5, <3>1, <6>1, <6>2
        <5>3. QED
          BY <2>1, <5>1, <5>2
      <4>3. RequestPlace(q, x, from, M, U, W, V, Z)
        BY <1>2, <2>3, <4>1, <4>2 DEF RequestPlace, UriPlace, VersionStates
      <4>4. QED
        BY <1>2, <2>4, <4>1, <4>3 DEF PlainSoFar
    <3>4. CASE c \notin {SP, "H"}
      <4>1. to = "almost_done" /\ c = CR
        BY <1>10, <2>2, <2>8, <3>4, SpacedMove
      <4>2. p = V /\ V = Z
        BY <1>5, <2>1, <2>6, <3>4, <4>1
      <4>3. x = Z + 1 /\ ~(V < Z)
        BY <1>5, <3>1, <4>2
      <4>4. RequestPlace(q, x, from, M, U, W, V, Z)
        BY <1>2, <2>3, <4>1, <4>3 DEF RequestPlace, UriPlace
      <4>5. QED
        BY <1>2, <2>4, <4>1, <4>4 DEF PlainSoFar
    <3>5. QED
      BY <3>2, <3>3, <3>4
  <2>9. QED
    BY <2>7, <2>8
<1>11. CASE s \in VersionStates
  <2>1. /\ r.request_start = from /\ r.method_end = M - 1 /\ r.uri_start = U
        /\ \/ p \in (U + 1)..V
           \/ p \in (V + 1)..Z /\ r.uri_end = W /\ r.http_protocol = V
    BY <1>3, <1>11 DEF RequestPlace, UriPlace, InUri, Spaced, VersionStates
  <2>2. EdgesFrom(s, c, to)
    BY <1>1, <1>3 DEF EdgesFrom
  <2>3. x = p + 1 /\ x - 1 = p
    BY <1>3, <1>11, <2>2, VersionMove
  <2>4. /\ q.request_start = from /\ q.method_end = M - 1 /\ q.uri_start = U /\ q.uri_end = r.uri_end
        /\ q.http_protocol = r.http_protocol
    BY <1>2, <1>3, <1>11, <2>1 DEF InUri, InHost, VersionStates, AfterUri
  <2>5. ~q.complex_uri
    BY <1>2, <1>3, <1>11 DEF InUri, VersionStates, PlainSoFar
  <2>6. /\ p < Z /\ p # V => c # CR
        /\ p = V /\ V < Z => c = "H"
        /\ p = Z => c \in {CR, LF}
    <3>1. p < W => c # CR
      BY <1>3, <1>5, <2>1 DEF RequestShape
    <3>2. p >= W /\ p < V => c # CR
      BY <1>3, <1>5, <2>1 DEF RequestShape, SP, CR
    <3>3. p > V /\ p < Z => c # CR
      BY <1>3, <1>5, <2>1 DEF RequestShape
    <3>4. (p = V /\ V < Z => c = "H") /\ (p = Z => c \in {CR, LF})
      BY <1>3 DEF RequestShape
    <3>5. QED
      BY <1>5, <3>1, <3>2, <3>3, <3>4
  <2>7. CASE to \in VersionStates
    <3>1. c \notin {CR, LF, "H"}
      BY <1>11, <2>2, <2>7, VersionMove DEF VersionStates
    <3>2. x \in (U + 1)..V \/ (x \in (V + 1)..Z /\ q.uri_end = W /\ q.http_protocol = V)
      <4>1. p # Z /\ p # V
        BY <1>5, <2>6, <3>1
      <4>2. QED
        BY <1>5, <2>1, <2>3, <2>4, <4>1
    <3>3. RequestPlace(q, x, from, M, U, W, V, Z)
      BY <1>2, <2>4, <2>7, <3>2 DEF RequestPlace, UriPlace
    <3>4. to \notin {"after_slash_in_uri", "check_uri", "check_uri_http_09"}
      BY <2>7 DEF VersionStates
    <3>5. QED
      BY <1>2, <2>5, <3>3, <3>4 DEF PlainSoFar
  <2>8. CASE to \notin VersionStates
    <3>1. to = "almost_done" /\ c = CR
      BY <1>11, <2>2, <2>8, VersionMove
    <3>2. p = Z /\ (V < Z => r.uri_end = W /\ r.http_protocol = V)
      <4>1. p = Z
        BY <1>5, <2>1, <2>6, <3>1 DEF CR
      <4>2. QED
        BY <1>5, <2>1, <4>1
    <3>3. x = Z + 1
      BY <2>3, <3>2
    <3>4. RequestPlace(q, x, from, M, U, W, V, Z)
      BY <1>2, <2>4, <3>1, <3>2, <3>3 DEF RequestPlace, UriPlace
    <3>5. QED
      BY <1>2, <2>5, <3>1, <3>4 DEF PlainSoFar
  <2>9. QED
    BY <2>7, <2>8
<1>12. CASE s = "almost_done"
  BY <1>1, <1>3, <1>12 DEF RequestEdge, MethodEdge, HostEdge, UriEdge, AfterUriEdge, VersionEdge, VersionEndEdge, AfterUri
<1>13. QED
  BY <1>3, <1>6, <1>7, <1>8, <1>9, <1>10, <1>11, <1>12 DEF RequestPlace, UriPlace

\* Where the six parts of a line lie.
LEMMA SeqMembers == ASSUME NEW S, NEW l \in Seq(S) PROVE \A j \in 1..Len(l) : l[j] \in S
  OBVIOUS

LEMMA HoldsPart ==
  ASSUME NEW T, NEW t, NEW w, NEW from \in Nat, NEW o \in Nat, NEW u \in Nat, NEW n \in Nat, n = Len(w),
         Holds(T, from, t, u), HasPart(t, o, w, u)
  PROVE  Holds(T, from + o, w, n)
<1>1. ASSUME NEW x \in 1..n PROVE T[from + o - 1 + x] = w[x]
  <2>1. o + x \in 1..u /\ from + o - 1 + x = from - 1 + (o + x)
    BY DEF HasPart
  <2>2. T[from - 1 + (o + x)] = t[o + x] /\ t[o + x] = w[x]
    BY <2>1 DEF Holds, HasPart
  <2>3. QED
    BY <2>1, <2>2
<1>2. QED
  BY <1>1 DEF Holds

PartAt(l, T, from, i) ==
  /\ l[i] \in Seq(Char) /\ Part(l, from, i - 1) \in Nat /\ Part(l, from, i) \in Nat /\ Len(l[i]) \in Nat
  /\ Part(l, from, i) = Part(l, from, i - 1) + Len(l[i])
  /\ Holds(T, Part(l, from, i - 1), l[i], Len(l[i]))

LEMMA PartsAt ==
  ASSUME NEW l \in Seq(Seq(Char)), Len(l) = 6, NEW T, NEW from \in Nat,
         Holds(T, from, Pre(l, 6), Len(Pre(l, 6))), NEW i \in 1..6
  PROVE  PartAt(l, T, from, i)
<1> DEFINE a == Len(Pre(l, i - 1))  b == Len(l[i])  n == Len(Pre(l, 6))  e == Len(Pre(l, i))  P == Pre(l, 6)  w == l[i]
<1>1. \A j \in 1..6 : l[j] \in Seq(Char)
  <2>1. \A j \in 1..Len(l) : l[j] \in Seq(Char)
    BY SeqMembers, Zenon
  <2>2. QED
    BY <2>1, Zenon
<1>2. w \in Seq(Char) /\ b \in Nat /\ a \in Nat /\ e = a + b
  <2>1. i \in Nat \ {0} /\ \A j \in 1..i : l[j] \in Seq(Char)
    BY <1>1, SMTT(30)
  <2>2. QED
    BY <2>1, PreStep, Zenon
<1>3. e <= n /\ \A x \in 1..b : P[a + x] = w[x]
  <2>1. AllIn(l, 6, Char) /\ 6 \in Nat
    BY <1>1, Zenon DEF AllIn
  <2>2. PreHas(l, 6, i)
    BY <2>1, PreHasAt, Zenon
  <2>3. QED
    BY <2>2, Zenon DEF PreHas
<1>4. n \in Nat
  <2>1. P \in Seq(Char) /\ 6 \in Nat
    BY <1>1, PreType, Zenon
  <2>2. QED
    BY <2>1
<1>5. Part(l, from, i - 1) = from + a /\ Part(l, from, i) = from + e
  BY Zenon DEF Part, a, e
<1>6. Holds(T, from, P, n)
  BY Zenon DEF n, P
<1>7. b = Len(w)
  BY Zenon
<1> HIDE DEF a, b, n, e, P, w
<1>8. HasPart(P, a, w, n)
  BY <1>2, <1>3, <1>7 DEF HasPart
<1>9. Holds(T, from + a, w, b)
  BY <1>2, <1>4, <1>6, <1>7, <1>8, HoldsPart
<1>10. from + a \in Nat /\ from + e \in Nat /\ from + e = from + a + b
  BY <1>2
<1>11. QED
  BY <1>2, <1>5, <1>9, <1>10 DEF b, w, PartAt

LEMMA LongAs == \A w \in Seq(Char) : DOMAIN w = 1..Len(w) /\ (Len(w) = 0 <=> w = <<>>)
  OBVIOUS

LEMMA SixLong == \A l \in Seq(Seq(Char)) : Len(l) = 6 => DOMAIN l = 1..6 /\ l = [j \in DOMAIN l |-> l[j]]
  OBVIOUS

\* The first line of a head.
LineAt(l, T, from, next) ==
  /\ l \in Seq(Seq(Char)) /\ Len(l) = 6 /\ l[6] \in Ends
  /\ from \in Nat /\ from >= 1 /\ Part(l, from, 0) = from /\ next = Part(l, from, 6)
  /\ \A i \in 1..6 : PartAt(l, T, from, i)

LEMMA LineParts ==
  ASSUME input \in Inputs, NEW k \in DOMAIN heads
  PROVE  LineAt(heads[k].line, Text(input), From(input, k), FieldFrom(input, k, 1))
<1> DEFINE l == heads[k].line  from == From(input, k)
<1>1. heads[k] \in HeadParts /\ Len(l) = 6 /\ l[6] \in Ends
  BY InputParts, FormAssumption DEF heads
<1>2. l \in Seq(Seq(Char))
  BY <1>1 DEF HeadParts
<1>3. LineText(heads[k]) = Pre(l, 6)
  <2>1. l = [j \in 1..6 |-> l[j]]
    <3>1. DOMAIN l = 1..6 /\ l = [j \in DOMAIN l |-> l[j]]
      BY <1>1, <1>2, SixLong
    <3>2. QED
      BY <3>1, Zenon
  <2>2. QED
    BY <2>1 DEF LineText, Pre
<1>4. from \in Nat /\ from >= 1
  BY HeadPlaces
<1>5. /\ from + Len(Pre(l, 6)) = FieldFrom(input, k, 1)
      /\ Holds(Text(input), from, Pre(l, 6), Len(Pre(l, 6)))
  BY <1>3, FieldPlaces DEF Holds
<1> HIDE DEF l, from
<1>6. Part(l, from, 0) = from
  <2>1. Len(Pre(l, 0)) = 0
    BY PreNone
  <2>2. QED
    BY <1>4, <2>1 DEF Part
<1>7. Part(l, from, 6) = FieldFrom(input, k, 1)
  BY <1>5 DEF Part
<1>8. QED
  <2>1. ASSUME NEW i \in 1..6 PROVE PartAt(l, Text(input), from, i)
    BY <1>1, <1>2, <1>4, <1>5, PartsAt
  <2>2. QED
    BY <1>1, <1>2, <1>4, <1>6, <1>7, <2>1 DEF LineAt, l, from

\* The end of the first line.
LEMMA LineEndsAt ==
  ASSUME NEW l, NEW T, NEW from, NEW next, LineAt(l, T, from, next), NEW Z, Z = Part(l, from, 5)
  PROVE  /\ Z \in Nat /\ Z >= 1 /\ T[Z] \in {CR, LF}
         /\ l[6] = CRLF => T[Z] = CR /\ T[Z + 1] = LF /\ next = Z + 2
<1> Z >= 1
  <2> DEFINE a == Part(l, from, 1)  b == Part(l, from, 2)  c == Part(l, from, 3)  d == Part(l, from, 4)
  <2>1. 1 \in 1..6 /\ 2 \in 1..6 /\ 3 \in 1..6 /\ 4 \in 1..6 /\ 5 \in 1..6 /\ 1 - 1 = 0 /\ 2 - 1 = 1 /\ 3 - 1 = 2 /\ 4 - 1 = 3 /\ 5 - 1 = 4
    OBVIOUS
  <2>2. PartAt(l, T, from, 1) /\ PartAt(l, T, from, 2) /\ PartAt(l, T, from, 3) /\ PartAt(l, T, from, 4) /\ PartAt(l, T, from, 5)
    BY <2>1 DEF LineAt
  <2>3. from \in Nat /\ from >= 1 /\ Part(l, from, 0) = from
    BY DEF LineAt
  <2>4. /\ a \in Nat /\ b \in Nat /\ c \in Nat /\ d \in Nat /\ Z \in Nat
        /\ a = from + Len(l[1]) /\ b = a + Len(l[2]) /\ c = b + Len(l[3]) /\ d = c + Len(l[4]) /\ Z = d + Len(l[5])
        /\ Len(l[1]) \in Nat /\ Len(l[2]) \in Nat /\ Len(l[3]) \in Nat /\ Len(l[4]) \in Nat /\ Len(l[5]) \in Nat
    BY <2>1, <2>2, <2>3, Zenon DEF PartAt
  <2> HIDE DEF a, b, c, d
  <2>5. \A x \in Nat, y \in Nat : x >= 1 => x + y >= 1
    OBVIOUS
  <2>6. a >= 1
    BY <2>3, <2>4, <2>5
  <2>7. b >= 1
    BY <2>4, <2>5, <2>6
  <2>8. c >= 1
    BY <2>4, <2>5, <2>7
  <2>9. d >= 1
    BY <2>4, <2>5, <2>8
  <2>10. QED
    BY <2>4, <2>5, <2>9
<1>1. /\ Z \in Nat /\ l[6] \in Ends /\ next = Z + Len(l[6])
      /\ \A x \in 1..Len(l[6]) : T[Z - 1 + x] = l[6][x]
  <2>1. 6 \in 1..6 /\ 6 - 1 = 5
    OBVIOUS
  <2>2. QED
    BY <2>1 DEF LineAt, PartAt, Holds
<1>2. Z - 1 + 1 = Z /\ Z - 1 + 2 = Z + 1
  BY <1>1
<1>3. CASE l[6] = CRLF
  <2>1. Len(l[6]) = 2 /\ l[6][1] = CR /\ l[6][2] = LF
    BY <1>3 DEF CRLF
  <2>2. 1 \in 1..Len(l[6]) /\ 2 \in 1..Len(l[6])
    BY <2>1
  <2>3. T[Z - 1 + 1] = CR /\ T[Z - 1 + 2] = LF
    BY <1>1, <2>1, <2>2
  <2>4. QED
    BY <1>1, <1>2, <2>1, <2>3
<1>4. CASE l[6] # CRLF
  <2>1. Len(l[6]) = 1 /\ l[6][1] = LF
    BY <1>1, <1>4 DEF Ends
  <2>2. 1 \in 1..Len(l[6])
    BY <2>1
  <2>3. T[Z - 1 + 1] = LF
    BY <1>1, <2>1, <2>2
  <2>4. QED
    BY <1>1, <1>2, <1>4, <2>3
<1>5. QED
  BY <1>3, <1>4

\* What the characters of a part say of the characters of the text.
LEMMA Segment ==
  ASSUME NEW T, NEW w, NEW a \in Nat, NEW n \in Nat, Holds(T, a, w, n), NEW x \in a..(a + n - 1)
  PROVE  x - a + 1 \in 1..n /\ T[x] = w[x - a + 1]
<1> DEFINE i == x - a + 1
<1>1. i \in 1..n /\ a - 1 + i = x
  OBVIOUS
<1> HIDE DEF i
<1>2. T[x] = w[i]
  BY <1>1 DEF Holds
<1>3. QED
  BY <1>1, <1>2 DEF i

Avoids(T, a, b, S) == \A x \in a..(b - 1) : T[x] \notin S
Spaces(T, a, b) == \A x \in a..(b - 1) : T[x] = SP

LEMMA SegmentAvoids ==
  ASSUME NEW T, NEW w, NEW a \in Nat, NEW b \in Nat, NEW n \in Nat, b = a + n, Holds(T, a, w, n), NEW S, \A i \in 1..n : w[i] \notin S
  PROVE  Avoids(T, a, b, S)
<1>1. ASSUME NEW x \in a..(b - 1) PROVE T[x] \notin S
  <2>1. x - a + 1 \in 1..n /\ T[x] = w[x - a + 1]
    BY Segment
  <2>2. QED
    BY <2>1
<1>2. QED
  BY <1>1 DEF Avoids

LEMMA SegmentSpaces ==
  ASSUME NEW T, NEW w, NEW a \in Nat, NEW b \in Nat, NEW n \in Nat, b = a + n, Holds(T, a, w, n), \A i \in 1..n : w[i] = SP
  PROVE  Spaces(T, a, b)
<1>1. ASSUME NEW x \in a..(b - 1) PROVE T[x] = SP
  <2>1. x - a + 1 \in 1..n /\ T[x] = w[x - a + 1]
    BY Segment
  <2>2. QED
    BY <2>1
<1>2. QED
  BY <1>1 DEF Spaces

\* The shape of a request line.
LEMMA RequestLineShape ==
  ASSUME NEW l, NEW T, NEW from, NEW next, LineAt(l, T, from, next), RequestForm(l)
  PROVE  /\ RequestShape(T, from, Part(l, from, 1), Part(l, from, 2), Part(l, from, 3), Part(l, from, 4), Part(l, from, 5))
         /\ l[3] \in Seq(Char) /\ Len(l[3]) # 0 /\ Part(l, from, 3) = Part(l, from, 2) + Len(l[3])
         /\ Holds(T, Part(l, from, 2), l[3], Len(l[3]))
         /\ Part(l, from, 5) = Part(l, from, 4) + Len(l[5]) /\ l[5] \in Seq(Char)
<1> DEFINE M == Part(l, from, 1)  U == Part(l, from, 2)  W == Part(l, from, 3)  V == Part(l, from, 4)  Z == Part(l, from, 5)
           a == Len(l[1])  b == Len(l[2])  c == Len(l[3])  d == Len(l[4])  e == Len(l[5])
<1>1. /\ from \in Nat /\ l[1] \in Seq(Char) /\ l[2] \in Seq(Char) /\ l[3] \in Seq(Char) /\ l[4] \in Seq(Char) /\ l[5] \in Seq(Char)
      /\ M \in Nat /\ U \in Nat /\ W \in Nat /\ V \in Nat /\ Z \in Nat
      /\ a \in Nat /\ b \in Nat /\ c \in Nat /\ d \in Nat /\ e \in Nat
      /\ M = from + a /\ Holds(T, from, l[1], a)
      /\ U = M + b /\ Holds(T, M, l[2], b)
      /\ W = U + c /\ Holds(T, U, l[3], c)
      /\ V = W + d /\ Holds(T, W, l[4], d)
      /\ Z = V + e /\ Holds(T, V, l[5], e)
  <2>1. 1 \in 1..6 /\ 2 \in 1..6 /\ 3 \in 1..6 /\ 4 \in 1..6 /\ 5 \in 1..6 /\ 1 - 1 = 0 /\ 2 - 1 = 1 /\ 3 - 1 = 2 /\ 4 - 1 = 3 /\ 5 - 1 = 4
    OBVIOUS
  <2>2. from \in Nat /\ Part(l, from, 0) = from
    BY DEF LineAt
  <2>3. PartAt(l, T, from, 1) /\ PartAt(l, T, from, 2) /\ PartAt(l, T, from, 3) /\ PartAt(l, T, from, 4) /\ PartAt(l, T, from, 5)
    BY <2>1 DEF LineAt
  <2>4. QED
    BY <2>1, <2>2, <2>3, Zenon DEF PartAt
<1>2. Z \in Nat /\ T[Z] \in {CR, LF}
  BY LineEndsAt
<1>3. /\ DOMAIN l[1] = 1..a /\ DOMAIN l[2] = 1..b /\ DOMAIN l[3] = 1..c /\ DOMAIN l[4] = 1..d /\ DOMAIN l[5] = 1..e
      /\ (a = 0 <=> l[1] = <<>>) /\ (b = 0 <=> l[2] = <<>>) /\ (c = 0 <=> l[3] = <<>>) /\ (d = 0 <=> l[4] = <<>>)
      /\ (e = 0 <=> l[5] = <<>>)
  BY <1>1, LongAs
<1>4. /\ a # 0 /\ b # 0 /\ c # 0 /\ (e # 0 => d # 0 /\ l[5][1] = "H")
  BY <1>3, Zenon DEF RequestForm
<1>5. /\ \A i \in 1..a : l[1][i] \notin {SP, CR, LF}
      /\ \A i \in 1..b : l[2][i] = SP
      /\ \A i \in 1..c : l[3][i] \notin {CR, LF}
      /\ l[3][1] # SP /\ l[3][c] # SP
      /\ \A i \in 1..d : l[4][i] = SP
      /\ \A i \in 1..e : l[5][i] \notin {CR, LF}
  <2>1. 1 \in 1..5 /\ 3 \in 1..5 /\ 5 \in 1..5 /\ 2 \in {2, 4} /\ 4 \in {2, 4}
    OBVIOUS
  <2>2. /\ \A i \in 1..a : l[1][i] # SP
        /\ \A i \in 1..a : l[1][i] \notin {CR, LF}
        /\ \A i \in 1..c : l[3][i] \notin {CR, LF}
        /\ \A i \in 1..e : l[5][i] \notin {CR, LF}
        /\ \A i \in 1..b : l[2][i] = SP
        /\ \A i \in 1..d : l[4][i] = SP
        /\ l[3][1] # SP /\ l[3][c] # SP
    BY <1>3, <2>1, Zenon DEF RequestForm
  <2>3. QED
    BY <2>2
<1>6. LineAt(l, T, from, next)
  OBVIOUS
<1> HIDE DEF M, U, W, V, Z, a, b, c, d, e
<1>7. from < M /\ M < U /\ U < W /\ W <= V /\ V <= Z /\ (V < Z => W < V) /\ (V < Z => e # 0)
  BY <1>1, <1>4
<1>8. Avoids(T, from, M, {SP, CR, LF})
  BY <1>1, <1>5, SegmentAvoids
<1>9. Spaces(T, M, U)
  BY <1>1, <1>5, SegmentSpaces
<1>10. Avoids(T, U, W, {CR, LF})
  BY <1>1, <1>5, SegmentAvoids
<1>11. Spaces(T, W, V)
  <2>1. W \in Nat /\ V \in Nat /\ d \in Nat /\ V = W + d /\ Holds(T, W, l[4], d) /\ \A i \in 1..d : l[4][i] = SP
    BY <1>1, <1>5
  <2>2. QED
    BY <2>1, SegmentSpaces
<1>12. Avoids(T, V, Z, {CR, LF})
  BY <1>1, <1>5, SegmentAvoids
<1>13. T[U] = l[3][1] /\ T[W - 1] = l[3][c]
  <2>1. U \in U..(U + c - 1) /\ U - U + 1 = 1 /\ W - 1 \in U..(U + c - 1) /\ (W - 1) - U + 1 = c
    BY <1>1, <1>4, <1>7
  <2>2. ASSUME NEW x \in U..(U + c - 1) PROVE T[x] = l[3][x - U + 1]
    <3>1. U \in Nat /\ c \in Nat /\ Holds(T, U, l[3], c)
      BY <1>1
    <3>2. QED
      BY <3>1, Segment
  <2>3. QED
    BY <2>1, <2>2
<1>14. V < Z => T[V] = l[5][1]
  <2>1. V < Z => V \in V..(V + e - 1) /\ V - V + 1 = 1
    BY <1>1, <1>7
  <2>2. ASSUME NEW x \in V..(V + e - 1) PROVE T[x] = l[5][x - V + 1]
    <3>1. V \in Nat /\ e \in Nat /\ Holds(T, V, l[5], e)
      BY <1>1
    <3>2. QED
      BY <3>1, Segment
  <2>3. QED
    BY <2>1, <2>2
<1>15. RequestShape(T, from, M, U, W, V, Z)
  <2>1. T[U] # SP /\ T[W - 1] # SP /\ (V < Z => T[V] = "H")
    BY <1>4, <1>5, <1>7, <1>13, <1>14
  <2>2. QED
    BY <1>1, <1>2, <1>7, <1>8, <1>9, <1>10, <1>11, <1>12, <2>1 DEF RequestShape, Avoids, Spaces, Z
<1>16. QED
  BY <1>1, <1>4, <1>15 DEF M, U, W, V, Z, c, e

\* A plain URI in the text.
LEMMA PlainAt ==
  ASSUME NEW T, NEW w \in Seq(Char), Len(w) # 0, NEW U \in Nat, NEW W \in Nat, W = U + Len(w), Holds(T, U, w, Len(w)), Plain(w)
  PROVE  PlainText(T, U, W)
<1> DEFINE c == Len(w)
<1>1. c \in Nat /\ c # 0 /\ W = U + c /\ DOMAIN w = 1..c
  OBVIOUS
<1>2. Holds(T, U, w, c)
  OBVIOUS
<1>3. w[1] = "/" /\ (\A i \in 1..c : w[i] # "#")
      /\ \A k \in 1..c : w[k] = "%" \/ (w[k] \in {"/", "."} /\ AfterSlash(w, k)) => \E i \in 1..(k - 1) : w[i] = "?"
  BY <1>1 DEF Plain, At
<1> HIDE DEF c
<1>4. ASSUME NEW x \in U..(W - 1) PROVE x - U + 1 \in 1..c /\ T[x] = w[x - U + 1]
  BY <1>1, <1>2, Segment
<1>5. T[U] = "/"
  <2>1. U \in U..(W - 1) /\ U - U + 1 = 1
    BY <1>1
  <2>2. QED
    BY <1>3, <1>4, <2>1
<1>6. ASSUME NEW x \in U..(W - 1) PROVE T[x] # "#"
  BY <1>3, <1>4
<1>7. ASSUME NEW x \in U..(W - 1),
             T[x] = "%" \/ (T[x] \in {"/", "."} /\ \E y \in U..(x - 1) : T[y] = "/" /\ \A z \in (y + 1)..(x - 1) : T[z] = "+")
      PROVE  \E y \in U..(x - 1) : T[y] = "?"
  <2> DEFINE i == x - U + 1
  <2>1. i \in 1..c /\ T[x] = w[i] /\ i = x - U + 1
    BY <1>4
  <2>2. ASSUME NEW j \in 1..(i - 1) PROVE U + j - 1 \in U..(x - 1) /\ T[U + j - 1] = w[j]
    <3>1. U + j - 1 \in U..(x - 1) /\ j \in 1..c /\ U + j - 1 = U - 1 + j
      BY <1>1, <2>1
    <3>2. QED
      BY <1>2, <3>1 DEF Holds
  <2> HIDE DEF i
  <2>3. w[i] = "%" \/ (w[i] \in {"/", "."} /\ AfterSlash(w, i))
    <3>1. CASE T[x] = "%"
      BY <2>1, <3>1
    <3>2. CASE T[x] # "%"
      <4>1. PICK y \in U..(x - 1) : T[y] = "/" /\ \A z \in (y + 1)..(x - 1) : T[z] = "+"
        BY <1>7, <3>2
      <4> DEFINE j == y - U + 1
      <4>2. j \in 1..(i - 1) /\ U + j - 1 = y /\ j = y - U + 1
        BY <1>1, <2>1
      <4> HIDE DEF j
      <4>3. w[j] = "/"
        BY <2>2, <4>1, <4>2
      <4>4. ASSUME NEW m \in (j + 1)..(i - 1) PROVE w[m] = "+"
        <5>1. m \in 1..(i - 1) /\ U + m - 1 \in (y + 1)..(x - 1)
          BY <1>1, <2>1, <4>2
        <5>2. QED
          BY <2>2, <4>1, <5>1
      <4>5. AfterSlash(w, i)
        BY <4>2, <4>3, <4>4 DEF AfterSlash
      <4>6. QED
        BY <1>7, <2>1, <3>2, <4>5
    <3>3. QED
      BY <3>1, <3>2
  <2>4. PICK j \in 1..(i - 1) : w[j] = "?"
    BY <1>3, <2>1, <2>3
  <2>5. QED
    BY <2>2, <2>4
<1>8. QED
  BY <1>5, <1>6, <1>7 DEF PlainText

\* The end of a request line with a plain URI.
LineSet(q, from, M, U, W, V, Z) ==
  /\ q.request_start = from /\ q.method_end = M - 1 /\ q.uri_start = U /\ q.uri = U /\ q.uri_end = W
  /\ q.http_protocol = V /\ q.request_end = Z

\* The fields of the request_t behind the line.
LEMMA RequestLineDoneFields ==
  ASSUME r \in RequestT, p \in Int, NEW q, q = http_request_line_parsed(RequestLineDone), NEW w, w = RequestLineChar("start"), ~w.complex_uri
  PROVE  /\ q.request_start = w.request_start /\ q.method_end = w.method_end /\ q.uri_start = w.uri_start /\ q.uri = w.uri_start
         /\ q.uri_end = w.uri_end /\ q.http_protocol = w.http_protocol /\ q.complex_uri = w.complex_uri /\ q.upstream = w.upstream
         /\ w.request_end # NULL => q.request_end = w.request_end
<1> DEFINE e == IF w.request_end = NULL THEN p ELSE w.request_end  v == RequestLineDone
           u == IF v.complex_uri THEN v.uri ELSE v.uri_start
<1>1. w \in RequestT
  BY RequestLineCharType, HeaderStates
<1>2. v = [w EXCEPT !.request_end = e]
  BY DEF RequestLineDone
<1>3. w.request_end # NULL => e = w.request_end
  OBVIOUS
<1> HIDE DEF e, v
<1>4. /\ v.request_start = w.request_start /\ v.method_end = w.method_end /\ v.uri_start = w.uri_start
      /\ v.uri_end = w.uri_end /\ v.http_protocol = w.http_protocol /\ v.complex_uri = w.complex_uri /\ v.upstream = w.upstream
      /\ v.request_end = e
  BY <1>1, <1>2 DEF RequestT
<1>5. v \in RequestT
  BY RequestLineDoneType DEF v
<1>6. u = w.uri_start
  BY <1>4
<1>7. q = [v EXCEPT !.uri = u]
  BY DEF http_request_line_parsed, v
<1> HIDE DEF u
<1>8. /\ q.request_start = v.request_start /\ q.method_end = v.method_end /\ q.uri_start = v.uri_start
      /\ q.uri_end = v.uri_end /\ q.http_protocol = v.http_protocol /\ q.complex_uri = v.complex_uri /\ q.upstream = v.upstream
      /\ q.request_end = v.request_end /\ q.uri = u
  BY <1>5, <1>7 DEF RequestT
<1>9. QED
  BY <1>3, <1>4, <1>6, <1>8

LEMMA UpstreamKept ==
  ASSUME r \in RequestT, p \in Int
  PROVE  RequestLineDone.upstream = r.upstream /\ http_request_line_parsed(RequestLineDone).upstream = r.upstream
<1> DEFINE w == RequestLineChar("start")  e == IF w.request_end = NULL THEN p ELSE w.request_end  v == RequestLineDone
           u == IF v.complex_uri THEN v.uri ELSE v.uri_start
<1>1. w \in RequestT /\ w.upstream = r.upstream
  BY RequestLineCharType, RequestLineCharFields, HeaderStates
<1>2. v = [w EXCEPT !.request_end = e]
  BY DEF RequestLineDone
<1> HIDE DEF w, e, v
<1>3. v.upstream = w.upstream
  BY <1>1, <1>2 DEF RequestT
<1>4. v \in RequestT
  BY RequestLineDoneType DEF v
<1>5. http_request_line_parsed(v) = [v EXCEPT !.uri = u]
  BY DEF http_request_line_parsed
<1> HIDE DEF u
<1>6. QED
  BY <1>1, <1>3, <1>4, <1>5 DEF RequestT, v

LEMMA RequestPlaceDone ==
  ASSUME r \in RequestT, NEW T, NEW from, NEW M, NEW U, NEW W, NEW V, NEW Z,
         RequestShape(T, from, M, U, W, V, Z),
         RequestPlace(r, p, from, M, U, W, V, Z), ~r.complex_uri, p \in Nat, ch = T[p], ch \in Char, r.state \in State,
         RequestLineMove[r.state][ch] = "done", NEW q, q = http_request_line_parsed(RequestLineDone)
  PROVE  /\ ~q.complex_uri /\ q.upstream = r.upstream
         /\ V < Z /\ T[Z] = CR => LineSet(q, from, M, U, W, V, Z)
<1>1. PICK s, c : s = r.state /\ c = ch
  OBVIOUS
<1>2. c = LF /\ s # "start" /\ s \notin {"method", "spaces_before_uri"}
  <2>1. c = LF /\ s # "start" /\ RequestEdge(s, c, "done")
    BY <1>1, RequestTarget, RequestMove
  <2>2. QED
    BY <2>1 DEF RequestEdge, MethodEdge, HostEdge, UriEdge, AfterUriEdge, VersionEdge, VersionEndEdge, AfterUri
<1>3. PICK w : w = RequestLineChar("start")
  OBVIOUS
<1>4. r.complex_uri \in BOOLEAN
  BY DEF RequestT
<1>5. /\ w.request_start = r.request_start /\ w.method_end = r.method_end /\ w.upstream = r.upstream
      /\ s \notin InHost => w.uri_start = r.uri_start
      /\ s \notin InUri \cup InHost => w.uri_end = r.uri_end
      /\ w.http_protocol = r.http_protocol /\ ~w.complex_uri
      /\ s = "almost_done" => w.request_end = p - 1
  BY <1>1, <1>2, <1>3, <1>4, RequestLineCharFields DEF LF, SP
<1>6. /\ from \in Nat /\ M \in Nat /\ U \in Nat /\ W \in Nat /\ V \in Nat /\ Z \in Nat
      /\ from < M /\ M < U /\ U < W /\ W <= V /\ V <= Z /\ (V < Z => W < V)
  BY DEF RequestShape
<1>7. r.request_start = from /\ r.method_end = M - 1 /\ r.uri_start = U /\ UriPlace(r, p, U, W, V, Z)
  BY <1>1, <1>2 DEF RequestPlace
<1>8. q.complex_uri = w.complex_uri /\ q.upstream = w.upstream
  BY <1>3, <1>5, RequestLineDoneFields
<1>9. ASSUME V < Z, T[Z] = CR PROVE LineSet(q, from, M, U, W, V, Z)
  <2>1. /\ \A x \in U..(W - 1) : T[x] \notin {CR, LF}
        /\ \A x \in W..(V - 1) : T[x] = SP
        /\ T[V] = "H"
        /\ \A x \in V..(Z - 1) : T[x] \notin {CR, LF}
    BY <1>9 DEF RequestShape
  <2>2. ~(p \in (U + 1)..Z)
    <3>1. SUFFICES ASSUME p \in (U + 1)..Z PROVE FALSE
      OBVIOUS
    <3>2. p \in U..(W - 1) \/ p \in W..(V - 1) \/ p \in V..(Z - 1) \/ p = Z
      BY <1>6, <3>1
    <3>3. QED
      BY <1>1, <1>2, <1>9, <2>1, <3>2 DEF SP, CR, LF
  <2>3. s = "almost_done" /\ p = Z + 1 /\ r.uri_end = W /\ r.http_protocol = V
    BY <1>1, <1>6, <1>7, <1>9, <2>2 DEF UriPlace
  <2>4. w.request_end = Z /\ Z # NULL
    BY <1>5, <1>6, <2>3 DEF NULL
  <2>5. s \notin InUri \cup InHost
    BY <2>3 DEF InUri, InHost
  <2>6. /\ q.request_start = w.request_start /\ q.method_end = w.method_end /\ q.uri_start = w.uri_start /\ q.uri = w.uri_start
        /\ q.uri_end = w.uri_end /\ q.http_protocol = w.http_protocol /\ q.request_end = w.request_end
    BY <1>3, <1>5, <2>4, RequestLineDoneFields
  <2>7. QED
    BY <1>5, <1>7, <2>3, <2>4, <2>5, <2>6 DEF LineSet
<1>10. QED
  BY <1>5, <1>8, <1>9

\* A status line: CR leads to its end or nowhere.
LEMMA StatusOnCR ==
  ASSUME r.state \in State, ch \in Char, ch = CR, StatusLineTo # "invalid"
  PROVE  StatusLineTo = "almost_done"
<1>1. ch \notin Digit
  BY DEF Digit, CR
<1>2. StatusLineTo = StatusLineMove[r.state][ch]
  BY <1>1 DEF StatusLineTo
<1>3. StatusEdge(r.state, ch, StatusLineTo)
  BY <1>2, StatusMove
<1>4. QED
  BY <1>3 DEF StatusEdge, VersionEdge, Digit, CR, LF, SP

Mark(in, k, n) == Part(in.heads[k].line, From(in, k), n)
PlainUpto(in, k) == \A j \in 1..k : Plain(in.heads[j].line[3])
EndsCRLF(in, k) == in.heads[k].line[6] = CRLF
Versioned(in, k) == in.heads[k].line[5] # <<>>

\* The parser in the first line of head k, and what it leaves behind.
RequestAt(in, q, x, k) ==
  /\ RequestPlace(q, x, From(in, k), Mark(in, k, 1), Mark(in, k, 2), Mark(in, k, 3), Mark(in, k, 4), Mark(in, k, 5))
  /\ PlainSoFar(q, x, Text(in), Mark(in, k, 2), Mark(in, k, 3))
RequestSet(in, q, k) ==
  LineSet(q, From(in, k), Mark(in, k, 1), Mark(in, k, 2), Mark(in, k, 3), Mark(in, k, 4), Mark(in, k, 5))
StatusAt(in, q, x, k) ==
  q.state = "start" \/ (q.request_start = From(in, k) /\ (x = Mark(in, k, 5) + 1 => q.state = "almost_done"))
StatusSet(in, q, k) == q.request_start = From(in, k) /\ q.status_end = Mark(in, k, 5)

RequestSeen(in, q, x, m, k) ==
  /\ m = "request_line" => RequestAt(in, q, x, k)
  /\ m \in {"headers", "send"} => ~q.complex_uri
  /\ m = "headers" /\ Versioned(in, k) /\ EndsCRLF(in, k) => RequestSet(in, q, k)
StatusSeen(in, q, x, m, k) ==
  /\ m = "status_line" => StatusAt(in, q, x, k)
  /\ m = "headers" => StatusSet(in, q, k)

PlainHead(in, q, k) == ~q.upstream /\ in.kind = "request" /\ k \in DOMAIN in.heads /\ PlainUpto(in, k)
StatusHead(in, k) == in.kind # "request" /\ k \in DOMAIN in.heads /\ EndsCRLF(in, k)

ModeKind(in, q, m) ==
  /\ m = "request_line" => in.kind = "request"
  /\ m = "status_line" => in.kind # "request"
  /\ m = "send" => q.state = "start"

LineSeen(in, q, x, m, k) ==
  /\ ModeKind(in, q, m)
  /\ PlainHead(in, q, k) => RequestSeen(in, q, x, m, k)
  /\ StatusHead(in, k) => StatusSeen(in, q, x, m, k)

LineInv == LineSeen(input, r, p, mode, Cur)

\* A head of which the request line was plain.
LEMMA PlainShape ==
  ASSUME input \in Inputs, NEW k, k \in DOMAIN heads, input.kind = "request"
  PROVE  /\ RequestShape(Text(input), From(input, k), Mark(input, k, 1), Mark(input, k, 2), Mark(input, k, 3),
                         Mark(input, k, 4), Mark(input, k, 5))
         /\ PlainUpto(input, k) => PlainText(Text(input), Mark(input, k, 2), Mark(input, k, 3))
         /\ Versioned(input, k) => Mark(input, k, 4) < Mark(input, k, 5)
         /\ EndsCRLF(input, k) => Text(input)[Mark(input, k, 5)] = CR
<1>1. PICK l, T, from, next : l = heads[k].line /\ T = Text(input) /\ from = From(input, k) /\ next = FieldFrom(input, k, 1)
  OBVIOUS
<1>2. LineAt(l, T, from, next)
  BY <1>1, LineParts
<1>3. RequestForm(l)
  BY <1>1, FormAssumption DEF heads
<1>4. /\ Mark(input, k, 1) = Part(l, from, 1) /\ Mark(input, k, 2) = Part(l, from, 2) /\ Mark(input, k, 3) = Part(l, from, 3)
      /\ Mark(input, k, 4) = Part(l, from, 4) /\ Mark(input, k, 5) = Part(l, from, 5)
  BY <1>1, Zenon DEF Mark, heads
<1>5. /\ RequestShape(T, from, Part(l, from, 1), Part(l, from, 2), Part(l, from, 3), Part(l, from, 4), Part(l, from, 5))
      /\ l[3] \in Seq(Char) /\ Len(l[3]) # 0 /\ Part(l, from, 3) = Part(l, from, 2) + Len(l[3])
      /\ Holds(T, Part(l, from, 2), l[3], Len(l[3]))
      /\ Part(l, from, 5) = Part(l, from, 4) + Len(l[5]) /\ l[5] \in Seq(Char)
  BY <1>2, <1>3, RequestLineShape
<1>6. ASSUME PlainUpto(input, k) PROVE PlainText(T, Part(l, from, 2), Part(l, from, 3))
  <2>1. k \in 1..k
    BY InputParts
  <2>2. Plain(l[3])
    BY <1>1, <1>6, <2>1 DEF PlainUpto, heads
  <2>3. Part(l, from, 2) \in Nat /\ Part(l, from, 3) \in Nat
    BY <1>5 DEF RequestShape
  <2>4. QED
    BY <1>5, <2>2, <2>3, PlainAt
<1>7. ASSUME Versioned(input, k) PROVE Part(l, from, 4) < Part(l, from, 5)
  <2> DEFINE V == Part(l, from, 4)  Z == Part(l, from, 5)  e == Len(l[5])
  <2>1. l[5] # <<>>
    BY <1>1, <1>7 DEF Versioned, heads
  <2>2. e # 0 /\ e \in Nat
    BY <1>5, <2>1, LongAs
  <2>3. V \in Nat /\ Z = V + e
    BY <1>5 DEF RequestShape
  <2> HIDE DEF V, Z, e
  <2>4. V < Z
    BY <2>2, <2>3
  <2>5. QED
    BY <2>4 DEF V, Z
<1>8. ASSUME EndsCRLF(input, k) PROVE T[Part(l, from, 5)] = CR
  <2>1. l[6] = CRLF
    BY <1>1, <1>8 DEF EndsCRLF, heads
  <2>2. QED
    BY <1>2, <2>1, LineEndsAt
<1>9. QED
  BY <1>1, <1>4, <1>5, <1>6, <1>7, <1>8

LEMMA LineInit == Init => LineInv
<1> SUFFICES ASSUME Init PROVE LineInv
  OBVIOUS
<1>1. input \in Inputs /\ sent = <<>> /\ p = 1 /\ Cur = 1
  BY DEF Init, Cur
<1>2. PICK d \in Dirty : r = Fields(d)
  BY DEF Init
<1>3. r.state = "start" /\ r.upstream = d /\ r.complex_uri = d
  BY <1>2 DEF Fields
<1>4. mode = IF input.kind = "request" THEN "request_line" ELSE "status_line"
  BY DEF Init
<1>5. ModeKind(input, r, mode)
  BY <1>4 DEF ModeKind
<1>6. PlainHead(input, r, Cur) => RequestSeen(input, r, p, mode, Cur)
  <2>1. From(input, 1) = 1
    BY <1>1, HeadPlaces
  <2>2. PlainHead(input, r, Cur) => mode = "request_line" /\ ~r.complex_uri
    BY <1>3, <1>4 DEF PlainHead
  <2>3. QED
    BY <1>1, <1>3, <2>1, <2>2 DEF RequestSeen, RequestAt, RequestPlace, PlainSoFar
<1>7. StatusHead(input, Cur) => StatusSeen(input, r, p, mode, Cur)
  <2>1. StatusHead(input, Cur) => mode = "status_line"
    BY <1>4 DEF StatusHead
  <2>2. QED
    BY <1>3, <2>1 DEF StatusSeen, StatusAt
<1>8. QED
  BY <1>5, <1>6, <1>7 DEF LineInv, LineSeen

\* The head the parser stands in stays the same.
LEMMA SameHead ==
  ASSUME UNCHANGED <<input, sent>>
  PROVE  LineInv' <=> LineSeen(input, r', p', mode', Cur)
<1>1. Cur' = Cur /\ input' = input
  BY DEF Cur
<1>2. QED
  BY <1>1 DEF LineInv

LEMMA RequestLineSeen ==
  ASSUME HeadInv, AgreeInv, LineInv, request_line_char \/ request_line_done
  PROVE  LineInv'
<1>1. mode = "request_line" /\ More /\ UNCHANGED <<input, text, sent>>
  BY DEF request_line_char, request_line_done
<1>2. r \in RequestT /\ p \in Nat /\ p \in Int /\ ch \in Char /\ r.state \in State /\ input \in Inputs
  BY <1>1, Reading DEF HeadInv, Types
<1>3. PICK k : k = Cur
  OBVIOUS
<1>4. k \in DOMAIN heads /\ input.kind = "request"
  BY <1>1, <1>3, FirstLine DEF LineInv, LineSeen, ModeKind
<1>5. ch = Text(input)[p]
  BY <1>1, CharHere DEF AgreeInv
<1> DEFINE T == Text(input)  from == From(input, k)  M == Mark(input, k, 1)  U == Mark(input, k, 2)  W == Mark(input, k, 3)
           V == Mark(input, k, 4)  Z == Mark(input, k, 5)  to == RequestLineMove[r.state][ch]
<1>6. /\ RequestShape(T, from, M, U, W, V, Z)
      /\ PlainUpto(input, k) => PlainText(T, U, W)
      /\ Versioned(input, k) => V < Z
      /\ EndsCRLF(input, k) => T[Z] = CR
  BY <1>2, <1>4, PlainShape
<1>7. PlainHead(input, r, k) => PlainUpto(input, k) /\ RequestPlace(r, p, from, M, U, W, V, Z) /\ PlainSoFar(r, p, T, U, W)
  BY <1>1, <1>3 DEF LineInv, LineSeen, RequestSeen, RequestAt, PlainHead
<1>8. ~StatusHead(input, k)
  BY <1>4 DEF StatusHead
<1> HIDE DEF T, from, M, U, W, V, Z, to
<1>9. CASE request_line_char
  <2>1. to \notin {"done", "invalid"} /\ r' = RequestLineChar(to) /\ mode' = mode
        /\ p' = (IF Rereads(r.state, ch) THEN p ELSE p + 1)
    BY <1>9 DEF request_line_char, to
  <2>2. r'.upstream = r.upstream
    BY <1>2, <2>1, RequestLineCharFields
  <2>3. ASSUME PlainHead(input, r, k) PROVE RequestPlace(r', p', from, M, U, W, V, Z) /\ PlainSoFar(r', p', T, U, W)
    BY <1>2, <1>5, <1>6, <1>7, <2>1, <2>3, RequestPlaceStep DEF T, to
  <2>4. PlainHead(input, r', k) => RequestSeen(input, r', p', mode', k)
    BY <1>1, <2>1, <2>2, <2>3 DEF PlainHead, RequestSeen, RequestAt, T, from, M, U, W, V, Z
  <2>5. ModeKind(input, r', mode')
    BY <1>1, <1>4, <2>1 DEF ModeKind
  <2>6. QED
    BY <1>1, <1>3, <1>8, <2>4, <2>5, SameHead DEF LineSeen
<1>10. CASE request_line_done
  <2>1. /\ to = "done" /\ mode' \in {"idle", "headers"}
        /\ mode' = "headers" => r' = http_request_line_parsed(RequestLineDone)
    BY <1>10 DEF request_line_done, to
  <2>2. CASE mode' = "idle"
    BY <1>1, <1>3, <1>8, <2>2, SameHead DEF LineSeen, ModeKind, RequestSeen
  <2>3. CASE mode' = "headers"
    <3>1. ASSUME PlainHead(input, r, k)
          PROVE  /\ ~r'.complex_uri /\ (V < Z /\ T[Z] = CR => LineSet(r', from, M, U, W, V, Z))
      <4>1. ~r.complex_uri
        BY <1>7, <3>1 DEF PlainSoFar
      <4>2. QED
        BY <1>2, <1>5, <1>6, <1>7, <2>1, <2>3, <3>1, <4>1, RequestPlaceDone DEF T, to
    <3>2. r'.upstream = r.upstream
      BY <1>2, <2>1, <2>3, UpstreamKept
    <3>3. PlainHead(input, r', k) => RequestSeen(input, r', p', mode', k)
      BY <1>6, <2>3, <3>1, <3>2 DEF PlainHead, RequestSeen, RequestSet, T, from, M, U, W, V, Z
    <3>4. ModeKind(input, r', mode')
      BY <2>3 DEF ModeKind
    <3>5. QED
      BY <1>1, <1>3, <1>8, <3>3, <3>4, SameHead DEF LineSeen
  <2>4. QED
    BY <2>1, <2>2, <2>3
<1>11. QED
  BY <1>9, <1>10

LEMMA StartsThere ==
  ASSUME Place, input \in Inputs, mode \in {"request_line", "status_line"}, NEW k \in DOMAIN heads, k = Cur, r.state = "start"
  PROVE  p = From(input, k)
<1>1. k # Len(heads) + 1
  <2>1. k \in 1..Len(heads) /\ Len(heads) \in Nat
    BY InputParts
  <2>2. QED
    BY <2>1
<1>2. QED
  BY <1>1 DEF Place

LEMMA StatusLineSeen ==
  ASSUME HeadInv, AgreeInv, LineInv, status_line_char \/ status_line_done
  PROVE  LineInv'
<1>1. mode = "status_line" /\ More /\ UNCHANGED <<input, text, sent>> /\ p' = p + 1
  BY DEF status_line_char, status_line_done
<1>2. r \in RequestT /\ p \in Nat /\ p \in Int /\ ch \in Char /\ r.state \in State /\ input \in Inputs
  BY <1>1, Reading DEF HeadInv, Types
<1>3. PICK k : k = Cur
  OBVIOUS
<1>4. k \in DOMAIN heads /\ input.kind # "request"
  BY <1>1, <1>3, FirstLine DEF LineInv, LineSeen, ModeKind
<1>5. ch = Text(input)[p]
  BY <1>1, CharHere DEF AgreeInv
<1> DEFINE T == Text(input)  from == From(input, k)  Z == Mark(input, k, 5)
<1>6. EndsCRLF(input, k) => Z \in Nat /\ Z >= 1 /\ T[Z] = CR /\ FieldFrom(input, k, 1) = Z + 2
  <2>1. PICK l, next : l = heads[k].line /\ next = FieldFrom(input, k, 1)
    OBVIOUS
  <2>2. LineAt(l, T, from, next) /\ Z = Part(l, from, 5)
    BY <1>2, <1>4, <2>1, LineParts DEF Mark, heads
  <2>3. QED
    BY <2>1, <2>2, LineEndsAt DEF EndsCRLF, heads
<1>7. r.state = "start" => p = from
  BY <1>1, <1>2, <1>3, <1>4, StartsThere DEF AgreeInv
<1>8. ch = LF /\ EndsCRLF(input, k) => p = Z + 1
  <2> DEFINE n == Len(LineText(heads[k]))
  <2>1. n \in Nat /\ from \in Nat /\ (ch = LF <=> p = from + n - 1) /\ FieldFrom(input, k, 1) = from + n
    BY <1>1, <1>3, FirstLine
  <2> HIDE DEF n, from, Z
  <2>2. QED
    BY <1>2, <1>6, <2>1
<1>9. StatusHead(input, k) => EndsCRLF(input, k) /\ StatusAt(input, r, p, k)
  BY <1>1, <1>3 DEF LineInv, LineSeen, StatusSeen, StatusHead
<1>10. ~PlainHead(input, r', k)
  BY <1>4 DEF PlainHead
<1> HIDE DEF T, from, Z
<1>11. CASE status_line_char
  <2>1. StatusLineTo \notin {"done", "invalid"} /\ r' = StatusLineChar(StatusLineTo) /\ mode' = mode
    BY <1>11 DEF status_line_char
  <2>2. r'.state = StatusLineTo /\ r'.request_start = (IF r.state = "start" THEN p ELSE r.request_start)
    BY <1>2, <2>1, StatusLineCharFields
  <2>3. ASSUME StatusHead(input, k) PROVE StatusAt(input, r', p', k)
    <3>1. r'.request_start = from
      BY <1>7, <1>9, <2>2, <2>3 DEF StatusAt, from
    <3>2. p' = Z + 1 => r'.state = "almost_done"
      <4>1. p' = Z + 1 => p = Z
        BY <1>1, <1>2, <1>6, <1>9, <2>3
      <4>2. p = Z => ch = CR
        BY <1>5, <1>6, <1>9, <2>3 DEF T
      <4>3. ch = CR => StatusLineTo = "almost_done"
        BY <1>2, <2>1, StatusOnCR
      <4>4. QED
        BY <2>2, <4>1, <4>2, <4>3
    <3>3. QED
      BY <3>1, <3>2 DEF StatusAt, from, Z
  <2>4. StatusHead(input, k) => StatusSeen(input, r', p', mode', k)
    BY <1>1, <2>1, <2>3 DEF StatusSeen
  <2>5. ModeKind(input, r', mode')
    BY <1>1, <1>4, <2>1 DEF ModeKind
  <2>6. QED
    BY <1>1, <1>3, <1>10, <2>4, <2>5, SameHead DEF LineSeen
<1>12. CASE status_line_done
  <2> DEFINE w == StatusLineChar("start")  e == IF w.status_end = NULL THEN p ELSE w.status_end
  <2>1. StatusLineTo = "done" /\ r' = [w EXCEPT !.status_end = e] /\ mode' = "headers"
    BY <1>12 DEF status_line_done
  <2>2. ch = LF
    BY <1>2, <2>1, StatusTo
  <2>3. /\ w \in RequestT /\ w.request_start = (IF r.state = "start" THEN p ELSE r.request_start)
        /\ w.status_end = (IF r.state = "almost_done" THEN p - 1 ELSE r.status_end)
    BY <1>2, StatusLineCharType, StatusLineCharFields, HeaderStates
  <2>4. w.status_end # NULL => e = w.status_end
    OBVIOUS
  <2> HIDE DEF w, e
  <2>5. r'.status_end = e /\ r'.request_start = w.request_start
    BY <2>1, <2>3 DEF RequestT
  <2>6. ASSUME StatusHead(input, k) PROVE StatusSet(input, r', k)
    <3>1. p = Z + 1 /\ Z \in Nat
      BY <1>6, <1>8, <1>9, <2>2, <2>6
    <3>2. r.state # "start"
      <4>1. SUFFICES ASSUME r.state = "start" PROVE FALSE
        OBVIOUS
      <4>2. ch \notin {CR, LF}
        BY <1>1, <1>3, <4>1, FirstLine
      <4>3. QED
        BY <2>2, <4>2
    <3>3. r.state = "almost_done" /\ r.request_start = from
      BY <1>9, <2>6, <3>1, <3>2 DEF StatusAt, from, Z
    <3>4. w.request_start = from /\ w.status_end = p - 1 /\ p - 1 = Z
      BY <2>3, <3>1, <3>3
    <3>5. Z # NULL
      BY <1>6, <1>9, <2>6 DEF NULL
    <3>6. e = Z
      BY <2>4, <3>4, <3>5
    <3>7. QED
      BY <2>5, <3>4, <3>6 DEF StatusSet, from, Z
  <2>7. StatusHead(input, k) => StatusSeen(input, r', p', mode', k)
    BY <2>1, <2>6 DEF StatusSeen
  <2>8. ModeKind(input, r', mode')
    BY <2>1 DEF ModeKind
  <2>9. QED
    BY <1>1, <1>3, <1>10, <2>7, <2>8, SameHead DEF LineSeen
<1>13. QED
  BY <1>11, <1>12

LEMMA HeadersSeen ==
  ASSUME HeadInv, LineInv, header_line_char \/ header_line_done \/ headers_done
  PROVE  LineInv'
<1>1. PICK to : /\ mode = "headers" /\ UNCHANGED <<input, sent>> /\ r' = HeaderLineChar(to) /\ mode' \in {"headers", "send", "crashed"}
                /\ mode' = "send" => to = "start"
  BY DEF header_line_char, header_line_done, headers_done
<1>2. r \in RequestT
  BY DEF HeadInv, Types
<1>3. /\ r'.state = to
      /\ r'.request_start = r.request_start /\ r'.request_end = r.request_end /\ r'.method_end = r.method_end
      /\ r'.uri_start = r.uri_start /\ r'.uri_end = r.uri_end /\ r'.uri = r.uri /\ r'.complex_uri = r.complex_uri
      /\ r'.http_protocol = r.http_protocol /\ r'.upstream = r.upstream /\ r'.status_end = r.status_end
  BY <1>1, <1>2, HeaderLineCharFields
<1>4. PICK k : k = Cur
  OBVIOUS
<1>5. PlainHead(input, r', k) => RequestSeen(input, r', p', mode', k)
  <2>1. PlainHead(input, r', k) => PlainHead(input, r, k)
    BY <1>3 DEF PlainHead
  <2>2. PlainHead(input, r, k) => RequestSeen(input, r, p, mode, k)
    BY <1>4 DEF LineInv, LineSeen
  <2>3. RequestSeen(input, r, p, mode, k) => RequestSeen(input, r', p', mode', k)
    BY <1>1, <1>3 DEF RequestSeen, RequestSet, LineSet
  <2>4. QED
    BY <2>1, <2>2, <2>3
<1>6. StatusHead(input, k) => StatusSeen(input, r', p', mode', k)
  BY <1>1, <1>3, <1>4 DEF LineInv, LineSeen, StatusSeen, StatusSet
<1>7. ModeKind(input, r', mode')
  BY <1>1, <1>3 DEF ModeKind
<1>8. QED
  BY <1>1, <1>4, <1>5, <1>6, <1>7, SameHead DEF LineSeen

LEMMA SendSeen ==
  ASSUME HeadInv, AgreeInv, LineInv, send
  PROVE  LineInv'
<1>1. /\ mode = "send" /\ input' = input /\ r' = r /\ p' = p
      /\ mode' = IF input.kind = "request" THEN "request_line" ELSE "idle"
  BY DEF send
<1>2. PICK k : k = Cur
  OBVIOUS
<1>3. sent \in Seq([chain : Pieces, elements : Seq(AnElement)]) /\ k \in DOMAIN heads /\ p = From(input, k + 1) /\ input \in Inputs
  BY <1>1, <1>2 DEF AgreeInv, Place, HeadInv, Types
<1>4. Cur' = k + 1
  <2>1. Len(sent) \in Nat /\ k = Len(sent) + 1
    BY <1>2, <1>3 DEF Cur
  <2>2. sent' = Append(sent, [chain |-> chain, elements |-> elements])
    BY DEF send
  <2>3. Len(sent') = Len(sent) + 1
    <3> DEFINE S == [chain : Pieces, elements : Seq(AnElement)]  e == [chain |-> chain, elements |-> elements]
    <3>1. sent \in Seq(S) /\ e \in S
      BY <1>3 DEF HeadInv, Types
    <3> HIDE DEF S, e
    <3>2. QED
      BY <2>2, <3>1 DEF e
  <2>4. QED
    BY <2>1, <2>3 DEF Cur
<1>5. r.state = "start"
  BY <1>1 DEF LineInv, LineSeen, ModeKind
<1>6. ModeKind(input, r, mode')
  BY <1>1 DEF ModeKind
<1>7. ~StatusHead(input, k + 1) \/ mode' = "idle"
  BY <1>1 DEF StatusHead
<1>8. ASSUME PlainHead(input, r, k + 1) PROVE RequestSeen(input, r, p, mode', k + 1)
  <2>1. mode' = "request_line"
    BY <1>1, <1>8 DEF PlainHead
  <2>2. k \in Nat
    BY <1>3, InputParts
  <2>3. PlainUpto(input, k)
    <3>1. ASSUME NEW j \in 1..k PROVE j \in 1..(k + 1)
      BY <2>2
    <3>2. QED
      BY <1>8, <3>1 DEF PlainHead, PlainUpto
  <2>4. PlainHead(input, r, k)
    BY <1>3, <1>8, <2>3 DEF PlainHead, heads
  <2>5. ~r.complex_uri
    BY <1>1, <1>2, <2>4 DEF LineInv, LineSeen, RequestSeen
  <2>6. QED
    BY <1>3, <1>5, <2>1, <2>5 DEF RequestSeen, RequestAt, RequestPlace, PlainSoFar
<1>9. LineSeen(input, r, p, mode', k + 1)
  BY <1>6, <1>7, <1>8 DEF LineSeen, StatusSeen
<1>10. QED
  BY <1>1, <1>4, <1>9 DEF LineInv

LEMMA LineNext == HeadInv /\ AgreeInv /\ LineInv /\ [Next]_vars => LineInv'
<1> SUFFICES ASSUME HeadInv, AgreeInv, LineInv, [Next]_vars PROVE LineInv'
  OBVIOUS
<1>1. ASSUME mode' \in {"idle", "crashed", "spinning"}, UNCHANGED <<input, sent>> PROVE LineInv'
  BY <1>1, SameHead DEF LineSeen, ModeKind, RequestSeen, StatusSeen
<1>2. ASSUME UNCHANGED vars PROVE LineInv'
  BY <1>2, SameHead DEF LineInv, vars
<1>3. CASE request_line_char \/ request_line_done
  BY <1>3, RequestLineSeen
<1>4. CASE status_line_char \/ status_line_done
  BY <1>4, StatusLineSeen
<1>5. CASE request_line_ends \/ status_line_ends \/ header_line_wild \/ headers_spin \/ send_wild
  BY <1>1, <1>5 DEF request_line_ends, status_line_ends, header_line_wild, headers_spin, send_wild
<1>6. CASE header_line_char \/ header_line_done \/ headers_done
  BY <1>6, HeadersSeen
<1>7. CASE send
  BY <1>7, SendSeen
<1>8. CASE Ended
  BY <1>2, <1>8 DEF Ended
<1>9. QED
  BY <1>2, <1>3, <1>4, <1>5, <1>6, <1>7, <1>8 DEF Next

LEMMA LineInvariant == Spec => []LineInv
  BY LineInit, LineNext, HeadInvariant, AgreeInvariant, PTL DEF Spec

-----------------------------------------------------------------------------
(* What goes out for a head.                                               *)

\* A header line with its name in lower case.
Low(f) == [f EXCEPT !.name = [i \in DOMAIN f.name |-> tolower[f.name[i]]]]
LT(k) == [j \in DOMAIN fields(k) |-> FieldText(Low(fields(k)[j]))]

LEMMA LowerType == \A c \in Char : tolower[c] \in Char
  BY DEF tolower, Char, Letter, Upper

LEMMA LowType ==
  ASSUME NEW f \in FieldParts
  PROVE  /\ Low(f) \in FieldParts /\ Len(Low(f).name) = Len(f.name) /\ Len(f.name) \in Nat
         /\ \A i \in 1..Len(f.name) : Low(f).name[i] = tolower[f.name[i]]
         /\ Low(f).sep = f.sep /\ Low(f).value = f.value /\ Low(f).pad = f.pad /\ Low(f).eol = f.eol
<1> DEFINE w == [i \in DOMAIN f.name |-> tolower[f.name[i]]]  n == Len(f.name)
<1>1. f.name \in Seq(Char)
  BY DEF FieldParts
<1>2. n \in Nat /\ DOMAIN f.name = 1..n /\ \A i \in 1..n : f.name[i] \in Char
  BY <1>1
<1>3. w \in [1..n -> Char]
  BY <1>2, LowerType
<1>4. w \in Seq(Char) /\ Len(w) = n
  <2> HIDE DEF w, n
  <2>1. QED
    BY <1>2, <1>3
<1>5. \A i \in 1..n : w[i] = tolower[f.name[i]]
  BY <1>2
<1>6. Low(f) = [f EXCEPT !.name = w]
  BY DEF Low
<1> HIDE DEF w, n
<1>7. Low(f) \in FieldParts /\ Low(f).name = w /\ Low(f).sep = f.sep /\ Low(f).value = f.value /\ Low(f).pad = f.pad /\ Low(f).eol = f.eol
  BY <1>4, <1>6 DEF FieldParts
<1>8. QED
  BY <1>2, <1>4, <1>5, <1>7 DEF n

LEMMA LowText ==
  ASSUME NEW f \in FieldParts
  PROVE  /\ FieldText(Low(f)) \in Seq(Char) /\ Len(FieldText(Low(f))) = Len(FieldText(f)) /\ Len(FieldText(f)) \in Nat
         /\ Len(f.name) \in Nat /\ Len(f.name) <= Len(FieldText(f))
         /\ \A i \in 1..Len(f.name) : FieldText(Low(f))[i] = tolower[FieldText(f)[i]]
         /\ \A i \in (Len(f.name) + 1)..Len(FieldText(f)) : FieldText(Low(f))[i] = FieldText(f)[i]
<1> DEFINE n == Len(f.name)  s == Len(f.sep)  v == Len(f.value)  w == Len(f.pad)  z == Len(f.eol)
           t == FieldText(f)  u == FieldText(Low(f))
<1>1. /\ Low(f) \in FieldParts /\ Len(Low(f).name) = n /\ n \in Nat /\ \A i \in 1..n : Low(f).name[i] = tolower[f.name[i]]
      /\ Low(f).sep = f.sep /\ Low(f).value = f.value /\ Low(f).pad = f.pad /\ Low(f).eol = f.eol
  BY LowType
<1>2. /\ n \in Nat /\ s \in Nat /\ v \in Nat /\ w \in Nat /\ z \in {1, 2}
      /\ t \in Seq(Char) /\ Len(t) = n + s + v + w + z
      /\ \A i \in 1..n : t[i] = f.name[i]
      /\ \A i \in 1..s : t[n + i] = f.sep[i]
      /\ \A i \in 1..v : t[n + s + i] = f.value[i]
      /\ \A i \in 1..w : t[n + s + v + i] = f.pad[i]
      /\ \A i \in 1..z : t[n + s + v + w + i] = f.eol[i]
  BY FieldTextAt
<1>3. /\ u \in Seq(Char) /\ Len(u) = n + s + v + w + z
      /\ \A i \in 1..n : u[i] = Low(f).name[i]
      /\ \A i \in 1..s : u[n + i] = f.sep[i]
      /\ \A i \in 1..v : u[n + s + i] = f.value[i]
      /\ \A i \in 1..w : u[n + s + v + i] = f.pad[i]
      /\ \A i \in 1..z : u[n + s + v + w + i] = f.eol[i]
  <2> DEFINE g == Low(f)
  <2>1. g \in FieldParts
    BY <1>1
  <2>2. LET n1 == Len(g.name)  s1 == Len(g.sep)  v1 == Len(g.value)  w1 == Len(g.pad) IN
        /\ u \in Seq(Char) /\ Len(u) = n1 + s1 + v1 + w1 + Len(g.eol)
        /\ \A i \in 1..n1 : u[i] = g.name[i]
        /\ \A i \in 1..s1 : u[n1 + i] = g.sep[i]
        /\ \A i \in 1..v1 : u[n1 + s1 + i] = g.value[i]
        /\ \A i \in 1..w1 : u[n1 + s1 + v1 + i] = g.pad[i]
        /\ \A i \in 1..Len(g.eol) : u[n1 + s1 + v1 + w1 + i] = g.eol[i]
    <3> HIDE DEF g
    <3>1. QED
      BY <2>1, FieldTextAt DEF g
  <2>3. QED
    BY <1>1, <2>2
<1> HIDE DEF n, s, v, w, z, t, u
<1>4. ASSUME NEW i \in (n + 1)..(n + s + v + w + z) PROVE u[i] = t[i]
  <2>1. n + s \in Nat /\ n + s + v \in Nat /\ n + s + v + w \in Nat /\ i \in Int
    BY <1>2
  <2>2. CASE i <= n + s
    <3>1. i - (n) \in 1..s /\ i = n + (i - (n))
      BY <1>2, <2>2
    <3>2. PICK o \in 1..s : i = n + o
      BY <3>1
    <3>3. u[n + o] = f.sep[o] /\ t[n + o] = f.sep[o]
      BY <1>2, <1>3, Zenon
    <3>4. QED
      BY <3>2, <3>3, Zenon
  <2>3. CASE i > n + s /\ i <= n + s + v
    <3>1. i - (n + s) \in 1..v /\ i = n + s + (i - (n + s))
      BY <1>2, <2>3
    <3>2. PICK o \in 1..v : i = n + s + o
      BY <3>1
    <3>3. u[n + s + o] = f.value[o] /\ t[n + s + o] = f.value[o]
      BY <1>2, <1>3, Zenon
    <3>4. QED
      BY <3>2, <3>3, Zenon
  <2>4. CASE i > n + s + v /\ i <= n + s + v + w
    <3>1. i - (n + s + v) \in 1..w /\ i = n + s + v + (i - (n + s + v))
      BY <1>2, <2>4
    <3>2. PICK o \in 1..w : i = n + s + v + o
      BY <3>1
    <3>3. u[n + s + v + o] = f.pad[o] /\ t[n + s + v + o] = f.pad[o]
      BY <1>2, <1>3, Zenon
    <3>4. QED
      BY <3>2, <3>3, Zenon
  <2>5. CASE i > n + s + v + w
    <3>1. i - (n + s + v + w) \in 1..z /\ i = n + s + v + w + (i - (n + s + v + w))
      BY <1>2, <2>5
    <3>2. PICK o \in 1..z : i = n + s + v + w + o
      BY <3>1
    <3>3. u[n + s + v + w + o] = f.eol[o] /\ t[n + s + v + w + o] = f.eol[o]
      BY <1>2, <1>3, Zenon
    <3>4. QED
      BY <3>2, <3>3, Zenon
  <2>6. QED
    BY <2>1, <2>2, <2>3, <2>4, <2>5
<1>5. \A i \in 1..n : u[i] = tolower[t[i]]
  BY <1>1, <1>2, <1>3
<1>6. Len(u) = Len(t) /\ Len(t) \in Nat /\ n <= Len(t) /\ Len(t) = n + s + v + w + z
  BY <1>2, <1>3
<1>7. QED
  BY <1>2, <1>3, <1>4, <1>5, <1>6 DEF n, t, u

\* Two pieces, one behind the other.
Joined(t, a, b, n, m) ==
  /\ t \in Seq(Char) /\ Len(t) = n + m /\ n \in Nat /\ m \in Nat
  /\ Holds(t, 1, a, n) /\ Holds(t, 1 + n, b, m)

LEMMA JoinedIs == \A a, b \in Seq(Char) : Joined(a \o b, a, b, Len(a), Len(b))
<1> SUFFICES ASSUME NEW a \in Seq(Char), NEW b \in Seq(Char) PROVE Joined(a \o b, a, b, Len(a), Len(b))
  OBVIOUS
<1> DEFINE t == a \o b  n == Len(a)  m == Len(b)
<1>1. t \in Seq(Char) /\ Len(t) = n + m /\ (\A i \in 1..n : t[i] = a[i]) /\ (\A i \in 1..m : t[n + i] = b[i]) /\ n \in Nat /\ m \in Nat
  OBVIOUS
<1> HIDE DEF t, n, m
<1>2. (\A i \in 1..n : t[1 - 1 + i] = a[i]) /\ (\A i \in 1..m : t[1 + n - 1 + i] = b[i])
  BY <1>1
<1>3. QED
  BY <1>1, <1>2 DEF t, n, m, Joined, Holds

LEMMA HoldsCut ==
  ASSUME NEW t, NEW w, NEW a \in Nat, NEW n \in Nat, NEW l, NEW o \in Nat, NEW m \in Nat,
         Holds(t, a, w, n), Holds(w, 1 + o, l, m), o + m <= n
  PROVE  Holds(t, a + o, l, m)
<1>1. ASSUME NEW i \in 1..m PROVE t[a + o - 1 + i] = l[i]
  <2>1. o + i \in 1..n /\ a + o - 1 + i = a - 1 + (o + i) /\ 1 + o - 1 + i = o + i
    OBVIOUS
  <2>2. t[a - 1 + (o + i)] = w[o + i] /\ w[1 + o - 1 + i] = l[i]
    BY <2>1 DEF Holds
  <2>3. QED
    BY <2>1, <2>2
<1>2. QED
  BY <1>1 DEF Holds

LEMMA ThreeParts ==
  ASSUME NEW l \in Seq(Char), NEW b \in Seq(Char), NEW e \in Seq(Char)
  PROVE  LET t == l \o b \o e IN
         /\ t \in Seq(Char) /\ Len(t) = Len(l) + Len(b) + Len(e)
         /\ Holds(t, 1, l, Len(l)) /\ Holds(t, 1 + Len(l), b, Len(b)) /\ Holds(t, 1 + Len(l) + Len(b), e, Len(e))
<1> DEFINE lb == l \o b  t == lb \o e  x == Len(l)  y == Len(b)  z == Len(e)  c == Len(lb)
<1>1. Joined(lb, l, b, x, y) /\ lb \in Seq(Char)
  BY JoinedIs
<1>2. Joined(t, lb, e, c, z)
  <2> HIDE DEF lb
  <2>1. QED
    BY <1>1, JoinedIs
<1> HIDE DEF lb, t, x, y, z, c
<1>3. c = x + y /\ x \in Nat /\ y \in Nat /\ Holds(lb, 1, l, x) /\ Holds(lb, 1 + x, b, y)
  BY <1>1 DEF Joined, c
<1>4. t \in Seq(Char) /\ Len(t) = c + z /\ z \in Nat /\ c \in Nat /\ Holds(t, 1, lb, c) /\ Holds(t, 1 + c, e, z)
  BY <1>2 DEF Joined
<1>5. Holds(t, 1 + x, b, y)
  <2>1. x + y <= c
    BY <1>3
  <2>2. QED
    BY <1>3, <1>4, <2>1, HoldsCut
<1>6. Holds(t, 1, l, x)
  <2>1. 0 + x <= c /\ 1 + 0 = 1 /\ 0 \in Nat /\ 1 \in Nat
    BY <1>3
  <2>2. Holds(lb, 1 + 0, l, x)
    BY <1>3, <2>1
  <2>3. Holds(t, 1 + 0, l, x)
    BY <1>3, <1>4, <2>1, <2>2, HoldsCut, Zenon
  <2>4. QED
    BY <2>1, <2>3
<1>7. 1 + c = 1 + x + y /\ c + z = x + y + z
  BY <1>3, <1>4
<1>8. QED
  BY <1>4, <1>5, <1>6, <1>7 DEF t, lb, x, y, z

LEMMA HoldsJoin ==
  ASSUME NEW X, NEW F, NEW w, NEW a \in Nat, NEW u \in Nat, NEW m \in Nat,
         Holds(X, a, F, u), Holds(F, 1 + u, w, m), Holds(X, a + u, w, m)
  PROVE  Holds(X, a, F, u + m)
<1>1. ASSUME NEW i \in 1..(u + m) PROVE X[a - 1 + i] = F[i]
  <2>1. CASE i <= u
    <3>1. i \in 1..u
      BY <2>1
    <3>2. QED
      BY <3>1 DEF Holds
  <2>2. CASE i > u
    <3>1. i - u \in 1..m /\ i = u + (i - u)
      BY <2>2
    <3>2. PICK o \in 1..m : i = u + o
      BY <3>1
    <3>3. (1 + u) - 1 + o = i /\ (a + u) - 1 + o = a - 1 + i
      BY <3>2
    <3>4. F[(1 + u) - 1 + o] = w[o] /\ X[(a + u) - 1 + o] = w[o]
      BY Zenon DEF Holds
    <3>5. QED
      BY <3>3, <3>4
  <2>3. QED
    BY <2>1, <2>2
<1>2. QED
  BY <1>1 DEF Holds

LEMMA LowTexts ==
  ASSUME input \in Inputs, NEW k \in DOMAIN heads
  PROVE  /\ \A j \in 1..Len(fields(k)) : LT(k)[j] \in Seq(Char) /\ LT(k)[j] = FieldText(Low(fields(k)[j])) /\ Len(LT(k)[j]) = Len(FT(k)[j])
         /\ Pre(LT(k), Len(fields(k))) \in Seq(Char)
         /\ Forwarded(heads[k]) = LineText(heads[k]) \o Pre(LT(k), Len(fields(k))) \o heads[k].end
<1> DEFINE n == Len(fields(k))
<1>1. /\ n \in Nat /\ DOMAIN fields(k) = 1..n /\ \A j \in DOMAIN fields(k) : fields(k)[j] \in FieldParts
      /\ heads \in Seq(HeadParts)
  BY InputParts
<1>2. \A j \in 1..n : LT(k)[j] = FieldText(Low(fields(k)[j])) /\ FT(k)[j] = FieldText(fields(k)[j])
  BY <1>1 DEF LT, FT
<1>3. ASSUME NEW j \in 1..n PROVE LT(k)[j] \in Seq(Char) /\ Len(LT(k)[j]) = Len(FT(k)[j])
  <2>1. fields(k)[j] \in FieldParts
    BY <1>1
  <2>2. FieldText(Low(fields(k)[j])) \in Seq(Char) /\ Len(FieldText(Low(fields(k)[j]))) = Len(FieldText(fields(k)[j]))
    BY <2>1, LowText
  <2>3. QED
    BY <1>2, <2>2
<1>4. Pre(LT(k), n) \in Seq(Char)
  BY <1>1, <1>3, PreType
<1> DEFINE h == heads[k]  fs == [j \in DOMAIN h.fields |-> Low(h.fields[j])]  g == [h EXCEPT !.fields = fs]
<1>5. h \in HeadParts
  BY <1>1
<1>6. Forwarded(h) = HeadText(g)
  BY DEF Forwarded, Low, Lower
<1>7. h.fields = fields(k)
  BY DEF fields
<1>8. DOMAIN fs = 1..n /\ \A j \in 1..n : fs[j] = Low(fields(k)[j])
  BY <1>1, <1>7
<1> HIDE DEF h, fs, n
<1>9. g.line = h.line /\ g.end = h.end /\ g.fields = fs
  BY <1>5 DEF HeadParts
<1> HIDE DEF g
<1>10. [j \in DOMAIN g.fields |-> FieldText(g.fields[j])] = [j \in 1..n |-> LT(k)[j]]
  BY <1>2, <1>8, <1>9
<1>11. HeadText(g) = LineText(h) \o Pre(LT(k), n) \o h.end
  BY <1>9, <1>10 DEF HeadText, LineText, Pre
<1>12. QED
  BY <1>2, <1>3, <1>4, <1>6, <1>11 DEF n, h

\* Lower case does not change where a line lies.
LEMMA LowLong ==
  ASSUME input \in Inputs, NEW k \in DOMAIN heads
  PROVE  \A j \in 0..Len(fields(k)) : Len(Pre(LT(k), j)) = Len(Pre(FT(k), j))
<1> DEFINE n == Len(fields(k))  Bad == {j \in 0..n : Len(Pre(LT(k), j)) # Len(Pre(FT(k), j))}
<1>1. n \in Nat
  BY InputParts
<1>2. \A j \in 1..n : LT(k)[j] \in Seq(Char) /\ Len(LT(k)[j]) = Len(FT(k)[j]) /\ FT(k)[j] \in Seq(Char)
  BY LowTexts, HeadTextType
<1> HIDE DEF n
<1>3. SUFFICES ASSUME Bad # {} PROVE FALSE
  BY DEF n
<1>4. PICK j \in Bad : \A y \in Bad : j <= y
  <2>1. Bad \subseteq Nat
    OBVIOUS
  <2> HIDE DEF Bad
  <2>2. QED
    BY <1>3, <2>1, LeastNumber
<1>5. j \in 0..n /\ Len(Pre(LT(k), j)) # Len(Pre(FT(k), j))
  OBVIOUS
<1>6. j # 0
  <2>1. Pre(LT(k), 0) = <<>> /\ Pre(FT(k), 0) = <<>>
    BY PreNone
  <2>2. QED
    BY <1>5, <2>1
<1>7. j - 1 \in 0..n /\ j - 1 \notin Bad
  BY <1>1, <1>4, <1>5, <1>6
<1>8. Len(Pre(LT(k), j - 1)) = Len(Pre(FT(k), j - 1))
  BY <1>7
<1> HIDE DEF Bad
<1>9. j \in Nat \ {0} /\ j \in 1..n /\ \A i \in 1..j : i \in 1..n
  BY <1>1, <1>5, <1>6
<1>10. (\A i \in 1..j : LT(k)[i] \in Seq(Char)) /\ \A i \in 1..j : FT(k)[i] \in Seq(Char)
  BY <1>2, <1>9
<1>11. Len(Pre(LT(k), j)) = Len(Pre(LT(k), j - 1)) + Len(LT(k)[j])
  BY <1>9, <1>10, PreStep
<1>12. Len(Pre(FT(k), j)) = Len(Pre(FT(k), j - 1)) + Len(FT(k)[j])
  BY <1>9, <1>10, PreStep
<1>13. QED
  BY <1>2, <1>5, <1>8, <1>9, <1>11, <1>12

\* Where the parts of what goes out lie.
LEMMA ForwardedAt ==
  ASSUME input \in Inputs, NEW k \in DOMAIN heads, NEW F, F = Forwarded(heads[k]), NEW from, from = From(input, k)
  PROVE  LET n == Len(fields(k))  e == heads[k].end IN
         /\ F \in Seq(Char) /\ Len(F) = Len(HeadText(heads[k]))
         /\ Holds(F, 1, LineText(heads[k]), Len(LineText(heads[k])))
         /\ \A j \in 1..n : Holds(F, 1 + (FieldFrom(input, k, j) - from), FieldText(Low(fields(k)[j])), Len(FieldText(fields(k)[j])))
         /\ Holds(F, 1 + (FieldFrom(input, k, n + 1) - from), e, Len(e))
<1> DEFINE l == LineText(heads[k])  n == Len(fields(k))  e == heads[k].end  b == Pre(LT(k), n)  x == Len(l)  y == Len(b)  z == Len(e)
           c == Pre(FT(k), n)
<1>1. e \in Ends /\ l \in Seq(Char) /\ n \in Nat
  BY InputParts
<1>2. e \in Seq(Char)
  BY <1>1, LineEnds
<1>3. /\ \A j \in 1..n : LT(k)[j] \in Seq(Char) /\ LT(k)[j] = FieldText(Low(fields(k)[j])) /\ Len(LT(k)[j]) = Len(FT(k)[j])
      /\ b \in Seq(Char) /\ F = l \o b \o e
  BY LowTexts
<1>4. /\ \A j \in 1..n : FT(k)[j] = FieldText(fields(k)[j])
      /\ c \in Seq(Char) /\ HeadText(heads[k]) = l \o c \o e
  BY HeadTextType
<1>5. from \in Nat
  BY HeadPlaces
<1>6. \A j \in 0..n : Len(Pre(LT(k), j)) = Len(Pre(FT(k), j))
  BY LowLong
<1>7. \A j \in 1..(n + 1) : FieldFrom(input, k, j) = from + x + Len(Pre(FT(k), j - 1))
  BY FieldFromIs
<1> HIDE DEF l, n, e, b, c
<1>8. x \in Nat /\ y \in Nat /\ z \in Nat
  BY <1>1, <1>2, <1>3
<1>9. /\ F \in Seq(Char) /\ Len(F) = x + y + z
      /\ Holds(F, 1, l, x) /\ Holds(F, 1 + x, b, y) /\ Holds(F, 1 + x + y, e, z)
  BY <1>1, <1>2, <1>3, ThreeParts
<1>10. Len(HeadText(heads[k])) = x + Len(c) + z
  BY <1>1, <1>2, <1>4, ThreeParts
<1>11. y = Len(c)
  <2>1. n \in 0..n
    BY <1>1
  <2>2. QED
    BY <1>6, <2>1 DEF b, c
<1> HIDE DEF x, y, z
<1>12. FieldFrom(input, k, n + 1) - from = x + y
  <2>1. n + 1 \in 1..(n + 1) /\ (n + 1) - 1 = n
    BY <1>1
  <2>2. FieldFrom(input, k, n + 1) = from + x + Len(c)
    BY <1>7, <2>1 DEF c
  <2>3. QED
    BY <1>5, <1>8, <1>11, <2>2
<1>13. ASSUME NEW j \in 1..n PROVE Holds(F, 1 + (FieldFrom(input, k, j) - from), LT(k)[j], Len(LT(k)[j]))
  <2> DEFINE o == Len(Pre(LT(k), j - 1))  m == Len(LT(k)[j])  w == LT(k)[j]
  <2>1. AllIn(LT(k), n, Char)
    BY <1>3 DEF AllIn
  <2>2. PreHas(LT(k), n, j)
    BY <1>1, <2>1, PreHasAt
  <2>3. j \in Nat \ {0} /\ j \in 1..(n + 1) /\ j - 1 \in 0..n /\ \A i \in 1..j : LT(k)[i] \in Seq(Char)
    BY <1>1, <1>3
  <2>4. Len(Pre(LT(k), j)) = o + m /\ o \in Nat /\ m \in Nat
    BY <2>3, PreStep
  <2>5. o + m <= y /\ \A i \in 1..m : b[o + i] = w[i]
    BY <2>2, <2>4 DEF PreHas, y, b
  <2>6. FieldFrom(input, k, j) = from + x + o
    BY <1>6, <1>7, <2>3
  <2> HIDE DEF o, m, w
  <2>7. Holds(b, 1 + o, w, m)
    <3>1. ASSUME NEW i \in 1..m PROVE b[(1 + o) - 1 + i] = w[i]
      <4>1. (1 + o) - 1 + i = o + i
        BY <2>4
      <4>2. QED
        BY <2>5, <4>1
    <3>2. QED
      BY <3>1 DEF Holds
  <2>8. 1 + x \in Nat /\ 1 + x + o = 1 + (FieldFrom(input, k, j) - from)
    BY <1>5, <1>8, <2>4, <2>6
  <2>9. Holds(F, 1 + x + o, w, m)
    BY <1>8, <1>9, <2>4, <2>5, <2>7, <2>8, HoldsCut, Zenon
  <2>10. QED
    BY <2>8, <2>9 DEF w, m
<1>14. \A j \in 1..n : Holds(F, 1 + (FieldFrom(input, k, j) - from), FieldText(Low(fields(k)[j])), Len(FieldText(fields(k)[j])))
  BY <1>3, <1>4, <1>13
<1>15. 1 + x + y = 1 + (x + y)
  BY <1>8
<1>16. QED
  BY <1>9, <1>10, <1>11, <1>12, <1>14, <1>15 DEF l, n, e, x, z

-----------------------------------------------------------------------------
(* A head of the usual form: the buffer and the elements as far as the     *)
(* parsers have come.                                                      *)

\* The buffer holds what goes out for head k, up to position x.
Going(in, t, k, x) == Holds(t, From(in, k), Forwarded(in.heads[k]), x - From(in, k))

\* The elements are those of the first n header lines.
InOrder(in, es, k, n) == Len(es) = n /\ \A i \in 1..n : Fits(in, es[i], k, i)

\* The order of the places in the buffer.
LEMMA FieldBounds ==
  ASSUME input \in Inputs, NEW k \in DOMAIN heads, NEW j \in 1..(Len(fields(k)) + 1)
  PROVE  LET n == Len(fields(k)) IN
         /\ From(input, k) \in Nat /\ From(input, k) >= 1 /\ FieldFrom(input, k, j) \in Nat
         /\ From(input, k) <= FieldFrom(input, k, j) /\ FieldFrom(input, k, 1) <= FieldFrom(input, k, j)
         /\ FieldFrom(input, k, j) <= FieldFrom(input, k, n + 1)
         /\ FieldFrom(input, k, n + 1) + Len(heads[k].end) = From(input, k + 1) /\ FieldFrom(input, k, n + 1) \in Nat
         /\ From(input, k + 1) <= Len(Text(input)) + 1 /\ From(input, k + 1) \in Nat
<1> DEFINE n == Len(fields(k))  from == From(input, k)  l == Len(LineText(heads[k]))  c == Len(Pre(FT(k), j - 1))  d == Len(Pre(FT(k), n))
           F(i) == FieldFrom(input, k, i)  e == Len(heads[k].end)
<1>1. /\ n \in Nat /\ l \in Nat /\ from \in Nat /\ from >= 1 /\ F(n + 1) \in Nat /\ F(n + 1) + e = From(input, k + 1)
      /\ from + l = F(1) /\ e \in {1, 2}
  <2>1. n \in Nat /\ heads[k].end \in Ends
    BY InputParts
  <2>2. QED
    BY <2>1, FieldPlaces, HeadPlaces, LineEnds
<1>2. F(j) = from + l + c
  BY FieldFromIs
<1>3. F(n + 1) = from + l + d
  <2>1. n + 1 \in 1..(n + 1) /\ (n + 1) - 1 = n
    <3> HIDE DEF n
    <3>1. QED
      BY <1>1
  <2>2. F(n + 1) = from + l + Len(Pre(FT(k), (n + 1) - 1))
    BY <2>1, FieldFromIs
  <2>3. QED
    BY <2>1, <2>2
<1>4. AllIn(FT(k), n, Char)
  BY HeadTextType DEF AllIn
<1>5. c \in Nat /\ d \in Nat /\ c <= d
  <2> DEFINE m == j - 1
  <2> HIDE DEF n
  <2>1. m \in Nat /\ m <= n /\ n \in Nat /\ \A i \in 1..m : i \in 1..n
    BY <1>1 DEF n
  <2>2. (\A i \in 1..m : FT(k)[i] \in Seq(Char)) /\ \A i \in 1..n : FT(k)[i] \in Seq(Char)
    BY <1>4, <2>1 DEF AllIn
  <2>3. Pre(FT(k), m) \in Seq(Char) /\ Pre(FT(k), n) \in Seq(Char)
    BY <2>1, <2>2, PreType
  <2>4. Len(Pre(FT(k), m)) <= Len(Pre(FT(k), n))
    <3>1. CASE m = 0
      <4>1. Len(Pre(FT(k), 0)) = 0
        BY PreNone
      <4>2. QED
        BY <2>3, <3>1, <4>1
    <3>2. CASE m # 0
      <4>1. m \in 1..n
        BY <2>1, <3>2
      <4>2. PreHas(FT(k), n, m)
        BY <1>4, <2>1, <4>1, PreHasAt
      <4>3. QED
        BY <4>2 DEF PreHas
    <3>3. QED
      BY <3>1, <3>2
  <2>5. QED
    BY <2>3, <2>4 DEF n
<1>6. From(input, k + 1) <= Len(Text(input)) + 1
  BY HeadPlaces
<1> HIDE DEF n, from, l, c, d, F, e
<1>7. /\ F(j) \in Nat /\ from <= F(j) /\ F(1) <= F(j) /\ F(j) <= F(n + 1) /\ From(input, k + 1) \in Nat
  BY <1>1, <1>2, <1>3, <1>5
<1>8. QED
  BY <1>1, <1>6, <1>7 DEF n, from, F, e

LEMMA FromGrows ==
  ASSUME input \in Inputs, NEW k \in DOMAIN heads, NEW i \in 1..(k - 1)
  PROVE  i \in DOMAIN heads /\ From(input, i) \in Nat /\ From(input, i + 1) \in Nat /\ From(input, i + 1) <= From(input, k)
<1> DEFINE n == Len(heads)  m == k - 1
<1>1. n \in Nat /\ DOMAIN heads = 1..n
  BY InputParts
<1>2. /\ \A j \in 1..(n + 1) : From(input, j) = 1 + Len(Pre(HT, j - 1))
      /\ \A j \in 1..n : HT[j] \in Seq(Char)
  BY FromIs
<1>3. k \in 1..n
  BY <1>1
<1> HIDE DEF n
<1>4. i \in 1..n /\ i \in 1..m /\ m \in Nat /\ i + 1 \in 1..(n + 1) /\ k \in 1..(n + 1) /\ (i + 1) - 1 = i /\ \A j \in 1..m : j \in 1..n
  BY <1>1, <1>3
<1>5. AllIn(HT, m, Char)
  BY <1>2, <1>4 DEF AllIn
<1> HIDE DEF m
<1>6. PreHas(HT, m, i)
  BY <1>4, <1>5, PreHasAt
<1>7. From(input, i + 1) = 1 + Len(Pre(HT, i)) /\ From(input, k) = 1 + Len(Pre(HT, m))
  BY <1>2, <1>4 DEF m
<1>8. Len(Pre(HT, i)) <= Len(Pre(HT, m))
  BY <1>6 DEF PreHas
<1>9. i \in DOMAIN heads
  BY <1>1, <1>4
<1>10. From(input, i) \in Nat /\ From(input, k) \in Nat /\ From(input, i + 1) \in Nat
  BY <1>9, HeadPlaces, FieldBounds
<1>11. Len(Pre(HT, m)) \in Nat /\ Len(Pre(HT, i)) \in Nat
  <2>0. i \in Nat /\ \A j \in 1..i : j \in 1..n
    BY <1>1, <1>4
  <2>1. (\A j \in 1..m : HT[j] \in Seq(Char)) /\ \A j \in 1..i : HT[j] \in Seq(Char)
    BY <1>2, <1>4, <2>0
  <2>2. Pre(HT, m) \in Seq(Char) /\ Pre(HT, i) \in Seq(Char)
    BY <1>4, <2>0, <2>1, PreType
  <2>3. QED
    BY <2>2
<1>12. QED
  BY <1>7, <1>8, <1>9, <1>10, <1>11

\* The first line is not changed.
LEMMA FirstGoing ==
  ASSUME input \in Inputs, NEW k \in DOMAIN heads, NEW t \in Seq(Char), Len(t) = Len(Text(input)), SameFrom(t, Text(input), From(input, k))
  PROVE  Going(input, t, k, FieldFrom(input, k, 1))
<1> DEFINE from == From(input, k)  l == LineText(heads[k])  m == Len(l)  T == Text(input)  F == Forwarded(heads[k])  u == Len(t)
<1>1. from \in Nat /\ from >= 1 /\ m \in Nat /\ from + m = FieldFrom(input, k, 1) /\ \A i \in 1..m : T[from - 1 + i] = l[i]
  BY HeadPlaces, FieldPlaces
<1>2. Holds(F, 1, l, m)
  BY ForwardedAt
<1>3. from + m <= u + 1 /\ u \in Nat
  <2>1. Len(fields(k)) \in Nat
    BY InputParts
  <2> DEFINE n == Len(fields(k))  a == FieldFrom(input, k, 1)  b == FieldFrom(input, k, n + 1)  e == Len(heads[k].end)  c == From(input, k + 1)
  <2>2. 1 \in 1..(n + 1)
    <3> HIDE DEF n
    <3>1. QED
      BY <2>1 DEF n
  <2>3. a \in Nat /\ a <= b /\ b \in Nat /\ b + e = c /\ c <= u + 1 /\ c \in Nat
    BY <2>2, FieldBounds
  <2>4. e \in {1, 2} /\ u \in Nat
    BY InputParts, LineEnds
  <2> HIDE DEF n, a, b, c, e, u
  <2>5. a <= u + 1
    BY <2>3, <2>4
  <2>6. QED
    BY <1>1, <2>4, <2>5 DEF a
<1>4. \A x \in from..u : t[x] = T[x]
  BY DEF SameFrom
<1> HIDE DEF from, l, m, T, F, u
<1>5. ASSUME NEW i \in 1..m PROVE t[from - 1 + i] = F[i]
  <2>1. from - 1 + i \in from..u /\ 1 - 1 + i = i
    BY <1>1, <1>3
  <2>2. F[1 - 1 + i] = l[i]
    BY <1>2 DEF Holds
  <2>3. QED
    BY <1>1, <1>4, <2>1, <2>2
<1>6. FieldFrom(input, k, 1) - from = m
  BY <1>1
<1>7. QED
  BY <1>5, <1>6 DEF Going, Holds, from, F, heads

\* A header line that is no Host line is put in lower case as far as its name
\* goes, and nothing before it is changed.
LEMMA LineLowered ==
  ASSUME text \in Seq(Char), NEW f \in FieldParts, ~IsHost(f.name), NEW T, NEW from \in Nat, from >= 1,
         SameFrom(text, T, from), Holds(T, from, FieldText(f), Len(FieldText(f))),
         NEW u \in Nat, u = Len(FieldText(f)), from + u - 1 <= Len(text), NEW q, Key(q) = Piece(from, Len(f.name))
  PROVE  /\ Holds(TextAfter(q), from, FieldText(Low(f)), u)
         /\ \A x \in 1..(from - 1) : TextAfter(q)[x] = text[x]
<1> DEFINE n == Len(f.name)  t == FieldText(f)  w == FieldText(Low(f))  s == Piece(from, n)  z == Len(text)
<1>1. /\ n \in Nat /\ n <= u /\ f.name \in Seq(Char)
      /\ (\A i \in 1..n : w[i] = tolower[t[i]]) /\ \A i \in (n + 1)..u : w[i] = t[i]
  BY LowText, FieldTextAt
<1>2. \A i \in 1..n : t[i] = f.name[i]
  BY FieldTextAt
<1>3. s.from = from /\ s.len = n /\ z \in Nat /\ DOMAIN text = 1..z
  BY DEF Piece
<1>4. Chars(text, s) = f.name
  <2>1. n = Len(f.name) /\ t = FieldText(f)
    OBVIOUS
  <2> HIDE DEF n, t, s, z
  <2>2. \A i \in 1..n : t[0 + i] = f.name[i]
    BY <1>1, <1>2
  <2>3. 0 + n <= u /\ from + 0 + n - 1 <= z /\ 0 \in Nat /\ from + 0 = from
    BY <1>1, <1>3 DEF z
  <2>4. HasPart(t, 0, f.name, u) /\ Reaches(text, from, 0, f.name)
    BY <2>1, <2>2, <2>3 DEF HasPart, Reaches, z
  <2>5. Holds(T, from, t, u)
    BY <2>1
  <2>6. CutOut(text, from, 0, f.name)
    BY <1>1, <2>3, <2>4, <2>5, PartCopied
  <2>7. SubSeq(text, from, from + n - 1) = f.name
    BY <2>1, <2>3, <2>6 DEF CutOut
  <2>8. QED
    BY <1>3, <2>7 DEF Chars
<1>5. TextAfter(q) = lowcase_key_copy_from_origin(text, s)
  BY <1>4 DEF TextAfter
<1>6. \A x \in 1..z : TextAfter(q)[x] = IF x \in from..(from + n - 1) THEN tolower[text[x]] ELSE text[x]
  BY <1>3, <1>5 DEF lowcase_key_copy_from_origin
<1>7. \A x \in from..z : text[x] = T[x]
  BY DEF SameFrom
<1>8. \A i \in 1..u : T[from - 1 + i] = t[i]
  BY DEF Holds
<1>9. from + u - 1 <= z
  OBVIOUS
<1>10. u \in Nat
  OBVIOUS
<1> HIDE DEF n, t, w, s, z
<1>11. ASSUME NEW i \in 1..u PROVE TextAfter(q)[from - 1 + i] = w[i]
  <2> DEFINE x == from - 1 + i
  <2>1. x \in 1..z /\ x \in from..z /\ (x \in from..(from + n - 1) <=> i \in 1..n) /\ (i \in 1..n \/ i \in (n + 1)..u)
    BY <1>1, <1>3, <1>9, SMTT(30)
  <2>2. text[x] = t[i]
    BY <1>7, <1>8, <2>1
  <2> HIDE DEF x
  <2>3. TextAfter(q)[x] = w[i]
    BY <1>1, <1>6, <2>1, <2>2
  <2>4. QED
    BY <2>3 DEF x
<1>12. ASSUME NEW x \in 1..(from - 1) PROVE TextAfter(q)[x] = text[x]
  <2>1. CASE x \in 1..z
    <3>1. x \notin from..(from + n - 1)
      BY <1>1
    <3>2. QED
      BY <1>6, <2>1, <3>1
  <2>2. CASE x \notin 1..z
    <3>1. from = z + 1 /\ u = 0
      BY <1>3, <1>9, <2>2
    <3>2. FALSE
      <4>1. u = n + Len(f.sep) + Len(f.value) + Len(f.pad) + Len(f.eol) /\ Len(f.eol) \in {1, 2} /\ Len(f.sep) \in Nat /\ Len(f.value) \in Nat /\ Len(f.pad) \in Nat
        BY FieldTextAt DEF n
      <4> DEFINE n1 == Len(f.sep)  n2 == Len(f.value)  n3 == Len(f.pad)  n4 == Len(f.eol)
      <4> HIDE DEF n1, n2, n3, n4
      <4>2. u = n + n1 + n2 + n3 + n4 /\ n4 \in {1, 2} /\ n1 \in Nat /\ n2 \in Nat /\ n3 \in Nat /\ n \in Nat
        BY <1>1, <4>1 DEF n1, n2, n3, n4
      <4>3. u # 0
        BY <4>2
      <4>4. QED
        BY <3>1, <4>3
    <3>3. QED
      BY <3>2
  <2>3. QED
    BY <2>1, <2>2
<1>13. QED
  BY <1>11, <1>12 DEF Holds, w

\* A head of the usual form, the parser in it.
ExactSeen(in, t, q, x, m, es, k) ==
  /\ m \in {"request_line", "status_line"} => SameFrom(t, Text(in), From(in, k))
  /\ m = "headers" => \E j \in 1..(Len(in.heads[k].fields) + 1) :
       /\ FieldPlace(in, q, x, k, j) /\ InOrder(in, es, k, j - 1)
       /\ Going(in, t, k, FieldFrom(in, k, j)) /\ SameFrom(t, Text(in), FieldFrom(in, k, j))
  /\ m = "send" => Going(in, t, k, From(in, k + 1)) /\ InOrder(in, es, k, Len(in.heads[k].fields))

\* The buffer holds what went out for the heads of the usual form, and what is
\* going out for the one the parser stands in.
SentGoing == \A i \in DOMAIN sent : Exact(heads[i]) => Going(input, text, i, From(input, i + 1))
TextInv ==
  /\ SentGoing
  /\ Cur \in DOMAIN heads /\ Exact(heads[Cur]) => ExactSeen(input, text, r, p, mode, elements, Cur)

LEMMA TextKept ==
  ASSUME TextInv, UNCHANGED <<input, text, sent>>,
         Cur \in DOMAIN heads /\ Exact(heads[Cur]) => ExactSeen(input, text, r', p', mode', elements', Cur)
  PROVE  TextInv'
<1>1. Cur' = Cur /\ heads' = heads
  BY DEF Cur, heads
<1>2. SentGoing'
  BY <1>1 DEF TextInv, SentGoing
<1>3. QED
  BY <1>1, <1>2 DEF TextInv

LEMMA TextInit == Init => TextInv
<1> SUFFICES ASSUME Init PROVE TextInv
  OBVIOUS
<1>1. sent = <<>> /\ text = Text(input) /\ mode \in {"request_line", "status_line"}
  BY DEF Init
<1>2. SentGoing
  <2>1. DOMAIN sent = {}
    BY <1>1
  <2>2. QED
    BY <2>1 DEF SentGoing
<1>3. ExactSeen(input, text, r, p, mode, elements, Cur)
  BY <1>1 DEF ExactSeen, SameFrom
<1>4. QED
  BY <1>2, <1>3 DEF TextInv

\* The first line is complete.
LEMMA LineDoneHere ==
  ASSUME HeadInv, AgreeInv, request_line_done \/ status_line_done, NEW k, k = Cur
  PROVE  k \in DOMAIN heads /\ r'.state = "start" /\ p' = FieldFrom(input, k, 1)
<1>1. mode \in {"request_line", "status_line"} /\ More /\ p' = p + 1
  BY DEF request_line_done, status_line_done
<1>2. r \in RequestT /\ p \in Nat /\ ch \in Char /\ r.state \in State
  BY <1>1, Reading DEF HeadInv, Types
<1>3. ch = LF /\ r'.state = "start"
  <2>1. CASE request_line_done
    <3> DEFINE to == RequestLineMove[r.state][ch]
    <3>1. to = "done" /\ r' \in {RequestLineDone, http_request_line_parsed(RequestLineDone)}
      BY <2>1 DEF request_line_done
    <3>2. ch = LF
      BY <1>2, <3>1, RequestTarget
    <3>3. QED
      BY <1>2, <3>1, <3>2, RequestLineDoneType
  <2>2. CASE status_line_done
    <3> DEFINE w == StatusLineChar("start")  e == IF w.status_end = NULL THEN p ELSE w.status_end
    <3>1. StatusLineTo = "done" /\ r' = [w EXCEPT !.status_end = e]
      BY <2>2 DEF status_line_done
    <3>2. ch = LF
      BY <1>2, <3>1, StatusTo
    <3>3. w \in RequestT /\ w.state = "start"
      BY <1>2, StatusLineCharType, StatusLineCharFields, HeaderStates
    <3> HIDE DEF w, e
    <3>4. r'.state = "start"
      BY <3>1, <3>3 DEF RequestT
    <3>5. QED
      BY <3>2, <3>4
  <2>3. QED
    BY <2>1, <2>2
<1> DEFINE l == Len(LineText(heads[k]))  b == From(input, k)
<1>4. /\ k \in DOMAIN heads /\ l \in Nat /\ b \in Nat /\ (ch = LF <=> p = b + l - 1)
      /\ FieldFrom(input, k, 1) = b + l
  BY <1>1, FirstLine
<1> HIDE DEF l, b
<1>5. p' = b + l
  BY <1>1, <1>2, <1>3, <1>4
<1>6. QED
  BY <1>3, <1>4, <1>5

LEMMA FirstLineText ==
  ASSUME HeadInv, AgreeInv, TextInv, request_line_char \/ request_line_done \/ status_line_char \/ status_line_done
  PROVE  TextInv'
<1>1. mode \in {"request_line", "status_line"} /\ UNCHANGED <<input, text, sent>>
  BY DEF request_line_char, request_line_done, status_line_char, status_line_done
<1>2. PICK k : k = Cur
  OBVIOUS
<1>3. ASSUME k \in DOMAIN heads, Exact(heads[k]) PROVE ExactSeen(input, text, r', p', mode', elements', k)
  <2>1. SameFrom(text, Text(input), From(input, k))
    BY <1>1, <1>2, <1>3 DEF TextInv, ExactSeen
  <2>2. CASE request_line_char \/ status_line_char
    <3>1. mode' = mode
      BY <2>2 DEF request_line_char, status_line_char
    <3>2. QED
      BY <1>1, <2>1, <3>1 DEF ExactSeen
  <2>3. CASE request_line_done \/ status_line_done
    <3>1. mode' \in {"idle", "headers"} /\ elements' = <<>>
      BY <2>3 DEF request_line_done, status_line_done
    <3>2. r'.state = "start" /\ p' = FieldFrom(input, k, 1)
      BY <1>2, <2>3, LineDoneHere
    <3>3. input \in Inputs /\ text \in Seq(Char) /\ Len(text) = Len(Text(input))
      BY DEF HeadInv, Types
    <3>4. Going(input, text, k, FieldFrom(input, k, 1))
      BY <1>3, <2>1, <3>3, FirstGoing
    <3>5. 1 \in 1..(Len(fields(k)) + 1)
      <4>1. Len(fields(k)) \in Nat
        BY <1>3, <3>3, InputParts
      <4>2. QED
        BY <4>1
    <3>6. FieldPlace(input, r', p', k, 1)
      BY <3>2 DEF FieldPlace
    <3>7. InOrder(input, elements', k, 1 - 1)
      <4>1. Len(<<>>) = 0 /\ 1 - 1 = 0 /\ 1..0 = {}
        OBVIOUS
      <4>2. QED
        BY <3>1, <4>1 DEF InOrder
    <3>8. SameFrom(text, Text(input), FieldFrom(input, k, 1))
      <4> DEFINE a == From(input, k)  b == FieldFrom(input, k, 1)  n == Len(text)
      <4>1. a \in Nat /\ b \in Nat /\ a <= b /\ n \in Nat
        BY <1>3, <3>3, <3>5, FieldBounds
      <4> HIDE DEF a, b, n
      <4>2. \A x \in b..n : x \in a..n
        BY <4>1
      <4>3. QED
        BY <2>1, <4>2 DEF SameFrom, a, b, n
    <3>9. QED
      BY <3>1, <3>4, <3>5, <3>6, <3>7, <3>8 DEF ExactSeen, fields, heads
  <2>4. QED
    BY <2>2, <2>3
<1>4. QED
  BY <1>1, <1>2, <1>3, TextKept

LEMMA HeaderCharText ==
  ASSUME HeadInv, AgreeInv, TextInv, header_line_char
  PROVE  TextInv'
<1>1. /\ mode = "headers" /\ More /\ HeaderLineTo \notin {"done", "header_done", "invalid"}
      /\ r' = HeaderLineChar(HeaderLineTo) /\ p' = p + 1
      /\ UNCHANGED <<input, text, mode, elements, sent>>
  BY DEF header_line_char
<1>2. Types /\ Pointers /\ Untouched /\ input \in Inputs
  BY DEF HeadInv, AgreeInv, Types
<1>3. ch = Text(input)[p]
  BY <1>1, <1>2, CharHere
<1>4. PICK k : k = Cur
  OBVIOUS
<1>5. ASSUME k \in DOMAIN heads, Exact(heads[k]) PROVE ExactSeen(input, text, r', p', mode', elements', k)
  <2>1. PICK j \in 1..(Len(fields(k)) + 1) :
          /\ FieldPlace(input, r, p, k, j) /\ InOrder(input, elements, k, j - 1)
          /\ Going(input, text, k, FieldFrom(input, k, j)) /\ SameFrom(text, Text(input), FieldFrom(input, k, j))
    BY <1>1, <1>4, <1>5 DEF TextInv, ExactSeen, fields, heads
  <2>2. \/ FieldPlace(input, r', p', k, j)
        \/ j <= Len(fields(k)) /\ ~ValidName(fields(k)[j].name) /\ FieldPlace(input, r', p', k, j + 1)
    BY <1>1, <1>2, <1>3, <1>5, <2>1, FieldStep
  <2>3. j <= Len(fields(k)) => ValidName(fields(k)[j].name)
    <3>1. Len(fields(k)) \in Nat /\ DOMAIN fields(k) = 1..Len(fields(k))
      BY <1>2, <1>5, InputParts
    <3>2. j <= Len(fields(k)) => j \in DOMAIN fields(k)
      BY <3>1
    <3>3. QED
      BY <1>5, <3>2 DEF Exact, fields
  <2>4. FieldPlace(input, r', p', k, j)
    BY <2>2, <2>3
  <2>5. QED
    BY <1>1, <2>1, <2>4 DEF ExactSeen, fields, heads
<1>6. QED
  BY <1>1, <1>4, <1>5, TextKept

\* What lies before the line is not changed.
SameUpto(x, t, b) == \A i \in 1..(b - 1) : x[i] = t[i]

LEMMA LowcaseBehind ==
  ASSUME NEW t, NEW a \in Int, NEW b \in Int, NEW x \in DOMAIN t, x \in Int, x < a
  PROVE  lowcase_key_copy_from_origin(t, Span(a, b))[x] = t[x] /\ DOMAIN lowcase_key_copy_from_origin(t, Span(a, b)) = DOMAIN t
<1> DEFINE s == Span(a, b)
<1>1. s.from = a /\ s.len = b - a
  BY DEF Span
<1> HIDE DEF s
<1>2. x \notin s.from..(s.from + s.len - 1)
  BY <1>1
<1>3. lowcase_key_copy_from_origin(t, s)[x] = t[x] /\ DOMAIN lowcase_key_copy_from_origin(t, s) = DOMAIN t
  BY <1>2 DEF lowcase_key_copy_from_origin
<1>4. QED
  BY <1>3 DEF s

LEMMA TextBefore ==
  ASSUME text \in Seq(Char), NEW q \in RequestT, q.header_name_start <= q.header_start, q.header_name_start <= Len(text)
  PROVE  SameUpto(TextAfter(q), text, q.header_name_start)
<1> DEFINE t == lowcase_key_copy_from_origin(text, Key(q))  a == q.header_name_start  b == q.header_name_end
           c == q.header_start  d == q.header_end  n == Len(text)
<1>1. a \in Int /\ b \in Int /\ c \in Int /\ d \in Int /\ n \in Nat /\ DOMAIN text = 1..n /\ a <= c /\ a <= n
  BY DEF RequestT
<1>2. TextAfter(q) = IF IsHost(Chars(text, Key(q))) /\ Host(q).ok THEN lowcase_key_copy_from_origin(t, Val(q)) ELSE t
  BY DEF TextAfter
<1>3. Key(q) = Span(a, b) /\ Val(q) = Span(c, d)
  BY DEF Key, Val
<1> HIDE DEF a, b, c, d, n
<1>4. ASSUME NEW x \in 1..(a - 1) PROVE TextAfter(q)[x] = text[x]
  <2>1. x \in DOMAIN text /\ x \in Int /\ x < a /\ x < c
    BY <1>1
  <2>2. t[x] = text[x] /\ DOMAIN t = DOMAIN text
    <3>1. lowcase_key_copy_from_origin(text, Span(a, b))[x] = text[x] /\ DOMAIN lowcase_key_copy_from_origin(text, Span(a, b)) = DOMAIN text
      BY <1>1, <2>1, LowcaseBehind, Zenon
    <3>2. QED
      BY <1>3, <3>1, Zenon
  <2> HIDE DEF t
  <2>3. lowcase_key_copy_from_origin(t, Val(q))[x] = t[x]
    <3>1. x \in DOMAIN t
      BY <2>1, <2>2
    <3>2. lowcase_key_copy_from_origin(t, Span(c, d))[x] = t[x]
      BY <1>1, <2>1, <3>1, LowcaseBehind, Zenon
    <3>3. QED
      BY <1>3, <3>2, Zenon
  <2>4. QED
    BY <1>2, <2>2, <2>3
<1>5. QED
  BY <1>4 DEF SameUpto, a

LEMMA GoingKept ==
  ASSUME NEW in, NEW i, From(in, i) \in Nat, From(in, i) >= 1, NEW x \in Nat, NEW b \in Nat, x <= b, NEW t, NEW u,
         SameUpto(u, t, b), Going(in, t, i, x)
  PROVE  Going(in, u, i, x)
<1> DEFINE a == From(in, i)  F == Forwarded(in.heads[i])
<1>1. \A y \in 1..(x - a) : t[a - 1 + y] = F[y]
  BY DEF Going, Holds
<1>2. \A y \in 1..(b - 1) : u[y] = t[y]
  BY DEF SameUpto
<1>3. a \in Nat /\ a >= 1
  OBVIOUS
<1> HIDE DEF a, F
<1>4. ASSUME NEW y \in 1..(x - a) PROVE u[a - 1 + y] = F[y]
  <2>1. a - 1 + y \in 1..(b - 1)
    BY <1>3
  <2>2. QED
    BY <1>1, <1>2, <2>1
<1>5. QED
  BY <1>4 DEF Going, Holds, a, F

LEMMA GoingOn ==
  ASSUME input \in Inputs, NEW k \in DOMAIN heads, NEW t, NEW x \in Nat, From(input, k) <= x, NEW m \in Nat, NEW w,
         Going(input, t, k, x), Holds(Forwarded(heads[k]), 1 + (x - From(input, k)), w, m), Holds(t, x, w, m)
  PROVE  Going(input, t, k, x + m)
<1> DEFINE a == From(input, k)  F == Forwarded(heads[k])  u == x - a
<1>1. a \in Nat
  BY HeadPlaces
<1>2. Holds(t, a, F, u) /\ Holds(F, 1 + u, w, m)
  BY DEF Going, heads
<1> HIDE DEF a, F
<1>3. u \in Nat /\ a + u = x /\ (x + m) - a = u + m
  BY <1>1 DEF a
<1> HIDE DEF u
<1>4. Holds(t, a, F, u + m)
  BY <1>1, <1>2, <1>3, HoldsJoin
<1>5. QED
  BY <1>3, <1>4 DEF Going, a, F, heads

LEMMA InOrderNext ==
  ASSUME NEW k, NEW n \in Nat, NEW es \in Seq(AnElement), NEW e \in AnElement, InOrder(input, es, k, n), Fits(input, e, k, n + 1)
  PROVE  InOrder(input, Append(es, e), k, n + 1)
<1> DEFINE F(x, j) == Fits(input, x, k, j)
<1>1. Len(es) = n /\ (\A i \in 1..n : F(es[i], i)) /\ F(e, n + 1)
  BY DEF InOrder
<1> HIDE DEF F
<1>2. Len(Append(es, e)) = n + 1 /\ Append(es, e)[n + 1] = e /\ \A i \in 1..n : Append(es, e)[i] = es[i]
  BY <1>1
<1>3. ASSUME NEW i \in 1..(n + 1) PROVE F(Append(es, e)[i], i)
  <2>1. CASE i = n + 1
    BY <1>1, <1>2, <2>1
  <2>2. CASE i # n + 1
    <3>1. i \in 1..n
      BY <2>2
    <3>2. QED
      BY <1>1, <1>2, <3>1
  <2>3. QED
    BY <2>1, <2>2
<1>4. QED
  BY <1>2, <1>3 DEF InOrder, F

\* A line of a head of the usual form is complete.
LEMMA ExactLineDone ==
  ASSUME HeadInv, HeadInv', AgreeInv, AgreeInv', header_line_done, NEW k \in DOMAIN heads, k = Cur, Exact(heads[k]),
         ExactSeen(input, text, r, p, mode, elements, k)
  PROVE  ExactSeen(input, text', r', p', mode', elements', k)
<1>0. PICK q : q = HeaderLineChar("start")
  OBVIOUS
<1>1. /\ mode = "headers" /\ More /\ HeaderLineTo = "done" /\ p' = p + 1 /\ r' = q
      /\ UNCHANGED <<input, mode, sent>>
      /\ \/ q.invalid_header /\ UNCHANGED <<text, elements>>
         \/ ~q.invalid_header /\ text' = TextAfter(q) /\ elements' = Append(elements, Element(q))
  BY <1>0 DEF header_line_done
<1>2. Types /\ Pointers /\ Untouched /\ input \in Inputs /\ elements \in Seq(AnElement) /\ text \in Seq(Char)
  BY DEF HeadInv, AgreeInv, Types
<1>3. PICK j \in 1..(Len(fields(k)) + 1) :
        /\ FieldPlace(input, r, p, k, j) /\ InOrder(input, elements, k, j - 1)
        /\ Going(input, text, k, FieldFrom(input, k, j)) /\ SameFrom(text, Text(input), FieldFrom(input, k, j))
  BY <1>1 DEF ExactSeen, fields, heads
<1>4. PICK f, from : f = fields(k)[j] /\ from = FieldFrom(input, k, j)
  OBVIOUS
<1>5. Len(fields(k)) \in Nat /\ DOMAIN fields(k) = 1..Len(fields(k))
  BY <1>2, InputParts
<1>6. /\ j <= Len(fields(k)) /\ p + 1 = FieldFrom(input, k, j + 1)
      /\ \/ q.invalid_header /\ ~ValidName(f.name)
         \/ ~q.invalid_header /\ ValidName(f.name) /\ Element(q) \in AnElement /\ Fits(input, Element(q), k, j)
  BY <1>0, <1>1, <1>2, <1>3, <1>4, FieldEnds
<1>7. j \in 1..Len(fields(k)) /\ j \in Nat /\ j - 1 \in Nat /\ (j - 1) + 1 = j /\ (j + 1) - 1 = j /\ j + 1 \in 1..(Len(fields(k)) + 1)
  BY <1>5, <1>6
<1>8. ValidName(f.name) /\ ~IsHost(f.name)
  BY <1>4, <1>5, <1>7 DEF Exact, fields
<1>9. text' = TextAfter(q) /\ elements' = Append(elements, Element(q)) /\ Element(q) \in AnElement /\ Fits(input, Element(q), k, j)
  BY <1>1, <1>6, <1>8
<1>10. InOrder(input, elements', k, j)
  <2>1. PICK e, i : e = Element(q) /\ i = j - 1
    OBVIOUS
  <2>2. i \in Nat /\ e \in AnElement /\ InOrder(input, elements, k, i) /\ Fits(input, e, k, i + 1)
    BY <1>3, <1>7, <1>9, <2>1
  <2>3. InOrder(input, Append(elements, e), k, i + 1)
    BY <1>2, <2>2, InOrderNext
  <2>4. QED
    BY <1>7, <1>9, <2>1, <2>3
<1>11. Key(q) = Piece(from, Len(f.name))
  <2>1. Element(q).key = Key(q)
    BY Zenon DEF Element
  <2>2. Element(q).key = Piece(from, Len(f.name))
    BY <1>4, <1>9 DEF Fits, Expected, fields, heads
  <2>3. QED
    BY <2>1, <2>2
<1> DEFINE u == Len(FieldText(f))  b == From(input, k)  next == FieldFrom(input, k, j + 1)  z == Len(text)
<1>12. /\ from \in Nat /\ from >= 1 /\ f \in FieldParts /\ u \in Nat /\ next = from + u /\ Holds(Text(input), from, FieldText(f), u)
       /\ b \in Nat /\ b >= 1 /\ b <= from
  <2>1. /\ from \in Nat /\ from >= 1 /\ f \in FieldParts /\ u \in Nat /\ next = from + u
    BY <1>2, <1>4, <1>7, FieldHere
  <2>2. \A i \in 1..u : Text(input)[from - 1 + i] = FieldText(f)[i]
    BY <1>2, <1>4, <1>7, FieldPlaces
  <2>3. b \in Nat /\ b >= 1 /\ b <= from
    BY <1>2, <1>4, FieldBounds
  <2>4. QED
    BY <2>1, <2>2, <2>3 DEF Holds
<1>13. next <= z + 1 /\ z \in Nat
  <2>1. p \in 1..z /\ z \in Nat
    BY <1>1, <1>2, Reading
  <2>2. next = p + 1
    BY <1>6
  <2> HIDE DEF next, z
  <2>3. QED
    BY <2>1, <2>2
<1>14. from + u - 1 <= z
  <2> HIDE DEF u, next, z
  <2>1. QED
    BY <1>12, <1>13
<1>15. Holds(text', from, FieldText(Low(f)), u) /\ SameUpto(text', text, from)
  <2>1. /\ Holds(TextAfter(q), from, FieldText(Low(f)), u)
        /\ \A x \in 1..(from - 1) : TextAfter(q)[x] = text[x]
    <3>1. SameFrom(text, Text(input), from)
      BY <1>3, <1>4
    <3>2. QED
      BY <1>2, <1>8, <1>11, <1>12, <1>14, <3>1, LineLowered
  <2>2. QED
    BY <1>9, <2>1 DEF SameUpto
<1>16. Going(input, text', k, next)
  <2>1. from <= from
    BY <1>12
  <2>2. Going(input, text', k, from)
    BY <1>3, <1>4, <1>12, <1>15, <2>1, GoingKept
  <2>3. Holds(Forwarded(heads[k]), 1 + (from - b), FieldText(Low(f)), u)
    BY <1>2, <1>4, <1>7, ForwardedAt
  <2>4. Going(input, text', k, from + u)
    BY <1>2, <1>12, <1>15, <2>2, <2>3, GoingOn
  <2>5. QED
    BY <1>12, <2>4
<1>17. FieldPlace(input, r', p', k, j + 1)
  <2>1. r'.state = "start"
    BY <1>0, <1>1, <1>2, LineDone
  <2>2. QED
    BY <1>1, <1>6, <2>1 DEF FieldPlace
<1>18. SameFrom(text', Text(input), next)
  <2>1. LineStart' = next
    BY <1>0, <1>1, <1>2, <1>6, LineDone DEF LineStart, InLine
  <2>2. Untouched'
    BY DEF AgreeInv
  <2>3. QED
    BY <1>1, <2>1, <2>2 DEF Untouched, SameFrom
<1> HIDE DEF u, b, next, z
<1> DEFINE m == j + 1
<1>19. m \in 1..(Len(fields(k)) + 1) /\ FieldPlace(input, r', p', k, m) /\ InOrder(input, elements', k, m - 1)
       /\ Going(input, text', k, FieldFrom(input, k, m)) /\ SameFrom(text', Text(input), FieldFrom(input, k, m))
  BY <1>7, <1>10, <1>16, <1>17, <1>18 DEF next
<1> HIDE DEF m
<1>20. QED
  BY <1>1, <1>19 DEF ExactSeen, fields, heads

LEMMA HeaderDoneText ==
  ASSUME HeadInv, HeadInv', AgreeInv, AgreeInv', TextInv, header_line_done
  PROVE  TextInv'
<1>0. PICK q : q = HeaderLineChar("start")
  OBVIOUS
<1>1. /\ mode = "headers" /\ More /\ HeaderLineTo = "done" /\ UNCHANGED <<input, sent>>
      /\ text' = text \/ text' = TextAfter(q)
  BY <1>0 DEF header_line_done
<1>2. Types /\ Pointers /\ Place /\ SentFit /\ input \in Inputs /\ text \in Seq(Char)
  BY DEF HeadInv, AgreeInv, Types
<1>3. PICK k : k = Cur
  OBVIOUS
<1>4. k \in DOMAIN heads /\ \E j \in 1..(Len(fields(k)) + 1) : FieldPlace(input, r, p, k, j)
  BY <1>1, <1>2, <1>3 DEF Place
<1>5. PICK j \in 1..(Len(fields(k)) + 1) : FieldPlace(input, r, p, k, j)
  BY <1>4
<1>6. PICK f, from : f = fields(k)[j] /\ from = FieldFrom(input, k, j)
  OBVIOUS
<1>7. /\ r.state \in InLine /\ q \in RequestT /\ q.header_name_start = r.header_name_start
      /\ q.header_name_start < q.header_name_end
      /\ q.header_name_end <= q.header_start /\ q.header_start <= q.header_end /\ q.header_end <= p
  BY <1>0, <1>1, <1>2, LineDone
<1>8. q.header_name_start = from
  <2>1. r.state \notin {"start", "header_almost_done"}
    BY <1>7 DEF InLine
  <2>2. QED
    BY <1>5, <1>6, <1>7, <2>1, FieldPlaceIs
<1>9. From(input, k) \in Nat /\ from \in Nat /\ From(input, k) <= from
  BY <1>2, <1>4, <1>6, FieldBounds
<1>10. SameUpto(text', text, from)
  <2>1. CASE text' = text
    BY <2>1 DEF SameUpto
  <2>2. CASE text' = TextAfter(q)
    <3> DEFINE z == Len(text)  a == q.header_name_start  b == q.header_name_end  c == q.header_start  d == q.header_end
    <3>1. p \in 1..z /\ z \in Nat
      BY <1>1, <1>2, Reading
    <3>2. a \in Int /\ b \in Int /\ c \in Int /\ d \in Int
      BY <1>7 DEF RequestT
    <3> HIDE DEF z, a, b, c, d
    <3>3. a < b /\ b <= c /\ c <= d /\ d <= p
      BY <1>7 DEF a, b, c, d
    <3>4. a <= c /\ a <= z
      BY <3>1, <3>2, <3>3
    <3>5. SameUpto(TextAfter(q), text, a)
      BY <1>2, <1>7, <3>4, TextBefore DEF a, c, z
    <3>6. QED
      BY <1>8, <2>2, <3>5 DEF a
  <2>3. QED
    BY <1>1, <2>1, <2>2
<1>11. Cur' = k /\ heads' = heads
  BY <1>1, <1>3 DEF Cur, heads
<1>12. SentGoing'
  <2>1. ASSUME NEW i \in DOMAIN sent, Exact(heads[i]) PROVE Going(input, text', i, From(input, i + 1))
    <3>1. i \in 1..(k - 1)
      <4>1. sent \in Seq([chain : Pieces, elements : Seq(AnElement)])
        BY DEF AgreeInv
      <4>2. Len(sent) \in Nat /\ DOMAIN sent = 1..Len(sent)
        BY <4>1
      <4>3. QED
        BY <1>3, <4>2 DEF Cur
    <3>2. i \in DOMAIN heads /\ From(input, i) \in Nat /\ From(input, i + 1) \in Nat /\ From(input, i + 1) <= From(input, k)
      BY <1>2, <1>4, <3>1, FromGrows
    <3>3. From(input, i) >= 1
      BY <1>2, <3>2, HeadPlaces
    <3>4. From(input, i + 1) <= from
      BY <1>9, <3>2
    <3>5. Going(input, text, i, From(input, i + 1))
      BY <2>1 DEF TextInv, SentGoing
    <3>6. QED
      BY <1>9, <1>10, <3>2, <3>3, <3>4, <3>5, GoingKept
  <2>2. QED
    BY <1>1, <1>11, <2>1 DEF SentGoing
<1>13. ASSUME Exact(heads[k]) PROVE ExactSeen(input, text', r', p', mode', elements', k)
  BY <1>3, <1>4, <1>13, ExactLineDone DEF TextInv
<1>14. QED
  BY <1>1, <1>11, <1>12, <1>13 DEF TextInv

LEMMA HeadersDoneText ==
  ASSUME HeadInv, AgreeInv, TextInv, headers_done
  PROVE  TextInv'
<1>1. /\ mode = "headers" /\ More /\ HeaderLineTo = "header_done" /\ p' = p + 1 /\ mode' \in {"send", "crashed"}
      /\ UNCHANGED <<input, text, elements, sent>>
  BY DEF headers_done
<1>2. Types /\ Untouched /\ input \in Inputs /\ text \in Seq(Char) /\ Len(text) = Len(Text(input))
  BY DEF HeadInv, AgreeInv, Types
<1>3. PICK k : k = Cur
  OBVIOUS
<1>4. ASSUME k \in DOMAIN heads, Exact(heads[k]) PROVE ExactSeen(input, text, r', p', mode', elements', k)
  <2>1. PICK j \in 1..(Len(fields(k)) + 1) :
          /\ FieldPlace(input, r, p, k, j) /\ InOrder(input, elements, k, j - 1)
          /\ Going(input, text, k, FieldFrom(input, k, j)) /\ SameFrom(text, Text(input), FieldFrom(input, k, j))
    BY <1>1, <1>3, <1>4 DEF TextInv, ExactSeen, fields, heads
  <2>2. j = Len(fields(k)) + 1
    BY <1>1, <1>2, <1>4, <2>1, HeadEnds
  <2>3. PICK n : n = Len(fields(k))
    OBVIOUS
  <2>4. n \in Nat /\ j = n + 1 /\ j - 1 = n
    <3>1. n \in Nat
      BY <1>2, <1>4, <2>3, InputParts
    <3>2. QED
      BY <2>2, <2>3, <3>1
  <2> DEFINE b == From(input, k)  from == FieldFrom(input, k, n + 1)  next == From(input, k + 1)  e == heads[k].end  u == Len(e)
             z == Len(text)
  <2>5. /\ b \in Nat /\ from \in Nat /\ from >= 1 /\ b <= from /\ from + u = next /\ next <= z + 1
        /\ \A i \in 1..u : Text(input)[from - 1 + i] = e[i]
    <3>1. /\ b \in Nat /\ FieldFrom(input, k, j) \in Nat /\ b <= FieldFrom(input, k, j) /\ next <= Len(Text(input)) + 1
      BY <1>2, <1>4, FieldBounds
    <3>2. /\ FieldFrom(input, k, Len(fields(k)) + 1) >= 1 /\ FieldFrom(input, k, Len(fields(k)) + 1) + u = next
          /\ \A i \in 1..u : Text(input)[FieldFrom(input, k, Len(fields(k)) + 1) - 1 + i] = e[i]
      BY <1>2, <1>4, FieldPlaces
    <3>3. QED
      BY <1>2, <2>3, <2>4, <3>1, <3>2
  <2>6. u \in Nat /\ z \in Nat
    <3>1. e \in Ends
      BY <1>2, <1>4, InputParts
    <3>2. u \in {1, 2}
      BY <3>1, LineEnds
    <3>3. QED
      BY <1>2, <3>2
  <2>7. \A x \in from..z : text[x] = Text(input)[x]
    BY <2>1, <2>4 DEF SameFrom
  <2>8. Holds(Forwarded(heads[k]), 1 + (from - b), e, u)
    BY <1>2, <1>4, <2>3, ForwardedAt
  <2>9. Going(input, text, k, from)
    BY <2>1, <2>4
  <2> HIDE DEF b, from, next, e, u, z
  <2>10. Holds(text, from, e, u)
    <3>1. ASSUME NEW i \in 1..u PROVE text[from - 1 + i] = e[i]
      <4>1. from - 1 + i \in from..z
        BY <2>5, <2>6
      <4>2. QED
        BY <2>5, <2>7, <4>1
    <3>2. QED
      BY <3>1 DEF Holds
  <2>11. Going(input, text, k, from + u)
    BY <1>2, <1>4, <2>5, <2>6, <2>8, <2>9, <2>10, GoingOn DEF b
  <2>12. Going(input, text, k, next) /\ InOrder(input, elements, k, n)
    BY <2>1, <2>4, <2>5, <2>11
  <2>13. QED
    BY <1>1, <2>3, <2>12 DEF ExactSeen, fields, heads, next
<1>5. QED
  BY <1>1, <1>3, <1>4, TextKept

LEMMA SendText ==
  ASSUME HeadInv, AgreeInv, TextInv, send
  PROVE  TextInv'
<1> DEFINE e == [chain |-> chain, elements |-> elements]  S == [chain : Pieces, elements : Seq(AnElement)]
<1>1. /\ mode = "send" /\ mode' \in {"request_line", "idle"} /\ UNCHANGED <<input, text, p, r, elements, chain>>
      /\ sent' = Append(sent, e)
  BY DEF send
<1>2. Untouched /\ Place /\ sent \in Seq(S)
  BY DEF AgreeInv
<1>3. e \in S
  BY DEF HeadInv, Types
<1> HIDE DEF e, S
<1>4. PICK k : k = Cur
  OBVIOUS
<1>5. k \in DOMAIN heads /\ p = From(input, k + 1)
  BY <1>1, <1>2, <1>4 DEF Place
<1>6. /\ Len(sent) \in Nat /\ k = Len(sent) + 1 /\ Len(sent') = k /\ DOMAIN sent' = 1..k /\ DOMAIN sent = 1..Len(sent)
  BY <1>1, <1>2, <1>3, <1>4 DEF Cur
<1>7. heads' = heads /\ Cur' = k + 1
  BY <1>1, <1>6 DEF heads, Cur
<1>8. SentGoing'
  <2>1. ASSUME NEW i \in DOMAIN sent', Exact(heads[i]) PROVE Going(input, text, i, From(input, i + 1))
    <3>1. CASE i = k
      BY <1>1, <1>4, <1>5, <2>1, <3>1 DEF TextInv, ExactSeen
    <3>2. CASE i # k
      <4>1. i \in DOMAIN sent
        BY <1>6, <3>2
      <4>2. QED
        BY <2>1, <4>1 DEF TextInv, SentGoing
    <3>3. QED
      BY <3>1, <3>2
  <2>2. QED
    BY <1>1, <1>7, <2>1 DEF SentGoing
<1>9. SameFrom(text, Text(input), From(input, k + 1))
  <2>1. LineStart = p
    BY <1>1 DEF LineStart
  <2>2. QED
    BY <1>2, <1>5, <2>1 DEF Untouched, SameFrom
<1>10. ExactSeen(input, text, r', p', mode', elements', k + 1)
  BY <1>1, <1>9 DEF ExactSeen
<1>11. QED
  BY <1>1, <1>7, <1>8, <1>10 DEF TextInv

LEMMA TextNext == HeadInv /\ HeadInv' /\ AgreeInv /\ AgreeInv' /\ TextInv /\ [Next]_vars => TextInv'
<1> SUFFICES ASSUME HeadInv, HeadInv', AgreeInv, AgreeInv', TextInv, [Next]_vars PROVE TextInv'
  OBVIOUS
<1>1. ASSUME mode' \in {"idle", "crashed", "spinning"}, UNCHANGED <<input, text, sent>> PROVE TextInv'
  <2>1. ExactSeen(input, text, r', p', mode', elements', Cur)
    BY <1>1 DEF ExactSeen
  <2>2. QED
    BY <1>1, <2>1, TextKept
<1>2. ASSUME UNCHANGED vars PROVE TextInv'
  <2>1. UNCHANGED <<input, text, sent, r, p, mode, elements>>
    BY <1>2 DEF vars
  <2>2. QED
    BY <2>1, TextKept DEF TextInv
<1>3. CASE request_line_char \/ request_line_done \/ status_line_char \/ status_line_done
  BY <1>3, FirstLineText
<1>4. CASE request_line_ends \/ status_line_ends \/ header_line_wild \/ headers_spin \/ send_wild
  BY <1>1, <1>4 DEF request_line_ends, status_line_ends, header_line_wild, headers_spin, send_wild
<1>5. CASE header_line_char
  BY <1>5, HeaderCharText
<1>6. CASE header_line_done
  BY <1>6, HeaderDoneText
<1>7. CASE headers_done
  BY <1>7, HeadersDoneText
<1>8. CASE send
  BY <1>8, SendText
<1>9. CASE Ended
  BY <1>2, <1>9 DEF Ended
<1>10. QED
  BY <1>2, <1>3, <1>4, <1>5, <1>6, <1>7, <1>8, <1>9 DEF Next

LEMMA TextInvariant == Spec => []TextInv
  BY TextInit, TextNext, HeadInvariant, AgreeInvariant, PTL DEF Spec

-----------------------------------------------------------------------------
(* The pieces of a chain, one behind the other.                            *)

\* Each piece starts where the one before ends, the first at a; the last ends
\* before b.
Chained(c, a, b) ==
  /\ c \in Pieces /\ c # <<>> /\ c[1].from = a
  /\ \A i \in 1..(Len(c) - 1) : c[i + 1].from = c[i].from + c[i].len
  /\ c[Len(c)].from + c[Len(c)].len = b

LEMMA PieceInts == ASSUME NEW c \in Pieces, NEW i \in 1..Len(c) PROVE c[i] \in APiece /\ c[i].from \in Int /\ c[i].len \in Int
<1>1. c[i] \in APiece
  BY DEF Pieces
<1>2. QED
  BY <1>1 DEF APiece

LEMMA ChainedOne == ASSUME NEW x \in APiece PROVE Chained(<<x>>, x.from, x.from + x.len)
<1>1. <<x>> \in Seq(APiece) /\ Len(<<x>>) = 1 /\ <<x>>[1] = x /\ <<x>> # <<>>
  OBVIOUS
<1>2. 1..(1 - 1) = {}
  OBVIOUS
<1>3. QED
  BY <1>1, <1>2 DEF Chained, Pieces

LEMMA ChainedJoin ==
  ASSUME NEW c, NEW d, NEW a, NEW b, NEW e, Chained(c, a, b), Chained(d, b, e)
  PROVE  Chained(c \o d, a, e)
<1> DEFINE n == Len(c)  m == Len(d)  s == c \o d
<1>1. /\ c \in Seq(APiece) /\ c # <<>> /\ d \in Seq(APiece) /\ d # <<>>
      /\ c[1].from = a /\ d[1].from = b /\ c[n].from + c[n].len = b /\ d[m].from + d[m].len = e
      /\ \A i \in 1..(n - 1) : c[i + 1].from = c[i].from + c[i].len
      /\ \A i \in 1..(m - 1) : d[i + 1].from = d[i].from + d[i].len
  BY DEF Chained, Pieces
<1>2. n \in Nat \ {0} /\ m \in Nat \ {0}
  BY <1>1
<1>3. /\ s \in Seq(APiece) /\ Len(s) = n + m /\ (\A i \in 1..n : s[i] = c[i]) /\ \A i \in 1..m : s[n + i] = d[i]
  BY <1>1
<1> HIDE DEF n, m, s
<1>4. s # <<>>
  BY <1>2, <1>3
<1>5. s[1].from = a
  <2>1. 1 \in 1..n
    BY <1>2
  <2>2. QED
    BY <1>1, <1>3, <2>1
<1>6. s[n + m].from + s[n + m].len = e
  <2>1. m \in 1..m
    BY <1>2
  <2>2. QED
    BY <1>1, <1>3, <2>1
<1>7. ASSUME NEW i \in 1..(n + m - 1) PROVE s[i + 1].from = s[i].from + s[i].len
  <2>1. CASE i < n
    <3>1. i \in 1..(n - 1) /\ i \in 1..n /\ i + 1 \in 1..n
      BY <1>2, <2>1
    <3>2. QED
      BY <1>1, <1>3, <3>1
  <2>2. CASE i = n
    <3>1. n \in 1..n /\ 1 \in 1..m
      BY <1>2
    <3>2. s[n] = c[n] /\ s[n + 1] = d[1]
      BY <1>3, <3>1
    <3>3. QED
      BY <1>1, <2>2, <3>2
  <2>3. CASE i > n
    <3>1. i - n \in 1..(m - 1) /\ i = n + (i - n)
      BY <1>2, <2>3
    <3>2. PICK o \in 1..(m - 1) : i = n + o
      BY <3>1
    <3>3. o \in 1..m /\ o + 1 \in 1..m /\ i + 1 = n + (o + 1)
      BY <1>2, <3>2
    <3>4. s[n + o] = d[o] /\ s[n + (o + 1)] = d[o + 1]
      BY <1>3, <3>3
    <3>5. d[o + 1].from = d[o].from + d[o].len
      BY <1>1
    <3>6. QED
      BY <3>2, <3>3, <3>4, <3>5
  <2>4. QED
    BY <1>2, <2>1, <2>2, <2>3
<1>8. \A i \in 1..(Len(s) - 1) : s[i + 1].from = s[i].from + s[i].len
  <2>1. Len(s) - 1 = n + m - 1
    <3>1. Len(s) = n + m
      BY <1>3
    <3>2. QED
      BY <1>2, <3>1
  <2>2. QED
    BY <1>7, <2>1, Zenon
<1>9. s[Len(s)].from + s[Len(s)].len = e
  BY <1>3, <1>6
<1>10. Chained(s, a, e)
  BY <1>3, <1>4, <1>5, <1>8, <1>9, Zenon DEF Chained, Pieces
<1>11. QED
  BY <1>10 DEF s

\* Such a chain is contiguous, and as long as the text it covers.
LEMMA ChainedRight ==
  ASSUME NEW c, NEW a \in Int, NEW b \in Int, Chained(c, a, b)
  PROVE  Contiguous(c, a) /\ Upto(c, Len(c)) = b - a
<1> DEFINE n == Len(c)  F(i) == c[i].from  L(i) == c[i].len  U(i) == Upto(c, i)
<1>1. /\ c \in Pieces /\ c # <<>> /\ F(1) = a /\ (\A i \in 1..(n - 1) : F(i + 1) = F(i) + L(i)) /\ F(n) + L(n) = b
  BY DEF Chained
<1>2. n \in Nat \ {0} /\ DOMAIN c = 1..n
  BY <1>1 DEF Pieces
<1>3. \A i \in 1..n : F(i) \in Int /\ L(i) \in Int
  BY <1>1, PieceInts
<1>4. U(0) = 0 /\ \A i \in Nat \ {0} : U(i) = U(i - 1) + L(i)
  BY UptoStep
<1> HIDE DEF n, F, L, U
<1> DEFINE Bad == {i \in 1..n : U(i) # F(i) + L(i) - a \/ F(i) # a + U(i - 1)}
<1>5. Bad = {}
  <2>1. SUFFICES ASSUME Bad # {} PROVE FALSE
    OBVIOUS
  <2>2. PICK i \in Bad : \A y \in Bad : i <= y
    <3>1. Bad \subseteq Nat
      OBVIOUS
    <3> HIDE DEF Bad
    <3>2. QED
      BY <2>1, <3>1, LeastNumber
  <2>3. i \in 1..n /\ (U(i) # F(i) + L(i) - a \/ F(i) # a + U(i - 1))
    OBVIOUS
  <2>4. CASE i = 1
    <3>1. U(1) = U(0) + L(1) /\ F(1) = a /\ U(0) = 0 /\ F(1) \in Int /\ L(1) \in Int /\ 1 - 1 = 0
      <4>1. 1 \in 1..n /\ 1 \in Nat \ {0} /\ 1 - 1 = 0
        BY <1>2
      <4>2. QED
        BY <1>1, <1>3, <1>4, <4>1
    <3>2. U(1) = F(1) + L(1) - a /\ F(1) = a + U(1 - 1)
      BY <3>1
    <3>3. QED
      BY <2>3, <2>4, <3>2
  <2>5. CASE i # 1
    <3> DEFINE j == i - 1
    <3>1. j \in 1..n /\ j \notin Bad /\ j \in 1..(n - 1) /\ j + 1 = i /\ i \in Nat \ {0}
      BY <1>2, <2>2, <2>3, <2>5
    <3>2. U(j) = F(j) + L(j) - a
      BY <3>1
    <3>3. U(i) = U(j) + L(i)
      BY <1>4, <3>1
    <3>4. F(i) = F(j) + L(j)
      BY <1>1, <3>1
    <3>5. F(i) \in Int /\ L(i) \in Int /\ F(j) \in Int /\ L(j) \in Int
      BY <1>3, <2>3, <3>1
    <3>6. F(i) # a + U(j) \/ U(i) # F(i) + L(i) - a
      BY <2>3
    <3> HIDE DEF j, Bad
    <3>7. QED
      BY <3>2, <3>3, <3>4, <3>5, <3>6
  <2>6. QED
    BY <2>4, <2>5
<1>6. \A i \in 1..n : U(i) = F(i) + L(i) - a /\ F(i) = a + U(i - 1)
  BY <1>5
<1> HIDE DEF Bad
<1>7. n \in 1..n
  BY <1>2
<1>8. U(n) = b - a
  <2>1. U(n) = F(n) + L(n) - a /\ F(n) + L(n) = b /\ F(n) \in Int /\ L(n) \in Int
    BY <1>1, <1>3, <1>6, <1>7
  <2>2. QED
    BY <2>1
<1>9. Contiguous(c, a)
  BY <1>2, <1>6 DEF Contiguous, F, U
<1>10. QED
  BY <1>8, <1>9 DEF U, n

\* The two pieces of a header line.
TwoPieces(e, more) ==
  <<Piece(e.key.from, e.key.len + 2), Piece(e.value.from, e.value.len + more)>>

LEMMA ChainedTwo ==
  ASSUME NEW e \in AnElement, NEW more \in Nat, e.key.from + e.key.len + 2 = e.value.from
  PROVE  TwoPieces(e, more) \in Seq(APiece) /\ Chained(TwoPieces(e, more), e.key.from, e.value.from + e.value.len + more)
<1>1. e.key.from \in Int /\ e.key.len \in Int /\ e.value.from \in Int /\ e.value.len \in Int
  BY DEF AnElement, APiece
<1> DEFINE x == Piece(e.key.from, e.key.len + 2)  y == Piece(e.value.from, e.value.len + more)
<1>2. x \in APiece /\ y \in APiece
  BY <1>1, PieceType
<1>3. x.from = e.key.from /\ x.len = e.key.len + 2 /\ y.from = e.value.from /\ y.len = e.value.len + more
  BY DEF Piece
<1> HIDE DEF x, y
<1>4. x.from + x.len = y.from /\ y.from + y.len = e.value.from + e.value.len + more
  <2> DEFINE a == e.key.from  b == e.key.len  c == e.value.from  d == e.value.len
  <2>1. a \in Int /\ b \in Int /\ c \in Int /\ d \in Int /\ a + b + 2 = c
    BY <1>1
  <2>2. x.from = a /\ x.len = b + 2 /\ y.from = c /\ y.len = d + more
    BY <1>3
  <2> HIDE DEF a, b, c, d
  <2>3. x.from + x.len = y.from /\ y.from + y.len = c + d + more
    BY <2>1, <2>2
  <2>4. QED
    BY <2>3 DEF c, d
<1> DEFINE c == <<x, y>>
<1>5. c \in Seq(APiece) /\ Len(c) = 2 /\ c # <<>> /\ c[1] = x /\ c[2] = y
  BY <1>2
<1> HIDE DEF c
<1>6. \A i \in 1..(Len(c) - 1) : c[i + 1].from = c[i].from + c[i].len
  <2>1. ASSUME NEW i \in 1..(Len(c) - 1) PROVE i = 1 /\ i + 1 = 2
    BY <1>5
  <2>2. QED
    BY <1>4, <1>5, <2>1
<1>7. c \in Seq(APiece) /\ Chained(c, x.from, y.from + y.len)
  BY <1>5, <1>6 DEF Chained, Pieces
<1>8. QED
  BY <1>3, <1>4, <1>7 DEF TwoPieces, c, x, y

\* Where the pieces of header line j end.
Stop(in, k, j) == IF j = Len(in.heads[k].fields) THEN From(in, k + 1) ELSE FieldFrom(in, k, j + 1)

LEMMA ExactPieces ==
  ASSUME input \in Inputs, NEW k \in DOMAIN heads, Exact(heads[k]), NEW j \in 1..Len(fields(k)),
         NEW e \in AnElement, Fits(input, e, k, j), NEW more, more = IF j = Len(fields(k)) THEN 4 ELSE 2
  PROVE  /\ TwoPieces(e, more) \in Seq(APiece)
         /\ Chained(TwoPieces(e, more), FieldFrom(input, k, j), Stop(input, k, j))
<1> DEFINE f == fields(k)[j]  a == FieldFrom(input, k, j)  n == Len(f.name)  v == Len(f.value)
<1>1. f \in FieldParts
  BY InputParts
<1>2. ~IsHost(f.name) /\ f.sep = <<":", SP>> /\ f.pad = <<>> /\ f.eol = CRLF /\ heads[k].end = CRLF
  <2>1. j \in DOMAIN fields(k)
    BY InputParts
  <2>2. QED
    BY <2>1 DEF Exact, fields
<1>3. f.name \in Seq(Char) /\ f.value \in Seq(Char) /\ n \in Nat /\ v \in Nat
  BY <1>1 DEF FieldParts
<1>4. Len(f.sep) = 2 /\ Len(f.pad) = 0 /\ Len(f.eol) = 2 /\ Len(heads[k].end) = 2 /\ f.sep \in Seq(Char) /\ f.pad \in Seq(Char)
  <2>1. f.sep \in Seq(Char) /\ f.pad \in Seq(Char)
    BY <1>1 DEF FieldParts
  <2>2. QED
    BY <1>2, <2>1 DEF CRLF
<1>5. Len(f.name \o f.sep) = n + 2
  <2>1. \A x, y \in Seq(Char) : Len(x \o y) = Len(x) + Len(y)
    OBVIOUS
  <2>2. Len(f.name \o f.sep) = n + Len(f.sep)
    BY <1>3, <1>4, <2>1, Zenon
  <2>3. QED
    BY <1>4, <2>2
<1>6. e.key = Piece(a, n) /\ e.value.len = v /\ e.value.from = a + (n + 2)
  <2>1. e.key = Piece(a, n) /\ e.value.len = v /\ e.value.from = a + Len(f.name \o f.sep) + (IF f.value = <<>> THEN Len(f.pad) ELSE 0)
    BY <1>2 DEF Fits, Expected, Piece, fields, heads
  <2>2. a \in Nat
    BY FieldPlaces
  <2>3. QED
    BY <1>3, <1>4, <1>5, <2>1, <2>2
<1>7. Len(FieldText(f)) = n + v + 4
  <2>1. Len(FieldText(f)) = n + Len(f.sep) + v + Len(f.pad) + Len(f.eol)
    BY <1>1, FieldTextAt
  <2> HIDE DEF n, v
  <2>2. Len(FieldText(f)) = n + 2 + v + 0 + 2
    BY <1>4, <2>1
  <2>3. QED
    BY <1>3, <2>2
<1>8. a \in Nat /\ FieldFrom(input, k, j + 1) = a + (n + v + 4) /\ FieldFrom(input, k, Len(fields(k)) + 1) + 2 = From(input, k + 1)
  BY <1>4, <1>7, FieldPlaces
<1>9. Stop(input, k, j) = e.value.from + e.value.len + more /\ more \in Nat
  <2> DEFINE m == Len(fields(k))  F(i) == FieldFrom(input, k, i)  next == From(input, k + 1)
  <2>1. Stop(input, k, j) = IF j = m THEN next ELSE F(j + 1)
    BY DEF Stop, fields, heads
  <2>2. a \in Nat /\ F(j + 1) = a + (n + v + 4) /\ F(m + 1) + 2 = next /\ more = IF j = m THEN 4 ELSE 2
    BY <1>8
  <2> HIDE DEF a, n, v, m, F, next
  <2>3. e.value.from + e.value.len = a + (n + 2) + v
    BY <1>6
  <2>4. CASE j = m
    <3>1. next = a + (n + v + 4) + 2 /\ more = 4
      BY <2>2, <2>4
    <3>2. next = (a + (n + 2) + v) + 4
      BY <1>3, <2>2, <3>1
    <3>3. QED
      BY <2>1, <2>3, <2>4, <3>1, <3>2
  <2>5. CASE j # m
    <3>1. more = 2 /\ Stop(input, k, j) = F(j + 1)
      BY <2>1, <2>2, <2>5
    <3>2. F(j + 1) = (a + (n + 2) + v) + 2
      BY <1>3, <2>2
    <3>3. QED
      BY <2>3, <3>1, <3>2
  <2>6. QED
    BY <2>4, <2>5
<1>10. e.key.from = a /\ e.key.len = n
  BY <1>6 DEF Piece
<1>11. e.key.from + e.key.len + 2 = e.value.from
  BY <1>3, <1>6, <1>8, <1>10
<1>12. QED
  BY <1>9, <1>10, <1>11, ChainedTwo

\* The pieces of the header lines, one line behind the other.
LEMMA HeaderPiecesChained ==
  ASSUME input \in Inputs, NEW k \in DOMAIN heads, Exact(heads[k]), elements \in Seq(AnElement),
         InOrder(input, elements, k, Len(fields(k)))
  PROVE  Chained(HeaderPieces, FieldFrom(input, k, 1), From(input, k + 1))
<1> DEFINE n == Len(fields(k))  more(i) == IF i = n THEN 4 ELSE 2
           s == [i \in 1..n |-> TwoPieces(elements[i], more(i))]  a == FieldFrom(input, k, 1)
           C(i) == Chained(Pre(s, i), a, Stop(input, k, i))
<1>1. n \in Nat \ {0} /\ Len(elements) = n /\ DOMAIN elements = 1..n
  <2>1. n \in Nat /\ fields(k) # <<>> /\ DOMAIN fields(k) = 1..n /\ fields(k) \in Seq(FieldParts)
    BY InputParts DEF Exact, fields
  <2>2. n # 0
    BY <2>1
  <2>3. Len(elements) = n
    BY DEF InOrder
  <2>4. QED
    BY <2>1, <2>2, <2>3
<1>2. HeaderPieces = Pre(s, n)
  <2>1. s = [i \in 1..n |-> s[i]]
    OBVIOUS
  <2>2. HeaderPieces = FlattenSeq(s)
    BY <1>1, Zenon DEF HeaderPieces, TwoPieces
  <2>3. QED
    BY <2>1, <2>2 DEF Pre
<1>3. ASSUME NEW i \in 1..n
      PROVE  s[i] \in Seq(APiece) /\ Chained(s[i], FieldFrom(input, k, i), Stop(input, k, i))
  <2>1. elements[i] \in AnElement
    BY <1>1
  <2>2. Fits(input, elements[i], k, i)
    BY DEF InOrder
  <2>3. s[i] = TwoPieces(elements[i], more(i))
    OBVIOUS
  <2>4. PICK m : m = more(i)
    OBVIOUS
  <2>5. QED
    BY <2>1, <2>2, <2>3, <2>4, ExactPieces
<1>4. \A i \in 1..n : i # n => Stop(input, k, i) = FieldFrom(input, k, i + 1)
  BY DEF Stop, fields, heads
<1>5. Stop(input, k, n) = From(input, k + 1)
  BY DEF Stop, fields, heads
<1> HIDE DEF n, s, a
<1> DEFINE Bad == {i \in 1..n : ~C(i)}
<1>6. Bad = {}
  <2>1. SUFFICES ASSUME Bad # {} PROVE FALSE
    OBVIOUS
  <2>2. PICK i \in Bad : \A y \in Bad : i <= y
    <3>1. Bad \subseteq Nat
      OBVIOUS
    <3> HIDE DEF Bad
    <3>2. QED
      BY <2>1, <3>1, LeastNumber
  <2>3. i \in 1..n /\ ~C(i)
    OBVIOUS
  <2>4. i \in Nat \ {0} /\ \A j \in 1..i : s[j] \in Seq(APiece)
    <3>1. \A j \in 1..i : j \in 1..n
      BY <1>1, <2>3
    <3>2. QED
      BY <1>3, <2>3, <3>1
  <2>5. Pre(s, i) = Pre(s, i - 1) \o s[i] /\ s[i] \in Seq(APiece)
    BY <2>4, PreStep
  <2>6. Chained(s[i], FieldFrom(input, k, i), Stop(input, k, i))
    BY <1>3, <2>3
  <2>7. CASE i = 1
    <3>1. Pre(s, i - 1) = <<>>
      BY <2>7, PreNone
    <3>2. Pre(s, i) = s[i]
      <4>1. \A w \in Seq(APiece) : <<>> \o w = w
        OBVIOUS
      <4>2. QED
        BY <2>5, <3>1, <4>1
    <3>3. QED
      BY <2>3, <2>6, <2>7, <3>2 DEF a
  <2>8. CASE i # 1
    <3>1. i - 1 \in 1..n /\ i - 1 \notin Bad /\ i - 1 # n /\ (i - 1) + 1 = i
      BY <1>1, <2>2, <2>3, <2>8
    <3>2. C(i - 1)
      BY <3>1
    <3>3. Stop(input, k, i - 1) = FieldFrom(input, k, i)
      BY <1>4, <3>1
    <3>4. Chained(Pre(s, i - 1) \o s[i], a, Stop(input, k, i))
      BY <2>6, <3>2, <3>3, ChainedJoin
    <3>5. QED
      BY <2>3, <2>5, <3>4
  <2>9. QED
    BY <2>7, <2>8
<1>7. n \in 1..n
  BY <1>1
<1>8. C(n)
  BY <1>6, <1>7
<1>9. QED
  BY <1>2, <1>5, <1>8 DEF a

\* The chains of a head of the usual form.
LEMMA ResponseChained ==
  ASSUME input \in Inputs, NEW k \in DOMAIN heads, Exact(heads[k]), StatusSet(input, r, k),
         Chained(HeaderPieces, FieldFrom(input, k, 1), From(input, k + 1))
  PROVE  Chained(construct_response_chains, From(input, k), From(input, k + 1))
<1>1. PICK l, T, from, next, Z : /\ l = heads[k].line /\ T = Text(input) /\ from = From(input, k)
                                 /\ next = FieldFrom(input, k, 1) /\ Z = Part(l, from, 5)
  OBVIOUS
<1>2. LineAt(l, T, from, next)
  BY <1>1, LineParts
<1>3. from \in Nat
  BY <1>2 DEF LineAt
<1>4. l[6] = CRLF
  BY <1>1 DEF Exact
<1>5. Z \in Nat /\ next = Z + 2
  BY <1>1, <1>2, <1>4, LineEndsAt
<1> DEFINE x == Piece(from, Z - from + 2)
<1>6. x \in APiece /\ x.from = from /\ x.len = Z - from + 2
  <2>1. Z - from + 2 \in Int
    BY <1>3, <1>5
  <2>2. QED
    BY <1>3, <2>1, PieceType DEF Piece
<1> HIDE DEF x
<1>7. x.from + x.len = next
  BY <1>3, <1>5, <1>6
<1>8. Chained(<<x>>, from, next)
  BY <1>6, <1>7, ChainedOne
<1>9. Chained(<<x>> \o HeaderPieces, from, From(input, k + 1))
  BY <1>1, <1>8, ChainedJoin
<1>10. r.request_start = from /\ r.status_end = Z
  BY <1>1 DEF StatusSet, Mark, heads
<1>11. construct_response_chains = <<x>> \o HeaderPieces
  BY <1>10 DEF construct_response_chains, x
<1>12. QED
  BY <1>1, <1>9, <1>11

LEMMA RequestChained ==
  ASSUME input \in Inputs, NEW k \in DOMAIN heads, Exact(heads[k]), RequestSet(input, r, k), input.kind = "request",
         Chained(HeaderPieces, FieldFrom(input, k, 1), From(input, k + 1))
  PROVE  Chained(http_construct_request_chains, From(input, k), From(input, k + 1))
<1>1. PICK l, T, from, next, M, U, W, V, Z :
        /\ l = heads[k].line /\ T = Text(input) /\ from = From(input, k) /\ next = FieldFrom(input, k, 1)
        /\ M = Part(l, from, 1) /\ U = Part(l, from, 2) /\ W = Part(l, from, 3) /\ V = Part(l, from, 4) /\ Z = Part(l, from, 5)
  OBVIOUS
<1>2. LineAt(l, T, from, next)
  BY <1>1, LineParts
<1>3. l[6] = CRLF /\ Len(l[2]) = 1 /\ Len(l[4]) = 1
  <2>1. RequestForm(l)
    BY <1>1, FormAssumption DEF heads
  <2>2. l[6] = CRLF /\ l[2] = <<SP>> /\ l[4] = <<SP>>
    BY <1>1, <2>1 DEF Exact, RequestForm
  <2>3. QED
    BY <2>2
<1>4. from \in Nat
  BY <1>2 DEF LineAt
<1>5. Z \in Nat /\ next = Z + 2
  BY <1>1, <1>2, <1>3, LineEndsAt
<1>6. M \in Nat /\ U \in Nat /\ W \in Nat /\ V \in Nat /\ U = M + 1 /\ V = W + 1
  <2>1. 2 \in 1..6 /\ 4 \in 1..6 /\ 2 - 1 = 1 /\ 4 - 1 = 3
    OBVIOUS
  <2>2. PartAt(l, T, from, 2) /\ PartAt(l, T, from, 4)
    BY <1>2, <2>1 DEF LineAt
  <2>3. M \in Nat /\ U \in Nat /\ W \in Nat /\ V \in Nat /\ U = M + Len(l[2]) /\ V = W + Len(l[4])
    BY <1>1, <2>1, <2>2, Zenon DEF PartAt
  <2>4. QED
    BY <1>3, <2>3
<1> DEFINE x == Piece(from, M - 1 - from + 2)  y == Piece(U, W - U + 1)  z == Piece(V, Z - V + 2)
<1>7. /\ x \in APiece /\ x.from = from /\ x.len = M - 1 - from + 2
      /\ y \in APiece /\ y.from = U /\ y.len = W - U + 1
      /\ z \in APiece /\ z.from = V /\ z.len = Z - V + 2
  <2>1. M - 1 - from + 2 \in Int /\ W - U + 1 \in Int /\ Z - V + 2 \in Int /\ from \in Int /\ U \in Int /\ V \in Int
    BY <1>4, <1>5, <1>6
  <2>2. QED
    BY <2>1, PieceType DEF Piece
<1> HIDE DEF x, y, z
<1>8. x.from + x.len = y.from /\ y.from + y.len = z.from /\ z.from + z.len = next
  BY <1>4, <1>5, <1>6, <1>7
<1> DEFINE c == <<x, y, z>>
<1>9. c \in Seq(APiece) /\ Len(c) = 3 /\ c # <<>> /\ c[1] = x /\ c[2] = y /\ c[3] = z
  BY <1>7
<1> HIDE DEF c
<1>10. \A i \in 1..(Len(c) - 1) : c[i + 1].from = c[i].from + c[i].len
  <2>1. ASSUME NEW i \in 1..(Len(c) - 1) PROVE (i = 1 /\ i + 1 = 2) \/ (i = 2 /\ i + 1 = 3)
    BY <1>9
  <2>2. QED
    BY <1>8, <1>9, <2>1
<1>11. Chained(c, from, next)
  BY <1>7, <1>8, <1>9, <1>10 DEF Chained, Pieces
<1>12. Chained(c \o HeaderPieces, from, From(input, k + 1))
  BY <1>1, <1>11, ChainedJoin
<1>13. /\ r.request_start = from /\ r.method_end = M - 1 /\ r.uri = U /\ r.uri_start = U /\ r.uri_end = W
       /\ r.http_protocol = V /\ r.request_end = Z
  BY <1>1 DEF RequestSet, LineSet, Mark, heads
<1>14. http_construct_request_chains = c \o HeaderPieces
  BY <1>13 DEF http_construct_request_chains, c, x, y, z
<1>15. QED
  BY <1>1, <1>12, <1>14

\* The chains of the heads of the usual form run from the first character of
\* the head to its last.
Straight(in, q, k) == in.kind = "request" => ~q.upstream /\ PlainUpto(in, k)
Covers(in, c, k) == Chained(c, From(in, k), From(in, k + 1))

ChainInv ==
  /\ \A i \in DOMAIN sent : Exact(heads[i]) /\ Straight(input, r, i) => Covers(input, sent[i].chain, i)
  /\ mode = "send" /\ Exact(heads[Cur]) /\ Straight(input, r, Cur) => Covers(input, chain, Cur)

LEMMA ChainKept ==
  ASSUME ChainInv, UNCHANGED <<input, sent>>, r'.upstream = r.upstream,
         mode' = "send" /\ Exact(heads[Cur]) /\ Straight(input, r, Cur) => Covers(input, chain', Cur)
  PROVE  ChainInv'
<1>1. Cur' = Cur /\ heads' = heads
  BY DEF Cur, heads
<1>2. ASSUME NEW i PROVE Straight(input, r', i) = Straight(input, r, i)
  BY DEF Straight
<1>3. \A i \in DOMAIN sent : Exact(heads[i]) /\ Straight(input, r', i) => Covers(input, sent[i].chain, i)
  BY <1>2 DEF ChainInv
<1>4. mode' = "send" /\ Exact(heads[Cur]) /\ Straight(input, r', Cur) => Covers(input, chain', Cur)
  BY <1>2
<1>5. QED
  BY <1>1, <1>3, <1>4 DEF ChainInv

LEMMA ChainInit == Init => ChainInv
<1> SUFFICES ASSUME Init PROVE ChainInv
  OBVIOUS
<1>1. sent = <<>> /\ mode # "send"
  BY DEF Init
<1>2. DOMAIN sent = {}
  BY <1>1
<1>3. QED
  BY <1>1, <1>2 DEF ChainInv

\* Nothing sets or clears r->upstream.
LEMMA UpstreamStays ==
  ASSUME HeadInv, Next
  PROVE  r'.upstream = r.upstream
<1>1. r \in RequestT /\ p \in Int
  BY DEF HeadInv, Types
<1>2. CASE request_line_char
  BY <1>1, <1>2, RequestLineCharFields DEF request_line_char
<1>3. CASE request_line_done
  BY <1>1, <1>3, UpstreamKept DEF request_line_done
<1>4. CASE status_line_char
  BY <1>1, <1>4, StatusLineCharFields DEF status_line_char
<1>5. CASE status_line_done
  <2> DEFINE w == StatusLineChar("start")  e == IF w.status_end = NULL THEN p ELSE w.status_end
  <2>1. r' = [w EXCEPT !.status_end = e]
    BY <1>5 DEF status_line_done
  <2>2. w \in RequestT /\ w.upstream = r.upstream
    BY <1>1, StatusLineCharType, StatusLineCharFields, HeaderStates
  <2> HIDE DEF w, e
  <2>3. QED
    BY <2>1, <2>2 DEF RequestT
<1>6. CASE header_line_char \/ header_line_done \/ headers_done
  <2>1. PICK to : r' = HeaderLineChar(to)
    BY <1>6 DEF header_line_char, header_line_done, headers_done
  <2>2. QED
    BY <1>1, <2>1, HeaderLineCharFields
<1>7. CASE request_line_ends \/ status_line_ends \/ header_line_wild \/ headers_spin \/ send \/ send_wild \/ Ended
  <2>1. r' = r
    BY <1>7 DEF request_line_ends, status_line_ends, header_line_wild, headers_spin, send, send_wild, Ended, vars
  <2>2. QED
    BY <2>1
<1>8. QED
  BY <1>2, <1>3, <1>4, <1>5, <1>6, <1>7 DEF Next

\* The head is complete, the chain constructed.
LEMMA HeadersDoneChain ==
  ASSUME HeadInv, AgreeInv, LineInv, TextInv, headers_done, mode' = "send", NEW k, k = Cur, Exact(heads[k]), Straight(input, r, k)
  PROVE  Covers(input, chain', k)
<1>1. mode = "headers" /\ More /\ HeaderLineTo = "header_done"
  BY DEF headers_done
<1>2. Types /\ Untouched /\ input \in Inputs /\ elements \in Seq(AnElement)
  BY DEF HeadInv, AgreeInv, Types
<1>3. k \in DOMAIN heads
  BY <1>1 DEF AgreeInv, Place
<1>4. InOrder(input, elements, k, Len(fields(k)))
  <2>1. PICK j \in 1..(Len(fields(k)) + 1) : FieldPlace(input, r, p, k, j) /\ InOrder(input, elements, k, j - 1)
    BY <1>1, <1>3 DEF TextInv, ExactSeen, fields, heads
  <2>2. j = Len(fields(k)) + 1
    BY <1>1, <1>2, <1>3, <2>1, HeadEnds
  <2>3. PICK n : n = Len(fields(k))
    OBVIOUS
  <2>4. n \in Nat
    BY <1>2, <1>3, <2>3, InputParts
  <2>5. j - 1 = n
    BY <2>2, <2>3, <2>4
  <2>6. QED
    BY <2>1, <2>3, <2>5
<1>5. Chained(HeaderPieces, FieldFrom(input, k, 1), From(input, k + 1))
  BY <1>2, <1>3, <1>4, HeaderPiecesChained
<1>6. EndsCRLF(input, k) /\ Versioned(input, k)
  BY DEF Exact, EndsCRLF, Versioned, heads
<1>7. CASE input.kind = "request"
  <2>1. chain' = http_construct_request_chains
    BY <1>7 DEF headers_done
  <2>2. PlainHead(input, r, k)
    BY <1>3, <1>7 DEF PlainHead, Straight, heads
  <2>3. RequestSet(input, r, k)
    BY <1>1, <1>6, <2>2 DEF LineInv, LineSeen, RequestSeen
  <2>4. QED
    BY <1>2, <1>3, <1>5, <1>7, <2>1, <2>3, RequestChained DEF Covers
<1>8. CASE input.kind # "request"
  <2>1. chain' = construct_response_chains
    BY <1>8 DEF headers_done
  <2>2. StatusHead(input, k)
    BY <1>3, <1>6, <1>8 DEF StatusHead, heads
  <2>3. StatusSet(input, r, k)
    BY <1>1, <2>2 DEF LineInv, LineSeen, StatusSeen
  <2>4. QED
    BY <1>2, <1>3, <1>5, <2>1, <2>3, ResponseChained DEF Covers
<1>9. QED
  BY <1>7, <1>8

LEMMA SendChain ==
  ASSUME HeadInv, AgreeInv, ChainInv, send
  PROVE  ChainInv'
<1> DEFINE e == [chain |-> chain, elements |-> elements]  S == [chain : Pieces, elements : Seq(AnElement)]
<1>1. mode = "send" /\ mode' # "send" /\ UNCHANGED <<input, r>> /\ sent' = Append(sent, e)
  BY DEF send
<1>2. sent \in Seq(S)
  BY DEF AgreeInv
<1>3. e \in S /\ e.chain = chain
  BY DEF HeadInv, Types
<1> HIDE DEF e, S
<1>4. PICK k : k = Cur
  OBVIOUS
<1>5. /\ Len(sent) \in Nat /\ k = Len(sent) + 1 /\ DOMAIN sent' = 1..k /\ DOMAIN sent = 1..Len(sent)
      /\ sent'[k] = e /\ \A i \in DOMAIN sent : sent'[i] = sent[i]
  BY <1>1, <1>2, <1>3, <1>4 DEF Cur
<1>6. ASSUME NEW i \in DOMAIN sent', Exact(heads[i]), Straight(input, r, i) PROVE Covers(input, sent'[i].chain, i)
  <2>1. CASE i = k
    BY <1>1, <1>3, <1>4, <1>5, <1>6, <2>1 DEF ChainInv
  <2>2. CASE i # k
    <3>1. i \in DOMAIN sent
      BY <1>5, <2>2
    <3>2. sent'[i] = sent[i]
      BY <1>5, <3>1
    <3>3. QED
      BY <1>6, <3>1, <3>2 DEF ChainInv
  <2>3. QED
    BY <2>1, <2>2
<1>7. heads' = heads
  BY <1>1 DEF heads
<1>8. QED
  BY <1>1, <1>6, <1>7 DEF ChainInv

LEMMA ChainNext == HeadInv /\ AgreeInv /\ LineInv /\ TextInv /\ ChainInv /\ [Next]_vars => ChainInv'
<1> SUFFICES ASSUME HeadInv, AgreeInv, LineInv, TextInv, ChainInv, [Next]_vars PROVE ChainInv'
  OBVIOUS
<1>1. CASE UNCHANGED vars
  <2>1. UNCHANGED <<input, sent, r, mode, chain>>
    BY <1>1 DEF vars
  <2>2. QED
    BY <2>1, ChainKept DEF ChainInv
<1>2. CASE headers_done
  <2>1. r'.upstream = r.upstream
    BY <1>2, UpstreamStays DEF Next
  <2>2. UNCHANGED <<input, sent>>
    BY <1>2 DEF headers_done
  <2>3. mode' = "send" /\ Exact(heads[Cur]) /\ Straight(input, r, Cur) => Covers(input, chain', Cur)
    BY <1>2, HeadersDoneChain
  <2>4. QED
    BY <2>1, <2>2, <2>3, ChainKept
<1>3. CASE send
  BY <1>3, SendChain
<1>4. CASE Next /\ ~headers_done /\ ~send /\ ~UNCHANGED vars
  <2>1. r'.upstream = r.upstream
    BY <1>4, UpstreamStays
  <2>2. UNCHANGED <<input, sent>> /\ mode' # "send"
    BY <1>4 DEF Next, request_line_char, request_line_done, request_line_ends, status_line_char, status_line_done,
                status_line_ends, header_line_char, header_line_wild, header_line_done, headers_spin, send_wild, Ended
  <2>3. QED
    BY <2>1, <2>2, ChainKept
<1>5. QED
  BY <1>1, <1>2, <1>3, <1>4

LEMMA ChainInvariant == Spec => []ChainInv
  BY ChainInit, ChainNext, HeadInvariant, AgreeInvariant, LineInvariant, TextInvariant, PTL DEF Spec

\* A head of the usual form goes out as it came in, but for names in lower
\* case: the pieces that http_construct_request_chains and
\* construct_response_chains cut, with their fixed numbers for the separators,
\* cover it from its first character to its empty line without gap or overlap,
\* for every such head, wherever it stands in the buffer and whatever the heads
\* before it were.  For a response this is so in any memory; for a request it
\* needs a request_t in memory that was zero (http_create_request does not clear
\* it, and a flag left over there makes the URI piece wild), and URIs that were
\* plain in the heads before it too.
THEOREM ExactRight == Spec => []ExactForwarded
<1>1. HeadInv /\ AgreeInv /\ TextInv /\ ChainInv => ExactForwarded
  <2> SUFFICES ASSUME HeadInv, AgreeInv, TextInv, ChainInv PROVE ExactForwarded
    OBVIOUS
  <2>1. SUFFICES ASSUME NEW k \in DOMAIN sent, Exact(input.heads[k]),
                        input.kind = "request" => Zeroed /\ \A j \in 1..k : Plain(input.heads[j].line[3])
        PROVE  /\ Contiguous(sent[k].chain, From(input, k))
               /\ Upto(sent[k].chain, Len(sent[k].chain)) = Len(HeadText(input.heads[k]))
               /\ SubSeq(text, From(input, k), From(input, k + 1) - 1) = Forwarded(input.heads[k])
    BY DEF ExactForwarded
  <2> DEFINE h == heads[k]  a == From(input, k)  b == From(input, k + 1)  c == sent[k].chain  F == Forwarded(h)  n == Len(HeadText(h))
  <2>2. h = input.heads[k]
    BY DEF heads
  <2>3. input \in Inputs /\ text \in Seq(Char) /\ Len(text) = Len(Text(input))
    BY DEF HeadInv, Types
  <2>4. k \in DOMAIN heads
    <3>1. DOMAIN heads = 1..Len(heads) /\ Len(heads) \in Nat
      BY <2>3, InputParts
    <3> DEFINE S == [chain : Pieces, elements : Seq(AnElement)]
    <3>2. sent \in Seq(S) /\ Len(sent) <= Len(heads)
      BY DEF AgreeInv, SentFit
    <3> HIDE DEF S
    <3>3. k \in 1..Len(sent) /\ Len(sent) \in Nat
      BY <3>2
    <3>4. QED
      BY <3>1, <3>2, <3>3
  <2>5. a \in Nat /\ a >= 1 /\ b \in Nat /\ b = a + n /\ b <= Len(text) + 1
    BY <2>3, <2>4, HeadPlaces, FieldBounds
  <2>6. F \in Seq(Char) /\ Len(F) = n
    BY <2>3, <2>4, ForwardedAt
  <2>7. Straight(input, r, k)
    BY <2>1 DEF Straight, PlainUpto, Zeroed
  <2>8. Covers(input, c, k)
    BY <2>1, <2>2, <2>7 DEF ChainInv
  <2>9. Going(input, text, k, b)
    BY <2>1, <2>2 DEF TextInv, SentGoing
  <2>10. Holds(text, a, F, b - a)
    BY <2>9 DEF Going, heads
  <2>11. Chained(c, a, b)
    BY <2>8 DEF Covers
  <2> HIDE DEF h, a, b, c, F, n
  <2>12. n \in Nat
    BY <2>6
  <2>13. Contiguous(c, a) /\ Upto(c, Len(c)) = b - a
    BY <2>5, <2>11, ChainedRight
  <2>14. b - a = n /\ a + n - 1 = b - 1 /\ a + n - 1 <= Len(text)
    <3>1. Len(text) \in Nat
      BY <2>3
    <3>2. QED
      BY <2>5, <2>12, <3>1
  <2>15. \A i \in 1..Len(F) : text[a - 1 + i] = F[i]
    BY <2>6, <2>10, <2>14 DEF Holds
  <2>16. SubSeq(text, a, b - 1) = F
    <3>1. a + Len(F) - 1 <= Len(text) /\ a + Len(F) - 1 = b - 1
      BY <2>6, <2>14
    <3>2. SubSeq(text, a, a + Len(F) - 1) = F
      BY <2>3, <2>5, <2>6, <2>15, <3>1, SubSeqIs
    <3>3. QED
      BY <3>1, <3>2
  <2>17. QED
    BY <2>2, <2>13, <2>14, <2>16 DEF a, b, c, F, n
<1>2. QED
  BY <1>1, HeadInvariant, AgreeInvariant, TextInvariant, ChainInvariant, PTL

=============================================================================
