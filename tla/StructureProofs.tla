---------------------------- MODULE StructureProofs ----------------------------
(* The skip list of the key-value server, for any keys, values and levels: a   *)
(* search finds what was stored, whatever was inserted, replaced, deleted and  *)
(* loaded before.  The ByteArray of the streams, for any block size, byte and  *)
(* value width: its blocks store the bytes written, a value is read back, and  *)
(* every way out of the array shows the same bytes.                            *)
EXTENDS MCStructures, FiniteSetTheorems, NaturalsInduction, WellFoundedInduction, TLAPS

-----------------------------------------------------------------------------
(* The inductive invariant *)

\* The keys behind node n on level i.
Behind(l, n, i) == {k \in S!Keys(l) : i \in DOMAIN l.forward[k] /\ (n # Header => k > n)}

\* x is the first of them.
NextIs(l, n, i, x) ==
    IF Behind(l, n, i) = {} THEN x = None
    ELSE x \in Behind(l, n, i) /\ \A k \in Behind(l, n, i) : x <= k

Shape(l) ==
    /\ l = [forward |-> l.forward, value |-> l.value, level |-> l.level, count |-> l.count]
    /\ Header \in S!Node(l) /\ S!Keys(l) \subseteq Key /\ IsFiniteSet(S!Keys(l))
    /\ \A n \in S!Node(l) : \E r \in 0..MaxLevel : l.forward[n] \in [0..r -> S!Keys(l) \cup {None}]
    /\ DOMAIN l.forward[Header] = 0..MaxLevel
    /\ l.value \in [S!Keys(l) -> Value \cup Key]
    /\ l.count = Cardinality(S!Keys(l))

\* The levels in use are the levels of the nodes.
Levels(l) ==
    /\ l.level \in 0..MaxLevel
    /\ \A k \in S!Keys(l) : DOMAIN l.forward[k] \subseteq 0..l.level
    /\ l.level > 0 => \E k \in S!Keys(l) : l.level \in DOMAIN l.forward[k]

Sound(l) ==
    /\ Shape(l) /\ Levels(l)
    /\ \A n \in S!Node(l) : \A i \in DOMAIN l.forward[n] : NextIs(l, n, i, l.forward[n][i])

\* The list holds what d says.
Holds(l, d) == \A k \in Key : d[k] = IF k \in S!Keys(l) THEN l.value[k] ELSE None

Pairs == Key \X (Value \cup Key)

\* What the list holds.
Held(l) == [k \in Key |-> IF k \in S!Keys(l) THEN l.value[k] ELSE None]

\* A map that holds d has the keys of h, and the values of those keys that did
\* not come from a dump.
SameBut(h, d, ks) ==
    \A k \in Key : IF k \in ks THEN h[k] # None /\ d[k] # None ELSE h[k] = d[k]

ListInv ==
    /\ Sound(list) /\ SameBut(Held(list), dict, loaded) /\ loaded \subseteq Key
    /\ dict \in [Key -> Value \cup Key \cup {None}] /\ dump \in Seq(Pairs) /\ count \in 0..MaxCount

LInv == structure = "list" => ListInv

-----------------------------------------------------------------------------
(* Searching *)

\* A set of numbers below a bound has a greatest.
LEMMA GreatestExists ==
    ASSUME NEW T \in SUBSET Nat, T # {}, NEW b \in Nat, \A y \in T : y < b
    PROVE  \E x \in T : \A y \in T : y <= x
<1> DEFINE Less == OpToRel(<, Nat)
           U == {n \in Nat : b - n \in T}
<1>1. IsWellFoundedOn(Less, Nat)
    BY NatLessThanWellFounded
<1>2. \A y \in T : b - y \in Nat /\ b - (b - y) = y
    OBVIOUS
<1>3. U \subseteq Nat /\ U # {} /\ \A y \in T : b - y \in U
    BY <1>2
<1>4. \A x, y \in Nat : <<y, x>> \in Less <=> y < x
    BY DEF OpToRel
<1>5. \A n \in U : n \in Nat /\ b - n \in T
    OBVIOUS
<1> HIDE DEF Less, U
<1>6. PICK n \in U : \A y \in U : ~(<<y, n>> \in Less)
    BY <1>1, <1>3, WFMin
<1>7. \A y \in U : n <= y
    <2>1. n \in Nat /\ \A y \in U : y \in Nat /\ ~(y < n)
        BY <1>3, <1>4, <1>6
    <2> QED
        BY <2>1
<1>8. \A y \in T : n <= b - y
    BY <1>3, <1>7
<1>9. b - n \in T /\ n \in Nat
    BY <1>5
<1>10. \A y \in T : y <= b - n
    BY <1>8, <1>9
<1> QED
    BY <1>9, <1>10

LEMMA Nodes ==
    ASSUME NEW l, Sound(l)
    PROVE  /\ S!Node(l) = S!Keys(l) \cup {Header}
           /\ Header \notin S!Keys(l) /\ None \notin S!Keys(l) /\ None # Header
           /\ \A k \in S!Keys(l) : k \in Nat /\ k \in Key
           /\ \A n \in S!Node(l) : /\ DOMAIN l.forward[n] \subseteq 0..MaxLevel /\ 0 \in DOMAIN l.forward[n]
                                   /\ \A i \in DOMAIN l.forward[n] : /\ \A j \in 0..i : j \in DOMAIN l.forward[n]
                                                                     /\ l.forward[n][i] \in S!Keys(l) \cup {None}
           /\ DOMAIN l.forward[Header] = 0..MaxLevel /\ MaxLevel \in Nat
<1>1. MaxLevel \in Nat /\ Key \subseteq Nat /\ Header \notin Key /\ None \notin Key /\ None # Header
    BY BoundsAssumption
<1>2. /\ S!Node(l) = S!Keys(l) \cup {Header}
      /\ Header \notin S!Keys(l) /\ None \notin S!Keys(l)
      /\ \A k \in S!Keys(l) : k \in Nat /\ k \in Key
    BY <1>1 DEF Sound, Shape, S!Keys
<1>3. ASSUME NEW n \in S!Node(l)
      PROVE  /\ DOMAIN l.forward[n] \subseteq 0..MaxLevel /\ 0 \in DOMAIN l.forward[n]
             /\ \A i \in DOMAIN l.forward[n] : /\ \A j \in 0..i : j \in DOMAIN l.forward[n]
                                               /\ l.forward[n][i] \in S!Keys(l) \cup {None}
    <2>1. PICK r \in 0..MaxLevel : l.forward[n] \in [0..r -> S!Keys(l) \cup {None}]
        BY <1>3 DEF Sound, Shape
    <2>2. DOMAIN l.forward[n] = 0..r
        BY <2>1
    <2> QED
        BY <1>1, <2>1, <2>2
<1> QED
    BY <1>1, <1>2, <1>3 DEF Sound, Shape

\* Where a search for k leaves level i: x is the last node before k.
Ends(l, k, i, x) ==
    /\ x \in S!Reach(l, i) /\ (x # Header => x < k)
    /\ l.forward[x][i] # None => l.forward[x][i] >= k

LEMMA EndsLast ==
    ASSUME NEW l, Sound(l), NEW k \in Key, NEW i, NEW x, Ends(l, k, i, x),
           NEW y \in S!Keys(l), i \in DOMAIN l.forward[y], y < k
    PROVE  x # Header /\ y <= x
<1>1. x \in S!Node(l) /\ i \in DOMAIN l.forward[x] /\ k \in Nat /\ y \in Nat /\ (x # Header => x \in Nat)
    BY Nodes, BoundsAssumption DEF Ends, S!Reach
<1>2. NextIs(l, x, i, l.forward[x][i])
    BY <1>1 DEF Sound
<1>3. ASSUME y \in Behind(l, x, i)
      PROVE  FALSE
    <2>1. l.forward[x][i] \in Behind(l, x, i) /\ l.forward[x][i] <= y
        BY <1>2, <1>3 DEF NextIs
    <2>2. l.forward[x][i] \in S!Keys(l)
        BY <2>1 DEF Behind
    <2>3. l.forward[x][i] # None /\ l.forward[x][i] \in Nat
        BY <2>2, Nodes
    <2> QED
        BY <1>1, <2>1, <2>3 DEF Ends
<1> QED
    BY <1>1, <1>3 DEF Behind

LEMMA EndsUnique ==
    ASSUME NEW l, Sound(l), NEW k \in Key, NEW i, NEW x, NEW y, Ends(l, k, i, x), Ends(l, k, i, y)
    PROVE  x = y
<1>1. /\ x \in S!Node(l) /\ i \in DOMAIN l.forward[x] /\ (x # Header => x < k)
      /\ y \in S!Node(l) /\ i \in DOMAIN l.forward[y] /\ (y # Header => y < k)
    BY DEF Ends, S!Reach
<1>2. (x # Header => x \in S!Keys(l) /\ x \in Nat) /\ (y # Header => y \in S!Keys(l) /\ y \in Nat)
    BY <1>1, Nodes
<1>3. x # Header => y # Header /\ x <= y
    BY <1>1, <1>2, EndsLast
<1>4. y # Header => x # Header /\ y <= x
    BY <1>1, <1>2, EndsLast
<1> QED
    BY <1>2, <1>3, <1>4

LEMMA EndsExists ==
    ASSUME NEW l, Sound(l), NEW k \in Key, NEW i \in 0..MaxLevel
    PROVE  \E x : Ends(l, k, i, x)
<1> DEFINE T == {y \in S!Keys(l) : i \in DOMAIN l.forward[y] /\ y < k}
<1>1. T \in SUBSET Nat /\ k \in Nat /\ \A y \in T : y < k
    BY Nodes, BoundsAssumption
<1>2. ASSUME NEW x \in S!Reach(l, i), x # Header => x < k, \A y \in T : x # Header /\ y <= x
      PROVE  Ends(l, k, i, x)
    <2>1. x \in S!Node(l) /\ i \in DOMAIN l.forward[x]
        BY <1>2 DEF S!Reach
    <2>2. NextIs(l, x, i, l.forward[x][i])
        BY <2>1 DEF Sound
    <2>3. ASSUME l.forward[x][i] # None
          PROVE  l.forward[x][i] >= k
        <3>1. l.forward[x][i] \in Behind(l, x, i)
            BY <2>2, <2>3 DEF NextIs
        <3>2. /\ l.forward[x][i] \in S!Keys(l) /\ i \in DOMAIN l.forward[l.forward[x][i]]
              /\ x # Header => l.forward[x][i] > x
            BY <3>1 DEF Behind
        <3>3. l.forward[x][i] \in Nat /\ (x # Header => x \in Nat)
            BY <2>1, <3>2, Nodes
        <3>4. l.forward[x][i] \notin T
            BY <1>2, <3>2, <3>3
        <3> QED
            BY <1>1, <3>2, <3>3, <3>4
    <2> QED
        BY <1>2, <2>3 DEF Ends
<1>3. CASE T = {}
    <2>1. Header \in S!Reach(l, i)
        BY Nodes DEF S!Reach
    <2> QED
        BY <1>2, <1>3, <2>1
<1>4. CASE T # {}
    <2>1. PICK x \in T : \A y \in T : y <= x
        BY <1>1, <1>4, GreatestExists
    <2>2. x \in S!Reach(l, i) /\ x # Header /\ x < k
        BY <2>1, Nodes DEF S!Reach
    <2> QED
        BY <1>2, <2>1, <2>2
<1> QED
    BY <1>3, <1>4

\* The loop of the search on one level.
LEMMA WalkEnds ==
    ASSUME NEW l, Sound(l), NEW k \in Key, NEW i \in 0..MaxLevel, NEW n \in S!Reach(l, i), n # Header => n < k
    PROVE  Ends(l, k, i, S!Walk(l, n, i, k))
<1> DEFINE D == S!Reach(l, i)
           next(m) == l.forward[m][i]
           Body(g) == [m \in D |-> IF next(m) # None /\ next(m) < k THEN g[next(m)] ELSE m]
           go == CHOOSE g : g = Body(g)
<1>1. S!Walk(l, n, i, k) = go[n]
    BY DEF S!Walk
<1>2. k \in Nat /\ D \subseteq S!Node(l) /\ \A m \in D : m # Header => m \in Nat /\ m \in S!Keys(l)
    BY Nodes, BoundsAssumption DEF S!Reach
<1>3. ASSUME NEW m \in D, next(m) # None
      PROVE  next(m) \in D /\ next(m) # Header /\ next(m) \in Nat /\ (m # Header => next(m) > m)
    <2>1. NextIs(l, m, i, next(m))
        BY <1>2 DEF Sound, S!Reach
    <2>2. next(m) \in Behind(l, m, i)
        BY <1>3, <2>1 DEF NextIs
    <2> QED
        BY <2>2, Nodes DEF Behind, S!Reach
<1>4. PICK e : Ends(l, k, i, e)
    BY EndsExists
<1>5. \E g : g = Body(g)
    <2> DEFINE g == [m \in D |-> IF next(m) # None /\ next(m) < k THEN e ELSE m]
    <2>1. ASSUME NEW m \in D, next(m) # None, next(m) < k
          PROVE  g[next(m)] = e
        <3>1. next(m) \in D /\ next(m) # Header
            BY <1>3, <2>1
        <3>2. CASE next(next(m)) # None /\ next(next(m)) < k
            BY <3>1, <3>2
        <3>3. CASE ~(next(next(m)) # None /\ next(next(m)) < k)
            <4>1. g[next(m)] = next(m)
                BY <3>1, <3>3
            <4>2. next(next(m)) # None => next(next(m)) >= k
                BY <1>2, <1>3, <3>1, <3>3
            <4>3. Ends(l, k, i, next(m))
                BY <2>1, <3>1, <4>2 DEF Ends
            <4> QED
                BY <1>4, <4>1, <4>3, EndsUnique
        <3> QED
            BY <3>2, <3>3
    <2>2. g = Body(g)
        BY <2>1
    <2> QED
        BY <2>2
<1>6. go = Body(go)
    BY <1>5
<1>7. \A m \in D : go[m] = IF next(m) # None /\ next(m) < k THEN go[next(m)] ELSE m
    BY <1>6
<1> HIDE DEF go, Body
<1> DEFINE Bad == {m \in D \ {Header} : m < k /\ ~Ends(l, k, i, go[m])}
<1>8. ASSUME NEW m \in D, m # Header => m < k, ~(next(m) # None /\ next(m) < k)
      PROVE  Ends(l, k, i, go[m])
    <2>1. go[m] = m
        BY <1>7, <1>8
    <2>2. next(m) # None => next(m) >= k
        BY <1>2, <1>3, <1>8
    <2> QED
        BY <1>8, <2>1, <2>2 DEF Ends
<1>9. Bad = {}
    <2> SUFFICES ASSUME Bad # {} PROVE FALSE
        OBVIOUS
    <2>1. Bad \in SUBSET Nat /\ \A y \in Bad : y < k
        BY <1>2
    <2>2. PICK m \in Bad : \A y \in Bad : y <= m
        BY <1>2, <2>1, GreatestExists
    <2>3. m \in D /\ m # Header /\ m < k /\ ~Ends(l, k, i, go[m]) /\ m \in Nat
        BY <2>1, <2>2
    <2>4. next(m) # None /\ next(m) < k
        BY <1>8, <2>3
    <2>5. next(m) \in D /\ next(m) # Header /\ next(m) \in Nat /\ next(m) > m
        BY <1>3, <2>3, <2>4
    <2>6. go[m] = go[next(m)]
        BY <1>7, <2>3, <2>4
    <2>7. next(m) \in Bad
        BY <2>3, <2>4, <2>5, <2>6
    <2> QED
        BY <2>2, <2>3, <2>5, <2>7
<1>10. \A m \in D \ {Header} : m < k => Ends(l, k, i, go[m])
    BY <1>9
<1>11. CASE ~(next(n) # None /\ next(n) < k)
    BY <1>1, <1>8, <1>11
<1>12. CASE next(n) # None /\ next(n) < k
    <2>1. go[n] = go[next(n)] /\ next(n) \in D /\ next(n) # Header
        BY <1>3, <1>7, <1>12
    <2> QED
        BY <1>1, <1>10, <1>12, <2>1
<1> QED
    BY <1>11, <1>12

\* The last node before k on level i.
Pred(l, k, i) == CHOOSE x : Ends(l, k, i, x)

LEMMA PredEnds ==
    ASSUME NEW l, Sound(l), NEW k \in Key, NEW i \in 0..MaxLevel
    PROVE  Ends(l, k, i, Pred(l, k, i)) /\ \A x : Ends(l, k, i, x) => x = Pred(l, k, i)
<1>1. Ends(l, k, i, Pred(l, k, i))
    BY EndsExists DEF Pred
<1> QED
    BY <1>1, EndsUnique

\* The array update.
LEMMA UpdateIs ==
    ASSUME NEW l, Sound(l), NEW k \in Key
    PROVE  S!Update(l, k) = [i \in 0..l.level |-> Pred(l, k, i)]
<1> DEFINE L == 0..l.level
           Body(g) == [i \in L |-> S!Walk(l, IF i = l.level THEN Header ELSE g[i + 1], i, k)]
           at == CHOOSE g : g = Body(g)
           preds == [i \in L |-> Pred(l, k, i)]
<1>1. S!Update(l, k) = at
    BY DEF S!Update
<1>2. l.level \in Nat /\ L \subseteq 0..MaxLevel /\ MaxLevel \in Nat
    BY Nodes DEF Sound, Levels
<1>3. \A i \in L : S!Walk(l, Header, i, k) = Pred(l, k, i)
    <2> SUFFICES ASSUME NEW i \in L PROVE S!Walk(l, Header, i, k) = Pred(l, k, i)
        OBVIOUS
    <2>1. i \in 0..MaxLevel /\ Header \in S!Reach(l, i)
        BY <1>2, Nodes DEF S!Reach
    <2>2. Ends(l, k, i, S!Walk(l, Header, i, k))
        BY <2>1, WalkEnds
    <2> QED
        BY <2>1, <2>2, PredEnds
<1>4. \A i \in L : i + 1 \in L => S!Walk(l, Pred(l, k, i + 1), i, k) = Pred(l, k, i)
    <2> SUFFICES ASSUME NEW i \in L, i + 1 \in L PROVE S!Walk(l, Pred(l, k, i + 1), i, k) = Pred(l, k, i)
        OBVIOUS
    <2> DEFINE n == Pred(l, k, i + 1)
    <2>1. i \in 0..MaxLevel /\ i + 1 \in 0..MaxLevel /\ i \in 0..(i + 1)
        BY <1>2
    <2>2. Ends(l, k, i + 1, n)
        BY <2>1, PredEnds
    <2>3. n \in S!Node(l) /\ i + 1 \in DOMAIN l.forward[n] /\ (n # Header => n < k)
        BY <2>2 DEF Ends, S!Reach
    <2>4. i \in DOMAIN l.forward[n]
        BY <2>1, <2>3, Nodes
    <2>5. n \in S!Reach(l, i)
        BY <2>3, <2>4 DEF S!Reach
    <2> HIDE DEF n
    <2>6. Ends(l, k, i, S!Walk(l, n, i, k))
        BY <2>1, <2>3, <2>5, WalkEnds
    <2>7. S!Walk(l, n, i, k) = Pred(l, k, i)
        BY <2>1, <2>6, PredEnds
    <2> QED
        BY <2>7 DEF n
<1>5. \A i \in L : i # l.level => i + 1 \in L
    BY <1>2
<1>6. \E g : g = Body(g)
    <2>1. \A i \in L : preds[i] = S!Walk(l, IF i = l.level THEN Header ELSE preds[i + 1], i, k)
        BY <1>3, <1>4, <1>5
    <2>2. preds = Body(preds)
        BY <2>1
    <2> QED
        BY <2>2
<1>7. at = Body(at)
    BY <1>6
<1>8. \A i \in L : at[i] = S!Walk(l, IF i = l.level THEN Header ELSE at[i + 1], i, k)
    BY <1>7
<1>9. at = [i \in L |-> at[i]]
    BY <1>7
<1> HIDE DEF at, Body
<1> DEFINE Bad == {i \in L : at[i] # Pred(l, k, i)}
<1>10. Bad = {}
    <2> SUFFICES ASSUME Bad # {} PROVE FALSE
        OBVIOUS
    <2>1. Bad \in SUBSET Nat /\ l.level + 1 \in Nat /\ \A y \in Bad : y < l.level + 1
        BY <1>2
    <2>2. PICK i \in Bad : \A y \in Bad : y <= i
        BY <2>1, GreatestExists
    <2>3. i \in L /\ at[i] # Pred(l, k, i) /\ i \in Nat
        BY <2>1, <2>2
    <2>4. i # l.level
        BY <1>3, <1>8, <2>3
    <2>5. i + 1 \in L
        BY <1>5, <2>3, <2>4
    <2>6. at[i + 1] = Pred(l, k, i + 1)
        BY <2>2, <2>3, <2>5
    <2>7. at[i] = Pred(l, k, i)
        BY <1>4, <1>8, <2>3, <2>4, <2>5, <2>6
    <2> QED
        BY <2>3, <2>7
<1>11. \A i \in L : at[i] = Pred(l, k, i)
    BY <1>10
<1> QED
    BY <1>1, <1>9, <1>11

\* What lies behind the node where a search ends.
LEMMA NextAtEnd ==
    ASSUME NEW l, Sound(l), NEW k \in Key, NEW i \in 0..MaxLevel, NEW x, Ends(l, k, i, x)
    PROVE  IF k \in S!Keys(l) /\ i \in DOMAIN l.forward[k] THEN l.forward[x][i] = k
           ELSE l.forward[x][i] = None \/ (l.forward[x][i] \in S!Keys(l) /\ l.forward[x][i] > k)
<1>1. /\ x \in S!Node(l) /\ i \in DOMAIN l.forward[x] /\ (x # Header => x < k)
      /\ l.forward[x][i] # None => l.forward[x][i] >= k
    BY DEF Ends, S!Reach
<1>2. NextIs(l, x, i, l.forward[x][i])
    BY <1>1 DEF Sound
<1>3. k \in Nat /\ (x # Header => x \in Nat)
    BY <1>1, Nodes, BoundsAssumption
<1>4. CASE k \in S!Keys(l) /\ i \in DOMAIN l.forward[k]
    <2>1. k \in Behind(l, x, i)
        BY <1>1, <1>3, <1>4 DEF Behind
    <2>2. l.forward[x][i] \in Behind(l, x, i) /\ l.forward[x][i] <= k
        BY <1>2, <2>1 DEF NextIs
    <2>3. l.forward[x][i] \in S!Keys(l)
        BY <2>2 DEF Behind
    <2>4. l.forward[x][i] \in Nat /\ l.forward[x][i] # None
        BY <2>3, Nodes
    <2> QED
        BY <1>1, <1>3, <1>4, <2>2, <2>4
<1>5. CASE ~(k \in S!Keys(l) /\ i \in DOMAIN l.forward[k])
    <2>1. CASE l.forward[x][i] # None
        <3>1. l.forward[x][i] \in Behind(l, x, i)
            BY <1>2, <2>1 DEF NextIs
        <3>2. l.forward[x][i] \in S!Keys(l) /\ i \in DOMAIN l.forward[l.forward[x][i]]
            BY <3>1 DEF Behind
        <3>3. l.forward[x][i] \in Nat /\ l.forward[x][i] >= k /\ l.forward[x][i] # k
            BY <1>1, <1>5, <2>1, <3>2, Nodes
        <3> QED
            BY <1>3, <1>5, <3>2, <3>3
    <2> QED
        BY <1>5, <2>1
<1> QED
    BY <1>4, <1>5

LEMMA FoundIs ==
    ASSUME NEW l, Sound(l), NEW k \in Key
    PROVE  S!Found(l, k) = k <=> k \in S!Keys(l)
<1>1. 0 \in 0..l.level /\ 0 \in 0..MaxLevel
    BY Nodes DEF Sound, Levels
<1>2. S!Found(l, k) = l.forward[Pred(l, k, 0)][0]
    BY <1>1, UpdateIs DEF S!Found
<1>3. Ends(l, k, 0, Pred(l, k, 0))
    BY <1>1, PredEnds
<1>4. k \in S!Keys(l) => 0 \in DOMAIN l.forward[k]
    BY Nodes
<1>5. k # None /\ k \in Nat
    BY BoundsAssumption
<1> QED
    BY <1>1, <1>2, <1>3, <1>4, <1>5, NextAtEnd

LEMMA SearchIs ==
    ASSUME NEW l, Sound(l), NEW k \in Key
    PROVE  S!search_element(l, k) = IF k \in S!Keys(l) THEN l.value[k] ELSE None
BY FoundIs DEF S!search_element

-----------------------------------------------------------------------------
(* insert_element *)

LEMMA GreatestIs ==
    ASSUME NEW T \in SUBSET Int, NEW x \in T, \A y \in T : y <= x
    PROVE  S!Max(T) = x
<1>1. \A z \in T : (\A y \in T : z >= y) => z = x
    OBVIOUS
<1>2. x \in T /\ \A y \in T : x >= y
    OBVIOUS
<1> QED
    BY <1>1, <1>2 DEF S!Max

\* On the levels above all nodes the search ends at the header.
LEMMA PredAbove ==
    ASSUME NEW l, Sound(l), NEW k \in Key, NEW i \in 0..MaxLevel, i > l.level
    PROVE  Pred(l, k, i) = Header
<1>1. Behind(l, Header, i) = {}
    BY DEF Behind, Sound, Levels
<1>2. Header \in S!Node(l) /\ i \in DOMAIN l.forward[Header]
    BY Nodes
<1>3. l.forward[Header][i] = None
    BY <1>1, <1>2 DEF Sound, NextIs
<1>4. Ends(l, k, i, Header)
    BY <1>2, <1>3 DEF Ends, S!Reach
<1> QED
    BY <1>4, PredEnds

\* What insert_element makes of the pointers of a list.
Linked(l, k, r) ==
    [n \in S!Node(l) \cup {k} |->
        IF n = k THEN [i \in 0..r |-> l.forward[Pred(l, k, i)][i]]
        ELSE [i \in DOMAIN l.forward[n] |->
                 IF i <= r /\ n = Pred(l, k, i) THEN k ELSE l.forward[n][i]]]

LEMMA InsertIs ==
    ASSUME NEW l, Sound(l), NEW k \in Key, k \notin S!Keys(l), NEW v, NEW r \in 1..MaxLevel
    PROVE  S!insert_element(l, k, v, r) =
              [forward |-> Linked(l, k, r),
               value |-> [n \in S!Keys(l) \cup {k} |-> IF n = k THEN v ELSE l.value[n]],
               level |-> S!Max({l.level, r}),
               count |-> l.count + 1]
<1> DEFINE update == S!Update(l, k)
           before(i) == IF i > l.level THEN Header ELSE update[i]
           F == [n \in S!Node(l) \cup {k} |->
                    IF n = k THEN [i \in 0..r |-> l.forward[before(i)][i]]
                    ELSE [i \in DOMAIN l.forward[n] |->
                             IF i <= r /\ n = before(i) THEN k ELSE l.forward[n][i]]]
<1>1. S!Found(l, k) # k
    BY FoundIs
<1>2. S!insert_element(l, k, v, r) =
              [forward |-> F,
               value |-> [n \in S!Keys(l) \cup {k} |-> IF n = k THEN v ELSE l.value[n]],
               level |-> S!Max({l.level, r}),
               count |-> l.count + 1]
    BY <1>1 DEF S!insert_element
<1>3. ASSUME NEW i \in 0..MaxLevel
      PROVE  before(i) = Pred(l, k, i)
    <2>1. l.level \in Nat /\ MaxLevel \in Nat
        BY Nodes DEF Sound, Levels
    <2>2. CASE i > l.level
        BY <2>2, PredAbove
    <2>3. CASE ~(i > l.level)
        <3>1. i \in 0..l.level
            BY <2>1, <2>3
        <3> QED
            BY <2>3, <3>1, UpdateIs
    <2> QED
        BY <2>2, <2>3
<1>4. 0..r \subseteq 0..MaxLevel
    BY Nodes
<1>5. [i \in 0..r |-> l.forward[before(i)][i]] = [i \in 0..r |-> l.forward[Pred(l, k, i)][i]]
    BY <1>3, <1>4
<1>6. ASSUME NEW n \in S!Node(l)
      PROVE  [i \in DOMAIN l.forward[n] |-> IF i <= r /\ n = before(i) THEN k ELSE l.forward[n][i]]
                = [i \in DOMAIN l.forward[n] |-> IF i <= r /\ n = Pred(l, k, i) THEN k ELSE l.forward[n][i]]
    <2>1. DOMAIN l.forward[n] \subseteq 0..MaxLevel
        BY Nodes
    <2>2. \A i \in DOMAIN l.forward[n] : before(i) = Pred(l, k, i)
        BY <1>3, <2>1
    <2> HIDE DEF before
    <2> QED
        BY <2>2
<1> HIDE DEF before
<1>7. F = Linked(l, k, r)
    BY <1>5, <1>6 DEF Linked
<1> QED
    BY <1>2, <1>7

\* The pointers before k, behind it, and k's own.
LEMMA InsertPointers ==
    ASSUME NEW l, Sound(l), NEW k \in Key, k \notin S!Keys(l), NEW r \in 1..MaxLevel,
           NEW u, u.forward = Linked(l, k, r)
    PROVE  /\ S!Node(u) = S!Node(l) \cup {k} /\ S!Keys(u) = S!Keys(l) \cup {k}
           /\ DOMAIN u.forward[k] = 0..r
           /\ \A n \in S!Node(l) : DOMAIN u.forward[n] = DOMAIN l.forward[n]
           /\ \A n \in S!Node(u) : \A i \in DOMAIN u.forward[n] : NextIs(u, n, i, u.forward[n][i])
<1>1. k \in Nat /\ k # Header /\ k # None /\ k \notin S!Node(l) /\ MaxLevel \in Nat /\ r \in Nat
    BY BoundsAssumption, Nodes
<1>2. S!Node(u) = S!Node(l) \cup {k}
    BY DEF Linked, S!Node
<1>3. S!Keys(u) = S!Keys(l) \cup {k}
    BY <1>1, <1>2 DEF S!Keys
<1>4. /\ DOMAIN u.forward[k] = 0..r
      /\ \A i \in 0..r : u.forward[k][i] = l.forward[Pred(l, k, i)][i]
    BY DEF Linked
<1>5. ASSUME NEW n \in S!Node(l)
      PROVE  /\ DOMAIN u.forward[n] = DOMAIN l.forward[n]
             /\ \A i \in DOMAIN l.forward[n] :
                   u.forward[n][i] = IF i <= r /\ n = Pred(l, k, i) THEN k ELSE l.forward[n][i]
    BY <1>1 DEF Linked
<1>6. ASSUME NEW i \in 0..MaxLevel, NEW n
      PROVE  Behind(u, n, i) = Behind(l, n, i) \cup {y \in {k} : i <= r /\ (n # Header => k > n)}
    <2>1. \A y \in S!Keys(l) : i \in DOMAIN u.forward[y] <=> i \in DOMAIN l.forward[y]
        BY <1>5, Nodes
    <2>2. i \in DOMAIN u.forward[k] <=> i <= r
        BY <1>1, <1>4
    <2> QED
        BY <1>3, <2>1, <2>2 DEF Behind
<1>7. ASSUME NEW i \in 0..r
      PROVE  NextIs(u, k, i, u.forward[k][i])
    <2> DEFINE x == Pred(l, k, i)
               y == l.forward[x][i]
    <2>1. i \in 0..MaxLevel /\ i <= r
        BY <1>1
    <2>2. Ends(l, k, i, x)
        BY <2>1, PredEnds
    <2>3. x \in S!Node(l) /\ i \in DOMAIN l.forward[x] /\ (x # Header => x < k /\ x \in Nat)
        BY <2>2, Nodes DEF Ends, S!Reach
    <2>4. NextIs(l, x, i, y)
        BY <2>3 DEF Sound
    <2>5. y = None \/ (y \in S!Keys(l) /\ y > k)
        BY <2>1, <2>2, NextAtEnd
    <2>6. u.forward[k][i] = y
        BY <1>4
    <2>7. Behind(u, k, i) = Behind(l, k, i)
        <3>1. ~(k # Header => k > k)
            BY <1>1
        <3> QED
            BY <1>6, <2>1, <3>1
    <2>8. Behind(l, k, i) \subseteq Behind(l, x, i)
        <3>1. \A z \in S!Keys(l) : z \in Nat
            BY Nodes
        <3> QED
            BY <1>1, <2>3, <3>1 DEF Behind
    <2>9. y # None => y \in Behind(l, k, i)
        <3> SUFFICES ASSUME y # None PROVE y \in Behind(l, k, i)
            OBVIOUS
        <3>1. y \in Behind(l, x, i)
            BY <2>4 DEF NextIs
        <3> QED
            BY <2>5, <3>1 DEF Behind
    <2>10. y = None => Behind(l, x, i) = {}
        BY <2>4, Nodes DEF NextIs, Behind
    <2> HIDE DEF x, y
    <2> QED
        BY <2>4, <2>6, <2>7, <2>8, <2>9, <2>10 DEF NextIs
<1>8. ASSUME NEW n \in S!Node(l), NEW i \in DOMAIN l.forward[n]
      PROVE  NextIs(u, n, i, u.forward[n][i])
    <2> DEFINE x == Pred(l, k, i)
               z == l.forward[n][i]
    <2>1. i \in 0..MaxLevel
        BY Nodes
    <2>2. Ends(l, k, i, x) /\ \A y : Ends(l, k, i, y) => y = x
        BY <2>1, PredEnds
    <2>3. NextIs(l, n, i, z)
        BY DEF Sound
    <2>4. (n # Header => n \in Nat) /\ \A y \in S!Keys(l) : y \in Nat
        BY Nodes
    <2>5. u.forward[n][i] = IF i <= r /\ n = x THEN k ELSE z
        BY <1>5
    <2>6. Behind(u, n, i) = Behind(l, n, i) \cup {y \in {k} : i <= r /\ (n # Header => k > n)}
        BY <1>6, <2>1
    <2>7. Behind(l, n, i) \subseteq S!Keys(l)
        BY DEF Behind
    <2>8. z = None <=> Behind(l, n, i) = {}
        BY <2>3, <2>7, Nodes DEF NextIs
    <2> HIDE DEF x
    <2>9. CASE i <= r /\ n = x
        <3>1. (n # Header => k > n) /\ (z = None \/ z > k)
            BY <1>1, <2>1, <2>2, <2>4, <2>9, NextAtEnd DEF Ends
        <3>2. Behind(u, n, i) = Behind(l, n, i) \cup {k}
            BY <2>6, <2>9, <3>1
        <3>3. \A y \in Behind(l, n, i) : k <= y
            <4> SUFFICES ASSUME NEW y \in Behind(l, n, i) PROVE k <= y
                OBVIOUS
            <4>1. z \in Behind(l, n, i) /\ z <= y /\ z # None
                BY <2>3, <2>8 DEF NextIs
            <4>2. z \in Nat /\ y \in Nat
                BY <2>4, <2>7, <4>1
            <4> QED
                BY <1>1, <3>1, <4>1, <4>2
        <3> QED
            BY <1>1, <2>5, <2>9, <3>2, <3>3 DEF NextIs
    <2>10. CASE ~(i <= r /\ n = x) /\ i <= r /\ (n # Header => k > n)
        <3>1. ~Ends(l, k, i, n)
            BY <2>2, <2>10
        <3>2. n \in S!Reach(l, i)
            BY DEF S!Reach
        <3>3. z # None /\ ~(z >= k)
            BY <1>1, <2>4, <2>10, <3>1, <3>2 DEF Ends
        <3>4. z \in Behind(l, n, i) /\ \A y \in Behind(l, n, i) : z <= y
            BY <2>3, <2>8, <3>3 DEF NextIs
        <3>5. z \in Nat
            BY <2>4, <2>7, <3>4
        <3>6. z <= k
            BY <1>1, <3>3, <3>5
        <3> QED
            BY <2>5, <2>6, <2>10, <3>4, <3>6 DEF NextIs
    <2>11. CASE ~(i <= r /\ (n # Header => k > n))
        <3>1. n = x => ~(i <= r)
            BY <1>1, <2>2, <2>4, <2>11 DEF Ends
        <3>2. Behind(u, n, i) = Behind(l, n, i)
            BY <2>6, <2>11
        <3> QED
            BY <2>3, <2>5, <3>1, <3>2 DEF NextIs
    <2> QED
        BY <2>9, <2>10, <2>11
<1>9. \A n \in S!Node(u) : \A i \in DOMAIN u.forward[n] : NextIs(u, n, i, u.forward[n][i])
    BY <1>2, <1>4, <1>5, <1>7, <1>8
<1> QED
    BY <1>2, <1>3, <1>4, <1>5, <1>9

\* A key that the list has not.
LEMMA InsertSound ==
    ASSUME NEW l, Sound(l), NEW k \in Key, k \notin S!Keys(l), NEW v \in Value \cup Key, NEW r \in 1..MaxLevel,
           NEW u, u = S!insert_element(l, k, v, r)
    PROVE  /\ Sound(u) /\ S!Keys(u) = S!Keys(l) \cup {k}
           /\ u.value[k] = v /\ \A n \in S!Keys(l) : u.value[n] = l.value[n]
<1>1. u = [forward |-> Linked(l, k, r),
           value |-> [n \in S!Keys(l) \cup {k} |-> IF n = k THEN v ELSE l.value[n]],
           level |-> S!Max({l.level, r}),
           count |-> l.count + 1]
    BY InsertIs
<1>2. /\ u.forward = Linked(l, k, r)
      /\ u.value = [n \in S!Keys(l) \cup {k} |-> IF n = k THEN v ELSE l.value[n]]
      /\ u.level = S!Max({l.level, r}) /\ u.count = l.count + 1
      /\ u = [forward |-> u.forward, value |-> u.value, level |-> u.level, count |-> u.count]
    BY <1>1
<1>3. /\ S!Node(u) = S!Node(l) \cup {k} /\ S!Keys(u) = S!Keys(l) \cup {k}
      /\ DOMAIN u.forward[k] = 0..r
      /\ \A n \in S!Node(l) : DOMAIN u.forward[n] = DOMAIN l.forward[n]
      /\ \A n \in S!Node(u) : \A i \in DOMAIN u.forward[n] : NextIs(u, n, i, u.forward[n][i])
    BY <1>2, InsertPointers
<1>4. k \in Nat /\ k # Header /\ MaxLevel \in Nat /\ r \in 0..MaxLevel /\ r \in Nat /\ l.level \in Nat
      /\ l.level \in 0..MaxLevel
    BY BoundsAssumption, Nodes DEF Sound, Levels
<1>5. u.value \in [S!Keys(u) -> Value \cup Key] /\ u.value[k] = v
      /\ \A n \in S!Keys(l) : u.value[n] = l.value[n]
    BY <1>2, <1>3 DEF Sound, Shape
<1>6. IsFiniteSet(S!Keys(u)) /\ u.count = Cardinality(S!Keys(u))
    BY <1>2, <1>3, FS_AddElement DEF Sound, Shape
<1>7. ASSUME NEW n \in S!Node(u)
      PROVE  \E q \in 0..MaxLevel : u.forward[n] \in [0..q -> S!Keys(u) \cup {None}]
    <2>1. \A i \in DOMAIN u.forward[n] : u.forward[n][i] \in S!Keys(u) \cup {None}
        BY <1>3 DEF NextIs, Behind
    <2>2. u.forward[n] = [i \in DOMAIN u.forward[n] |-> u.forward[n][i]]
        BY <1>2, <1>3 DEF Linked
    <2>3. \E q \in 0..MaxLevel : DOMAIN u.forward[n] = 0..q
        <3>1. CASE n = k
            BY <1>3, <1>4, <3>1
        <3>2. CASE n \in S!Node(l)
            BY <1>3, <3>2 DEF Sound, Shape
        <3> QED
            BY <1>3, <3>1, <3>2
    <2> QED
        BY <2>1, <2>2, <2>3
<1>8. Shape(u)
    <2>1. Header \in S!Node(u) /\ S!Keys(u) \subseteq Key
        BY <1>3 DEF Sound, Shape
    <2>2. DOMAIN u.forward[Header] = 0..MaxLevel
        BY <1>3 DEF Sound, Shape
    <2> QED
        BY <1>2, <1>5, <1>6, <1>7, <2>1, <2>2 DEF Shape
<1>9. u.level = IF l.level >= r THEN l.level ELSE r
    <2>1. {l.level, r} \in SUBSET Int
        BY <1>4
    <2>2. CASE l.level >= r
        BY <1>2, <1>4, <2>1, <2>2, GreatestIs
    <2>3. CASE ~(l.level >= r)
        BY <1>2, <1>4, <2>1, <2>3, GreatestIs
    <2> QED
        BY <2>2, <2>3
<1>10. Levels(u)
    <2>1. u.level \in 0..MaxLevel /\ l.level <= u.level /\ r <= u.level /\ u.level \in Nat
        BY <1>4, <1>9
    <2>2. ASSUME NEW y \in S!Keys(u)
          PROVE  DOMAIN u.forward[y] \subseteq 0..u.level
        <3>1. CASE y = k
            BY <1>3, <1>4, <2>1, <3>1
        <3>2. CASE y \in S!Keys(l)
            <4>1. DOMAIN u.forward[y] = DOMAIN l.forward[y] /\ DOMAIN l.forward[y] \subseteq 0..l.level
                BY <1>3, <3>2, Nodes DEF Sound, Levels
            <4> QED
                BY <1>4, <2>1, <4>1
        <3> QED
            BY <1>3, <3>1, <3>2
    <2>3. u.level > 0 => \E y \in S!Keys(u) : u.level \in DOMAIN u.forward[y]
        <3>1. CASE u.level = r
            BY <1>3, <1>4, <3>1
        <3>2. CASE u.level = l.level
            <4>1. l.level > 0 => \E y \in S!Keys(l) : l.level \in DOMAIN l.forward[y]
                BY DEF Sound, Levels
            <4>2. \A y \in S!Keys(l) : DOMAIN u.forward[y] = DOMAIN l.forward[y]
                BY <1>3, Nodes
            <4> QED
                BY <1>3, <3>2, <4>1, <4>2
        <3> QED
            BY <1>9, <3>1, <3>2
    <2> QED
        BY <2>1, <2>2, <2>3 DEF Levels
<1> QED
    BY <1>3, <1>5, <1>8, <1>10 DEF Sound

\* A key that the list has already: insert_element does nothing.
LEMMA InsertKeeps ==
    ASSUME NEW l, Sound(l), NEW k \in Key, k \in S!Keys(l), NEW v, NEW r
    PROVE  S!insert_element(l, k, v, r) = l
BY FoundIs DEF S!insert_element

-----------------------------------------------------------------------------
(* delete_element *)

\* What delete_element makes of the pointers of a list.
Cleared(l, k) ==
    [n \in S!Node(l) |-> [i \in DOMAIN l.forward[n] |->
        IF i \in DOMAIN l.forward[k] /\ n = Pred(l, k, i) THEN l.forward[k][i] ELSE l.forward[n][i]]]

\* The levels on which the search stops right before k are k's.
LEMMA UnlinkedIs ==
    ASSUME NEW l, Sound(l), NEW k \in S!Keys(l)
    PROVE  S!Unlinked(l, k) = DOMAIN l.forward[k]
<1>1. k \in Key /\ l.level \in Nat /\ l.level \in 0..MaxLevel /\ DOMAIN l.forward[k] \subseteq 0..l.level
      /\ MaxLevel \in Nat /\ k # None /\ k \in Nat
    BY Nodes DEF Sound, Levels
<1>2. ASSUME NEW j \in 0..l.level
      PROVE  l.forward[S!Update(l, k)[j]][j] = k <=> j \in DOMAIN l.forward[k]
    <2>1. S!Update(l, k)[j] = Pred(l, k, j) /\ j \in 0..MaxLevel
        BY <1>1, UpdateIs
    <2>2. Ends(l, k, j, Pred(l, k, j))
        BY <1>1, <2>1, PredEnds
    <2> QED
        BY <1>1, <2>1, <2>2, NextAtEnd
<1>3. S!Unlinked(l, k) = {i \in 0..l.level : \A j \in 0..i : l.forward[S!Update(l, k)[j]][j] = k}
    BY DEF S!Unlinked
<1>4. \A i \in 0..l.level : \A j \in 0..i : j \in 0..l.level
    BY <1>1
<1>5. \A i \in DOMAIN l.forward[k] : i \in 0..l.level /\ \A j \in 0..i : j \in DOMAIN l.forward[k]
    BY <1>1, Nodes
<1>6. \A i \in 0..l.level : i \in 0..i
    BY <1>1
<1> QED
    BY <1>2, <1>3, <1>4, <1>5, <1>6

LEMMA DeleteIs ==
    ASSUME NEW l, Sound(l), NEW k \in S!Keys(l)
    PROVE  S!delete_element(l, k) =
              [forward |-> [n \in S!Node(l) \ {k} |-> Cleared(l, k)[n]],
               value |-> [n \in S!Keys(l) \ {k} |-> l.value[n]],
               level |-> S!TopLevel([l EXCEPT !.forward = Cleared(l, k)]),
               count |-> l.count - 1]
<1> DEFINE update == S!Update(l, k)
           unlinked == S!Unlinked(l, k)
           F == [n \in S!Node(l) |-> [i \in DOMAIN l.forward[n] |->
                    IF i \in unlinked /\ n = update[i] THEN l.forward[k][i] ELSE l.forward[n][i]]]
           cut == [l EXCEPT !.forward = F]
<1>1. k \in Key /\ S!Found(l, k) = k
    BY Nodes, FoundIs
<1>2. S!delete_element(l, k) =
              [forward |-> [n \in S!Node(l) \ {k} |-> cut.forward[n]],
               value |-> [n \in S!Keys(l) \ {k} |-> l.value[n]],
               level |-> S!TopLevel(cut),
               count |-> l.count - 1]
    BY <1>1 DEF S!delete_element
<1>3. unlinked = DOMAIN l.forward[k]
    BY UnlinkedIs
<1>4. \A i \in unlinked : update[i] = Pred(l, k, i)
    <2>1. DOMAIN l.forward[k] \subseteq 0..l.level
        BY DEF Sound, Levels
    <2> QED
        BY <1>1, <1>3, <2>1, UpdateIs
<1> HIDE DEF update, unlinked
<1>5. F = Cleared(l, k)
    BY <1>3, <1>4 DEF Cleared
<1> HIDE DEF F
<1>6. cut = [l EXCEPT !.forward = Cleared(l, k)] /\ cut.forward = Cleared(l, k)
    BY <1>5 DEF Sound, Shape
<1> HIDE DEF cut
<1> QED
    BY <1>2, <1>6

\* The pointer to k becomes k's own.
LEMMA DeletePointers ==
    ASSUME NEW l, Sound(l), NEW k \in S!Keys(l),
           NEW u, u.forward = [n \in S!Node(l) \ {k} |-> Cleared(l, k)[n]]
    PROVE  /\ S!Node(u) = S!Node(l) \ {k} /\ S!Keys(u) = S!Keys(l) \ {k}
           /\ \A n \in S!Node(u) : DOMAIN u.forward[n] = DOMAIN l.forward[n]
           /\ \A n \in S!Node(u) : \A i \in DOMAIN u.forward[n] : NextIs(u, n, i, u.forward[n][i])
<1>1. k \in Nat /\ k \in Key /\ k # Header /\ k # None /\ k \in S!Node(l) /\ MaxLevel \in Nat
    BY Nodes
<1>2. S!Node(u) = S!Node(l) \ {k}
    BY DEF S!Node
<1>3. S!Keys(u) = S!Keys(l) \ {k}
    BY <1>2 DEF S!Keys
<1>4. ASSUME NEW n \in S!Node(l), n # k
      PROVE  /\ DOMAIN u.forward[n] = DOMAIN l.forward[n]
             /\ \A i \in DOMAIN l.forward[n] :
                   u.forward[n][i] = IF i \in DOMAIN l.forward[k] /\ n = Pred(l, k, i)
                                     THEN l.forward[k][i] ELSE l.forward[n][i]
    BY <1>4 DEF Cleared
<1>5. ASSUME NEW i, NEW n
      PROVE  Behind(u, n, i) = Behind(l, n, i) \ {k}
    <2>1. \A y \in S!Keys(u) : DOMAIN u.forward[y] = DOMAIN l.forward[y]
        BY <1>3, <1>4, Nodes
    <2> QED
        BY <1>3, <2>1 DEF Behind
<1>6. ASSUME NEW n \in S!Node(l), n # k, NEW i \in DOMAIN l.forward[n]
      PROVE  NextIs(u, n, i, u.forward[n][i])
    <2> DEFINE x == Pred(l, k, i)
               z == l.forward[n][i]
               y == l.forward[k][i]
    <2>1. i \in 0..MaxLevel
        BY Nodes
    <2>2. Ends(l, k, i, x) /\ \A w : Ends(l, k, i, w) => w = x
        BY <1>1, <2>1, PredEnds
    <2>3. NextIs(l, n, i, z)
        BY DEF Sound
    <2>4. (n # Header => n \in Nat) /\ \A w \in S!Keys(l) : w \in Nat
        BY <1>6, Nodes
    <2>5. u.forward[n][i] = IF i \in DOMAIN l.forward[k] /\ n = x THEN y ELSE z
        BY <1>4, <1>6
    <2>6. Behind(u, n, i) = Behind(l, n, i) \ {k}
        BY <1>5
    <2>7. Behind(l, n, i) \subseteq S!Keys(l)
        BY DEF Behind
    <2>8. z = k => z \in Behind(l, n, i)
        BY <1>1, <2>3 DEF NextIs
    <2> HIDE DEF x
    <2>9. CASE i \in DOMAIN l.forward[k] /\ n = x
        <3>1. z = k
            BY <1>1, <2>1, <2>2, <2>9, NextAtEnd
        <3>2. NextIs(l, k, i, y)
            BY <1>1, <2>9 DEF Sound
        <3>3. \A w \in Behind(l, n, i) : k <= w
            BY <2>3, <2>8, <3>1 DEF NextIs
        <3>4. \A w \in Behind(l, n, i) : w # k => w \in Behind(l, k, i)
            <4>1. \A w \in Behind(l, n, i) : w # k => w > k
                <5> SUFFICES ASSUME NEW w \in Behind(l, n, i), w # k PROVE w > k
                    OBVIOUS
                <5>1. w \in Nat /\ k <= w
                    BY <2>4, <2>7, <3>3
                <5> QED
                    BY <1>1, <5>1
            <4> QED
                BY <4>1 DEF Behind
        <3>5. \A w \in Behind(l, k, i) : w \in Behind(l, n, i) /\ w # k
            <4>1. n # Header => n < k
                BY <2>8, <3>1, <1>1, <2>4 DEF Behind
            <4>2. \A w \in Behind(l, k, i) : w \in S!Keys(l) /\ i \in DOMAIN l.forward[w] /\ w > k
                BY <1>1 DEF Behind
            <4>3. \A w \in Behind(l, k, i) : w # k /\ (n # Header => w > n)
                <5> SUFFICES ASSUME NEW w \in Behind(l, k, i)
                             PROVE  w # k /\ (n # Header => w > n)
                    OBVIOUS
                <5>1. w \in Nat /\ w > k
                    BY <2>4, <4>2
                <5> QED
                    BY <1>1, <2>4, <4>1, <5>1
            <4> QED
                BY <4>2, <4>3 DEF Behind
        <3>6. Behind(u, n, i) = Behind(l, k, i)
            BY <2>6, <3>4, <3>5
        <3> QED
            BY <2>5, <2>9, <3>2, <3>6 DEF NextIs
    <2>10. CASE ~(i \in DOMAIN l.forward[k] /\ n = x)
        <3>1. ASSUME z = k PROVE FALSE
            <4>1. i \in DOMAIN l.forward[k] /\ (n # Header => n < k)
                BY <1>1, <2>4, <2>8, <3>1 DEF Behind
            <4>2. Ends(l, k, i, n)
                BY <1>1, <3>1, <4>1 DEF Ends, S!Reach
            <4> QED
                BY <2>2, <2>10, <4>1, <4>2
        <3>2. CASE Behind(l, n, i) = {}
            BY <2>3, <2>5, <2>6, <2>10, <3>2 DEF NextIs
        <3>3. CASE Behind(l, n, i) # {}
            <4>1. z \in Behind(l, n, i) /\ \A w \in Behind(l, n, i) : z <= w
                BY <2>3, <3>3 DEF NextIs
            <4>2. z \in Behind(u, n, i) /\ \A w \in Behind(u, n, i) : z <= w
                BY <2>6, <3>1, <4>1
            <4> QED
                BY <2>5, <2>10, <4>2 DEF NextIs
        <3> QED
            BY <3>2, <3>3
    <2> QED
        BY <2>9, <2>10
<1> QED
    BY <1>2, <1>3, <1>4, <1>6

\* The greatest level that has a node, of a list whose pointers are sound.
LEMMA TopLevelIs ==
    ASSUME NEW w, NEW f, w.level \in 0..MaxLevel, w.forward[Header] = f,
           NEW K, NEW D, \A i \in 0..w.level : f[i] # None <=> \E y \in K : i \in D[y]
    PROVE  /\ S!TopLevel(w) \in 0..w.level
           /\ \A y \in K : \A i \in D[y] : i \in 0..w.level => i <= S!TopLevel(w)
           /\ S!TopLevel(w) > 0 => \E y \in K : S!TopLevel(w) \in D[y]
<1> DEFINE T == {0} \cup {i \in 0..w.level : w.forward[Header][i] # None}
<1>1. MaxLevel \in Nat /\ w.level \in Nat
    BY BoundsAssumption
<1>2. T \in SUBSET Nat /\ T # {} /\ \A y \in T : y < w.level + 1
    BY <1>1
<1>3. T \subseteq 0..w.level /\ \A i \in T : i # 0 => f[i] # None
    BY <1>1
<1>4. \A i \in 0..w.level : f[i] # None => i \in T
    OBVIOUS
<1>5. S!TopLevel(w) = S!Max(T)
    BY DEF S!TopLevel
<1> HIDE DEF T
<1>6. PICK x \in T : \A y \in T : y <= x
    <2> DEFINE b == w.level + 1
    <2>1. b \in Nat /\ \A y \in T : y < b
        BY <1>1, <1>2
    <2> HIDE DEF b
    <2> QED
        BY <1>2, <2>1, GreatestExists
<1>7. S!Max(T) = x
    BY <1>2, <1>6, GreatestIs
<1>8. S!TopLevel(w) = x
    BY <1>5, <1>7
<1> QED
    BY <1>1, <1>3, <1>4, <1>6, <1>8

\* A key that the list has.
LEMMA DeleteSound ==
    ASSUME NEW l, Sound(l), NEW k \in S!Keys(l), NEW u, u = S!delete_element(l, k)
    PROVE  /\ Sound(u) /\ S!Keys(u) = S!Keys(l) \ {k}
           /\ \A n \in S!Keys(u) : u.value[n] = l.value[n]
<1> DEFINE w == [l EXCEPT !.forward = Cleared(l, k)]
<1>1. u = [forward |-> [n \in S!Node(l) \ {k} |-> Cleared(l, k)[n]],
           value |-> [n \in S!Keys(l) \ {k} |-> l.value[n]],
           level |-> S!TopLevel(w),
           count |-> l.count - 1]
    BY DeleteIs
<1>2. w.forward = Cleared(l, k) /\ w.level = l.level
    BY DEF Sound, Shape
<1> HIDE DEF w
<1>3. /\ u.forward = [n \in S!Node(l) \ {k} |-> Cleared(l, k)[n]]
      /\ u.value = [n \in S!Keys(l) \ {k} |-> l.value[n]]
      /\ u.level = S!TopLevel(w) /\ u.count = l.count - 1
      /\ u = [forward |-> u.forward, value |-> u.value, level |-> u.level, count |-> u.count]
    BY <1>1
<1>4. /\ S!Node(u) = S!Node(l) \ {k} /\ S!Keys(u) = S!Keys(l) \ {k}
      /\ \A n \in S!Node(u) : DOMAIN u.forward[n] = DOMAIN l.forward[n]
      /\ \A n \in S!Node(u) : \A i \in DOMAIN u.forward[n] : NextIs(u, n, i, u.forward[n][i])
    BY <1>3, DeletePointers
<1>5. k # Header /\ MaxLevel \in Nat /\ l.level \in Nat /\ l.level \in 0..MaxLevel /\ Header \in S!Node(u)
      /\ Header \in S!Node(l) /\ DOMAIN u.forward[Header] = 0..MaxLevel
    BY <1>4, Nodes DEF Sound, Levels
<1>6. u.value \in [S!Keys(u) -> Value \cup Key] /\ \A n \in S!Keys(u) : u.value[n] = l.value[n]
    BY <1>3, <1>4 DEF Sound, Shape
<1>7. IsFiniteSet(S!Keys(u)) /\ u.count = Cardinality(S!Keys(u))
    BY <1>3, <1>4, FS_RemoveElement DEF Sound, Shape
<1>8. ASSUME NEW n \in S!Node(u)
      PROVE  \E q \in 0..MaxLevel : u.forward[n] \in [0..q -> S!Keys(u) \cup {None}]
    <2>1. \A i \in DOMAIN u.forward[n] : u.forward[n][i] \in S!Keys(u) \cup {None}
        BY <1>4 DEF NextIs, Behind
    <2>2. u.forward[n] = [i \in DOMAIN u.forward[n] |-> u.forward[n][i]]
        BY <1>3, <1>4 DEF Cleared
    <2>3. \E q \in 0..MaxLevel : DOMAIN u.forward[n] = 0..q
        BY <1>4 DEF Sound, Shape
    <2> QED
        BY <2>1, <2>2, <2>3
<1>9. Shape(u)
    <2>1. S!Keys(u) \subseteq Key
        BY <1>4 DEF Sound, Shape
    <2> QED
        BY <1>3, <1>5, <1>6, <1>7, <1>8, <2>1 DEF Shape
<1>10. Levels(u)
    <2> DEFINE K == S!Keys(u)
               D == [y \in K |-> DOMAIN u.forward[y]]
               f == u.forward[Header]
    <2>1. w.forward[Header] = f /\ w.level \in 0..MaxLevel
        BY <1>2, <1>3, <1>5
    <2>2. \A i \in 0..w.level : f[i] # None <=> \E y \in K : i \in D[y]
        <3> SUFFICES ASSUME NEW i \in 0..w.level
                     PROVE  f[i] # None <=> \E y \in K : i \in D[y]
            OBVIOUS
        <3>1. NextIs(u, Header, i, f[i])
            BY <1>2, <1>4, <1>5
        <3>2. Behind(u, Header, i) = {y \in K : i \in D[y]}
            BY DEF Behind
        <3>3. None \notin K
            BY <1>4, Nodes
        <3> QED
            BY <3>1, <3>2, <3>3 DEF NextIs
    <2>3. \A y \in K : D[y] = DOMAIN u.forward[y] /\ D[y] \subseteq 0..w.level
        BY <1>2, <1>4, Nodes DEF Sound, Levels
    <2> HIDE DEF K, D, f
    <2>4. /\ u.level \in 0..w.level
          /\ \A y \in K : \A i \in D[y] : i \in 0..w.level => i <= u.level
          /\ u.level > 0 => \E y \in K : u.level \in D[y]
        <3>1. /\ S!TopLevel(w) \in 0..w.level
              /\ \A y \in K : \A i \in D[y] : i \in 0..w.level => i <= S!TopLevel(w)
              /\ S!TopLevel(w) > 0 => \E y \in K : S!TopLevel(w) \in D[y]
            BY <2>1, <2>2, TopLevelIs
        <3> QED
            BY <1>3, <3>1
    <2>5. u.level \in 0..MaxLevel /\ u.level \in Nat
        BY <1>2, <1>5, <2>4
    <2>6. \A y \in K : D[y] \subseteq 0..u.level
        BY <1>2, <1>5, <2>3, <2>4, <2>5
    <2> QED
        BY <2>3, <2>4, <2>5, <2>6 DEF Levels, K
<1> QED
    BY <1>4, <1>6, <1>9, <1>10 DEF Sound

\* A key that the list has not: delete_element does nothing.
LEMMA DeleteKeeps ==
    ASSUME NEW l, Sound(l), NEW k \in Key, k \notin S!Keys(l)
    PROVE  S!delete_element(l, k) = l
BY FoundIs DEF S!delete_element

\* The level of a sound list is its TopLevel.
LEMMA LevelIsTop ==
    ASSUME NEW l, Sound(l)
    PROVE  l.level = S!TopLevel(l)
<1> DEFINE K == S!Keys(l)
           D == [y \in K |-> DOMAIN l.forward[y]]
           f == l.forward[Header]
<1>1. MaxLevel \in Nat /\ l.level \in Nat /\ l.level \in 0..MaxLevel
    BY Nodes DEF Sound, Levels
<1>2. \A i \in 0..l.level : f[i] # None <=> \E y \in K : i \in D[y]
    <2> SUFFICES ASSUME NEW i \in 0..l.level
                 PROVE  f[i] # None <=> \E y \in K : i \in D[y]
        OBVIOUS
    <2>1. NextIs(l, Header, i, f[i])
        BY <1>1, Nodes DEF Sound
    <2>2. Behind(l, Header, i) = {y \in K : i \in D[y]}
        BY DEF Behind
    <2>3. None \notin K
        BY Nodes
    <2> QED
        BY <2>1, <2>2, <2>3 DEF NextIs
<1>3. l.level > 0 => \E y \in K : l.level \in D[y]
    BY DEF Sound, Levels
<1> HIDE DEF K, D, f
<1>4. /\ S!TopLevel(l) \in 0..l.level
      /\ \A y \in K : \A i \in D[y] : i \in 0..l.level => i <= S!TopLevel(l)
    BY <1>1, <1>2, TopLevelIs DEF f
<1>5. l.level \in 0..l.level
    BY <1>1
<1> QED
    BY <1>1, <1>3, <1>4, <1>5

-----------------------------------------------------------------------------
(* The operations, and what they do to the dictionary *)

Dictionary == [Key -> Value \cup Key \cup {None}]

LEMMA InsertHolds ==
    ASSUME NEW l, Sound(l), NEW d \in Dictionary, Holds(l, d), NEW k \in Key, NEW v \in Value \cup Key,
           NEW r \in 1..MaxLevel
    PROVE  /\ Sound(S!insert_element(l, k, v, r))
           /\ Holds(S!insert_element(l, k, v, r), [d EXCEPT ![k] = IF @ = None THEN v ELSE @])
<1> DEFINE u == S!insert_element(l, k, v, r)
           e == [d EXCEPT ![k] = IF @ = None THEN v ELSE @]
<1>1. None \notin Value \cup Key
    BY BoundsAssumption
<1>2. \A n \in S!Keys(l) : l.value[n] \in Value \cup Key
    BY DEF Sound, Shape
<1>3. \A n \in Key : d[n] = IF n \in S!Keys(l) THEN l.value[n] ELSE None
    BY DEF Holds
<1>4. d[k] = None <=> k \notin S!Keys(l)
    BY <1>1, <1>2, <1>3
<1>5. \A n \in Key : e[n] = IF n = k THEN (IF d[k] = None THEN v ELSE d[k]) ELSE d[n]
    BY DEF Dictionary
<1>6. CASE k \in S!Keys(l)
    <2>1. u = l
        BY <1>6, InsertKeeps
    <2> HIDE DEF u, e
    <2>2. Holds(l, e)
        BY <1>3, <1>4, <1>5, <1>6 DEF Holds
    <2> QED
        BY <2>1, <2>2 DEF u, e
<1>7. CASE k \notin S!Keys(l)
    <2>1. /\ Sound(u) /\ S!Keys(u) = S!Keys(l) \cup {k}
          /\ u.value[k] = v /\ \A n \in S!Keys(l) : u.value[n] = l.value[n]
        BY <1>7, InsertSound
    <2> HIDE DEF u, e
    <2>2. Holds(u, e)
        BY <1>3, <1>4, <1>5, <1>7, <2>1 DEF Holds
    <2> QED
        BY <2>1, <2>2 DEF u, e
<1> QED
    BY <1>6, <1>7

LEMMA DeleteHolds ==
    ASSUME NEW l, Sound(l), NEW d \in Dictionary, Holds(l, d), NEW k \in Key
    PROVE  Sound(S!delete_element(l, k)) /\ Holds(S!delete_element(l, k), [d EXCEPT ![k] = None])
<1> DEFINE u == S!delete_element(l, k)
           e == [d EXCEPT ![k] = None]
<1>1. \A n \in Key : d[n] = IF n \in S!Keys(l) THEN l.value[n] ELSE None
    BY DEF Holds
<1>2. \A n \in Key : e[n] = IF n = k THEN None ELSE d[n]
    BY DEF Dictionary
<1>3. CASE k \notin S!Keys(l)
    <2>1. u = l
        BY <1>3, DeleteKeeps
    <2> HIDE DEF u, e
    <2>2. Holds(l, e)
        BY <1>1, <1>2, <1>3 DEF Holds
    <2> QED
        BY <2>1, <2>2 DEF u, e
<1>4. CASE k \in S!Keys(l)
    <2>1. /\ Sound(u) /\ S!Keys(u) = S!Keys(l) \ {k}
          /\ \A n \in S!Keys(u) : u.value[n] = l.value[n]
        BY <1>4, DeleteSound
    <2> HIDE DEF u, e
    <2>2. Holds(u, e)
        BY <1>1, <1>2, <2>1 DEF Holds
    <2> QED
        BY <2>1, <2>2 DEF u, e
<1> QED
    BY <1>3, <1>4

LEMMA SetHolds ==
    ASSUME NEW l, Sound(l), NEW d \in Dictionary, Holds(l, d), NEW k \in Key, NEW v \in Value \cup Key,
           NEW r \in 1..MaxLevel
    PROVE  /\ Sound(S!insert_set_element(l, k, v, r))
           /\ Holds(S!insert_set_element(l, k, v, r), [d EXCEPT ![k] = v])
<1> DEFINE w == IF S!search_element(l, k) # None THEN S!delete_element(l, k) ELSE l
           e == [d EXCEPT ![k] = None]
           f == [e EXCEPT ![k] = IF @ = None THEN v ELSE @]
<1>1. S!insert_set_element(l, k, v, r) = S!insert_element(w, k, v, r)
    BY DEF S!insert_set_element
<1>2. e \in Dictionary /\ f = [d EXCEPT ![k] = v]
    BY DEF Dictionary
<1>3. Sound(w) /\ Holds(w, e)
    <2>1. CASE S!search_element(l, k) # None
        BY <2>1, DeleteHolds
    <2>2. CASE S!search_element(l, k) = None
        <3>1. \A n \in Key : d[n] = IF n \in S!Keys(l) THEN l.value[n] ELSE None
            BY DEF Holds
        <3>2. d[k] = None
            BY <2>2, <3>1, SearchIs
        <3>3. e = d
            BY <3>2 DEF Dictionary
        <3> QED
            BY <2>2, <3>3
    <2> QED
        BY <2>1, <2>2
<1> HIDE DEF w, e
<1>4. Sound(S!insert_element(w, k, v, r)) /\ Holds(S!insert_element(w, k, v, r), f)
    BY <1>2, <1>3, InsertHolds
<1> HIDE DEF f
<1> QED
    BY <1>1, <1>2, <1>4

-----------------------------------------------------------------------------
(* dump_file *)

\* A set of numbers has a least.
LEMMA LeastExists ==
    ASSUME NEW T \in SUBSET Nat, T # {}
    PROVE  \E x \in T : \A y \in T : x <= y
<1> DEFINE Less == OpToRel(<, Nat)
<1>1. IsWellFoundedOn(Less, Nat)
    BY NatLessThanWellFounded
<1>2. \A x, y \in Nat : <<y, x>> \in Less <=> y < x
    BY DEF OpToRel
<1> HIDE DEF Less
<1>3. PICK x \in T : \A y \in T : ~(<<y, x>> \in Less)
    BY <1>1, WFMin
<1>4. x \in Nat /\ \A y \in T : y \in Nat /\ ~(y < x)
    BY <1>2, <1>3
<1> QED
    BY <1>4

\* A finite set of numbers has a bound.
LEMMA FiniteBounded ==
    ASSUME NEW T \in SUBSET Nat, IsFiniteSet(T)
    PROVE  \E b \in Nat : \A y \in T : y < b
<1> DEFINE Free(W) == IsFiniteSet(W) /\ ~\E b \in Nat : \A y \in W : y < b
           U == {n \in Nat : \E W \in SUBSET Nat : Free(W) /\ Cardinality(W) = n}
<1> SUFFICES ASSUME Free(T) PROVE FALSE
    OBVIOUS
<1>1. Cardinality(T) \in U /\ U \in SUBSET Nat
    BY FS_CardinalityType
<1>2. PICK n \in U : \A y \in U : n <= y
    <2> HIDE DEF U
    <2> QED
        BY <1>1, LeastExists
<1>3. PICK W \in SUBSET Nat : Free(W) /\ Cardinality(W) = n
    BY <1>2
<1>4. n \in Nat /\ IsFiniteSet(W) /\ \A b \in Nat : \E y \in W : ~(y < b)
    BY <1>2, <1>3
<1>5. PICK x \in W : TRUE
    BY <1>4
<1> DEFINE V == W \ {x}
<1>6. IsFiniteSet(V) /\ Cardinality(V) = n - 1 /\ n - 1 \in Nat /\ V \in SUBSET Nat
    <2>1. IsFiniteSet(V) /\ Cardinality(V) = n - 1
        BY <1>3, <1>4, <1>5, FS_RemoveElement
    <2>2. Cardinality(V) \in Nat
        BY <2>1, FS_CardinalityType
    <2> QED
        BY <2>1, <2>2
<1>7. ~Free(V)
    <2> SUFFICES ASSUME Free(V) PROVE FALSE
        OBVIOUS
    <2>1. n - 1 \in U
        BY <1>6
    <2>2. n <= n - 1
        <3> HIDE DEF U
        <3> QED
            BY <1>2, <2>1
    <2> QED
        BY <1>4, <2>2
<1>8. PICK b \in Nat : \A y \in V : y < b
    BY <1>6, <1>7
<1> DEFINE c == IF b > x THEN b ELSE x + 1
<1>9. c \in Nat /\ \A y \in W : y < c
    <2>1. x \in Nat /\ \A y \in W : y \in Nat
        BY <1>3, <1>5
    <2>2. \A y \in W : y = x \/ y < b
        BY <1>8
    <2> QED
        BY <1>8, <2>1, <2>2
<1> QED
    BY <1>4, <1>9

\* The pointers of level 0.
LEMMA NextKey ==
    ASSUME NEW l, Sound(l), NEW n \in S!Node(l)
    PROVE  /\ l.forward[n][0] \in S!Keys(l) \cup {None}
           /\ n # Header /\ l.forward[n][0] # None => l.forward[n][0] > n
<1>1. 0 \in DOMAIN l.forward[n] /\ l.forward[n][0] \in S!Keys(l) \cup {None}
    BY Nodes
<1>2. NextIs(l, n, 0, l.forward[n][0])
    BY <1>1 DEF Sound
<1> QED
    BY <1>1, <1>2 DEF NextIs, Behind

LEMMA DumpIs ==
    ASSUME NEW l, Sound(l)
    PROVE  S!dump_file(l) \in Seq(Pairs)
<1> DEFINE K == S!Keys(l)
           D == K \cup {None}
           next(n) == l.forward[n][0]
           one(n) == <<<<n, l.value[n]>>>>
           Body(g) == [n \in D |-> IF n = None THEN <<>> ELSE one(n) \o g[next(n)]]
           from == CHOOSE g : g = Body(g)
<1>1. S!dump_file(l) = from[l.forward[Header][0]]
    BY DEF S!dump_file
<1>2. /\ None \notin K /\ \A n \in K : n \in Nat /\ next(n) \in D /\ (next(n) # None => next(n) > n)
      /\ l.forward[Header][0] \in D
    BY Nodes, NextKey
<1>3. \A n \in K : one(n) \in Seq(Pairs)
    BY DEF Sound, Shape, Pairs
<1>4. PICK b \in Nat : \A n \in K : n < b
    BY <1>2, FiniteBounded DEF Sound, Shape
<1> HIDE DEF K, one, next
\* A part of the function, from m on; it closes when m has come down to 0.
<1> DEFINE From(m) == {n \in K : n >= m} \cup {None}
           Part(m, g) == /\ g = [n \in From(m) |-> g[n]]
                         /\ \A n \in From(m) : g[n] = IF n = None THEN <<>> ELSE one(n) \o g[next(n)]
           U == {m \in Nat : \E g : Part(m, g)}
<1>5. b \in U
    <2>1. From(b) = {None}
        BY <1>2, <1>4
    <2>2. Part(b, [n \in {None} |-> <<>>])
        BY <2>1
    <2> QED
        BY <2>2
<1>6. PICK m \in U : \A y \in U : m <= y
    <2>1. U \in SUBSET Nat /\ U # {}
        BY <1>5
    <2> HIDE DEF U
    <2> QED
        BY <2>1, LeastExists
<1>7. m = 0
    <2> SUFFICES ASSUME m # 0 PROVE FALSE
        OBVIOUS
    <2>1. m \in Nat /\ m - 1 \in Nat
        BY <1>6
    <2>2. PICK g : Part(m, g)
        BY <1>6
    <2>3. From(m - 1) = From(m) \cup {n \in K : n = m - 1}
        <3>1. \A n \in K : n >= m - 1 <=> n >= m \/ n = m - 1
            <4>1. \A n \in K : n \in Nat
                BY <1>2
            <4>2. \A n \in Nat : n >= m - 1 <=> n >= m \/ n = m - 1
                BY <2>1
            <4> QED
                BY <4>1, <4>2
        <3>2. \A n : n \in From(m - 1) <=> (n \in K /\ n >= m - 1) \/ n = None
            OBVIOUS
        <3>3. \A n : n \in From(m) <=> (n \in K /\ n >= m) \/ n = None
            OBVIOUS
        <3> HIDE DEF From
        <3> QED
            BY <3>1, <3>2, <3>3
    <2>4. \A n \in From(m - 1) : n # None => n \in K /\ next(n) \in From(m)
        <3> SUFFICES ASSUME NEW n \in From(m - 1), n # None PROVE n \in K /\ next(n) \in From(m)
            OBVIOUS
        <3>1. n \in K /\ n >= m - 1 /\ n \in Nat
            BY <1>2
        <3>2. next(n) # None => next(n) \in K /\ next(n) > n /\ next(n) \in Nat
            BY <1>2, <3>1
        <3>3. next(n) # None => next(n) >= m
            BY <2>1, <3>1, <3>2
        <3> QED
            BY <1>2, <3>1, <3>2, <3>3
    <2> DEFINE h == [n \in From(m - 1) |-> IF n \in From(m) THEN g[n] ELSE one(n) \o g[next(n)]]
    <2>5. None \in From(m)
        OBVIOUS
    <2> HIDE DEF From
    <2>6. \A n \in From(m) : h[n] = g[n]
        BY <2>3
    <2>7. \A n \in From(m - 1) : h[n] = IF n = None THEN <<>> ELSE one(n) \o h[next(n)]
        <3> SUFFICES ASSUME NEW n \in From(m - 1)
                     PROVE  h[n] = IF n = None THEN <<>> ELSE one(n) \o h[next(n)]
            OBVIOUS
        <3>1. CASE n = None
            BY <2>2, <2>5, <2>6, <3>1
        <3>2. CASE n # None
            <4>1. h[next(n)] = g[next(n)]
                BY <2>4, <2>6, <3>2
            <4>2. CASE n \in From(m)
                BY <2>2, <2>6, <3>2, <4>1, <4>2
            <4>3. CASE n \notin From(m)
                <5>1. h[n] = one(n) \o g[next(n)]
                    BY <4>3
                <5> QED
                    BY <3>2, <4>1, <5>1
            <4> QED
                BY <4>2, <4>3
        <3> QED
            BY <3>1, <3>2
    <2>8. Part(m - 1, h)
        BY <2>7
    <2>9. m - 1 \in U
        BY <2>1, <2>8
    <2> QED
        BY <1>6, <2>1, <2>9
<1>8. \E g : g = Body(g)
    <2>1. From(0) = D
        BY <1>2
    <2>2. PICK g : Part(0, g)
        BY <1>6, <1>7
    <2> HIDE DEF From
    <2>3. g = Body(g)
        BY <2>1, <2>2
    <2> QED
        BY <2>3
<1>9. from = Body(from)
    BY <1>8
<1> HIDE DEF from
<1>10. \A n \in D : from[n] = IF n = None THEN <<>> ELSE one(n) \o from[next(n)]
    BY <1>9
<1>11. \A n \in D : from[n] \in Seq(Pairs)
    <2> DEFINE Bad == {n \in K : from[n] \notin Seq(Pairs)}
    <2>1. Bad = {}
        <3> SUFFICES ASSUME Bad # {} PROVE FALSE
            OBVIOUS
        <3>1. Bad \in SUBSET Nat /\ \A n \in Bad : n < b
            BY <1>2, <1>4
        <3>2. PICK n \in Bad : \A y \in Bad : y <= n
            <4> HIDE DEF Bad
            <4> QED
                BY <1>4, <3>1, GreatestExists
        <3>3. n \in K /\ n \in Nat /\ next(n) \in D /\ n # None
            BY <1>2
        <3>4. next(n) \notin Bad
            BY <1>2, <3>1, <3>2, <3>3
        <3>5. from[next(n)] \in Seq(Pairs)
            <4>1. CASE next(n) = None
                <5>1. from[next(n)] = <<>>
                    BY <1>10, <3>3, <4>1
                <5> QED
                    BY <5>1
            <4>2. CASE next(n) # None
                BY <3>3, <3>4, <4>2
            <4> QED
                BY <4>1, <4>2
        <3>6. from[n] = one(n) \o from[next(n)] /\ one(n) \in Seq(Pairs)
            BY <1>3, <1>10, <3>3
        <3>7. from[n] \in Seq(Pairs)
            BY <3>5, <3>6
        <3> QED
            BY <3>7
    <2>2. \A n \in K : from[n] \in Seq(Pairs)
        BY <2>1
    <2>3. from[None] = <<>>
        BY <1>10
    <2>4. <<>> \in Seq(Pairs)
        OBVIOUS
    <2> QED
        BY <2>2, <2>3, <2>4
<1> QED
    BY <1>1, <1>2, <1>11

-----------------------------------------------------------------------------
(* load_file *)

\* The dictionary when the first i pairs are loaded.
Loaded(d, s, i) ==
    [k \in Key |-> IF d[k] = None /\ \E j \in 1..i : s[j][1] = k THEN k ELSE d[k]]

LEMMA LoadedNext ==
    ASSUME NEW d \in Dictionary, NEW s \in Seq(Pairs), NEW i \in 1..Len(s)
    PROVE  /\ s[i][1] \in Key /\ Loaded(d, s, i - 1) \in Dictionary
           /\ Loaded(d, s, i) = [Loaded(d, s, i - 1) EXCEPT ![s[i][1]] = IF @ = None THEN s[i][1] ELSE @]
<1> DEFINE c == s[i][1]
           e == Loaded(d, s, i - 1)
<1>1. c \in Key
    <2>1. s[i] \in Pairs
        OBVIOUS
    <2> QED
        BY <2>1 DEF Pairs
<1>2. e \in Dictionary
    BY DEF Loaded, Dictionary
<1>3. i \in Nat /\ \A j : j \in 1..i <=> j \in 1..(i - 1) \/ j = i
    OBVIOUS
<1>4. \A k \in Key : (\E j \in 1..i : s[j][1] = k) <=> (\E j \in 1..(i - 1) : s[j][1] = k) \/ k = c
    BY <1>3
<1>5. None \notin Key
    BY BoundsAssumption
<1>6. \A k \in Key : e[k] = IF d[k] = None /\ \E j \in 1..(i - 1) : s[j][1] = k THEN k ELSE d[k]
    BY DEF Loaded
<1> DEFINE f == [e EXCEPT ![c] = IF @ = None THEN c ELSE @]
<1>7. /\ f = [k \in Key |-> f[k]]
      /\ \A k \in Key : f[k] = IF k = c THEN (IF e[c] = None THEN c ELSE e[c]) ELSE e[k]
    BY <1>1, <1>2 DEF Dictionary
<1> HIDE DEF c, e, f
<1>8. ASSUME NEW k \in Key
      PROVE  f[k] = IF d[k] = None /\ \E j \in 1..i : s[j][1] = k THEN k ELSE d[k]
    <2>1. CASE k = c
        BY <1>4, <1>5, <1>6, <1>7, <2>1
    <2>2. CASE k # c
        BY <1>4, <1>6, <1>7, <2>2
    <2> QED
        BY <2>1, <2>2
<1>9. Loaded(d, s, i) = f
    BY <1>7, <1>8 DEF Loaded
<1> QED
    BY <1>1, <1>2, <1>9 DEF c, e, f

LEMMA LoadHolds ==
    ASSUME NEW l, Sound(l), NEW d \in Dictionary, Holds(l, d),
           NEW s \in Seq(Pairs), NEW levels \in [1..Len(s) -> 1..MaxLevel]
    PROVE  /\ Sound(S!load_file(l, s, levels))
           /\ Holds(S!load_file(l, s, levels), Loaded(d, s, Len(s)))
<1> DEFINE step(x, i) == S!insert_element(x, s[i][1], s[i][1], levels[i])
           Body(g) == [i \in 0..Len(s) |-> IF i = 0 THEN l ELSE step(g[i - 1], i)]
           after == CHOOSE g : g = Body(g)
<1>1. S!load_file(l, s, levels) = after[Len(s)]
    BY DEF S!load_file
<1>2. Len(s) \in Nat
    OBVIOUS
<1>3. ASSUME NEW x, Sound(x), NEW e \in Dictionary, Holds(x, e), NEW i \in 1..Len(s)
      PROVE  Sound(step(x, i)) /\ Holds(step(x, i), [e EXCEPT ![s[i][1]] = IF @ = None THEN s[i][1] ELSE @])
    <2>1. s[i][1] \in Key /\ levels[i] \in 1..MaxLevel
        BY LoadedNext
    <2> QED
        BY <1>3, <2>1, InsertHolds
<1> HIDE DEF step
\* A part of the function, up to m.
<1> DEFINE Part(m, g) == /\ g = [i \in 0..m |-> g[i]]
                         /\ \A i \in 0..m : g[i] = IF i = 0 THEN l ELSE step(g[i - 1], i)
           U == {m \in Nat : ~\E g : Part(m, g)}
<1>4. U = {}
    <2> SUFFICES ASSUME U # {} PROVE FALSE
        OBVIOUS
    <2>1. PICK m \in U : \A y \in U : m <= y
        <3>1. U \in SUBSET Nat
            OBVIOUS
        <3> HIDE DEF U
        <3> QED
            BY <3>1, LeastExists
    <2>2. m \in Nat
        OBVIOUS
    <2>3. m # 0
        <3> SUFFICES ASSUME m = 0 PROVE FALSE
            OBVIOUS
        <3>1. 0..0 = {0}
            OBVIOUS
        <3>2. Part(0, [i \in {0} |-> l])
            BY <3>1
        <3> QED
            BY <3>2
    <2>4. m - 1 \in Nat /\ m - 1 \notin U
        <3>1. m - 1 \in Nat /\ ~(m <= m - 1)
            BY <2>2, <2>3
        <3> HIDE DEF U
        <3> QED
            BY <2>1, <3>1
    <2>5. PICK g : Part(m - 1, g)
        BY <2>4
    <2> DEFINE h == [i \in 0..m |-> IF i = m THEN step(g[m - 1], m) ELSE g[i]]
    <2>6. /\ \A i \in 0..m : i = m \/ i \in 0..(m - 1)
          /\ \A i \in 0..m : i # 0 => i - 1 \in 0..(m - 1) /\ i - 1 \in 0..m /\ i - 1 # m
        BY <2>2
    <2>7. \A i \in 0..(m - 1) : i \in 0..m /\ h[i] = g[i]
        BY <2>2
    <2>8. m \in 0..m /\ h[m] = step(g[m - 1], m)
        BY <2>2
    <2>9. h = [i \in 0..m |-> h[i]]
        OBVIOUS
    <2>10. \A i \in 0..(m - 1) : g[i] = IF i = 0 THEN l ELSE step(g[i - 1], i)
        BY <2>5
    <2> HIDE DEF h
    <2>11. \A i \in 0..m : h[i] = IF i = 0 THEN l ELSE step(h[i - 1], i)
        BY <2>3, <2>6, <2>7, <2>8, <2>10
    <2>12. Part(m, h)
        BY <2>9, <2>11
    <2> QED
        BY <2>12
<1>5. after = Body(after)
    <2>1. PICK g : Part(Len(s), g)
        BY <1>2, <1>4
    <2>2. g = Body(g)
        BY <2>1
    <2> QED
        BY <2>2
<1> HIDE DEF after
<1>6. \A i \in 0..Len(s) : after[i] = IF i = 0 THEN l ELSE step(after[i - 1], i)
    BY <1>5
<1> DEFINE Good(i) == Sound(after[i]) /\ Holds(after[i], Loaded(d, s, i))
           Bad == {i \in 0..Len(s) : ~Good(i)}
<1>7. Bad = {}
    <2> SUFFICES ASSUME Bad # {} PROVE FALSE
        OBVIOUS
    <2>1. PICK i \in Bad : \A y \in Bad : i <= y
        <3>1. Bad \in SUBSET Nat
            BY <1>2
        <3> HIDE DEF Bad
        <3> QED
            BY <3>1, LeastExists
    <2>2. i \in 0..Len(s) /\ i \in Nat /\ ~Good(i)
        BY <1>2
    <2>3. i # 0
        <3> SUFFICES ASSUME i = 0 PROVE FALSE
            OBVIOUS
        <3>1. after[0] = l
            BY <1>2, <1>6
        <3>2. Loaded(d, s, 0) = d
            BY DEF Loaded, Dictionary
        <3> QED
            BY <2>2, <3>1, <3>2
    <2>4. i - 1 \in 0..Len(s) /\ i \in 1..Len(s) /\ ~(i <= i - 1)
        BY <1>2, <2>2, <2>3
    <2>5. i - 1 \notin Bad
        <3> HIDE DEF Bad
        <3> QED
            BY <2>1, <2>4
    <2>6. Good(i - 1)
        BY <2>4, <2>5
    <2>7. /\ Loaded(d, s, i - 1) \in Dictionary
          /\ Loaded(d, s, i) = [Loaded(d, s, i - 1) EXCEPT ![s[i][1]] = IF @ = None THEN s[i][1] ELSE @]
        BY <2>4, LoadedNext
    <2>8. after[i] = step(after[i - 1], i)
        BY <1>6, <2>2, <2>3
    <2>9. Good(i)
        BY <1>3, <2>4, <2>6, <2>7, <2>8
    <2> QED
        BY <2>2, <2>9
<1>8. Good(Len(s))
    BY <1>2, <1>7
<1> QED
    BY <1>1, <1>8

-----------------------------------------------------------------------------
(* The invariant *)

LEMMA EmptySound ==
    Sound(S!EmptyList) /\ Holds(S!EmptyList, [k \in Key |-> None]) /\ [k \in Key |-> None] \in Dictionary
<1> DEFINE e == S!EmptyList
<1>1. /\ e.forward = [n \in {Header} |-> [i \in 0..MaxLevel |-> None]]
      /\ e.value = [n \in {} |-> None] /\ e.level = 0 /\ e.count = 0
      /\ e = [forward |-> e.forward, value |-> e.value, level |-> e.level, count |-> e.count]
    BY DEF S!EmptyList
<1> HIDE DEF e
<1>2. S!Node(e) = {Header} /\ S!Keys(e) = {}
    BY <1>1 DEF S!Node, S!Keys
<1>3. MaxLevel \in Nat
    BY BoundsAssumption
<1>4. e.forward[Header] \in [0..MaxLevel -> {None}] /\ \A i \in 0..MaxLevel : e.forward[Header][i] = None
    BY <1>1
<1>5. Shape(e)
    <2>1. e.value \in [S!Keys(e) -> Value \cup Key]
        BY <1>1, <1>2
    <2>2. \A n \in S!Node(e) : \E r \in 0..MaxLevel : e.forward[n] \in [0..r -> S!Keys(e) \cup {None}]
        BY <1>2, <1>3, <1>4
    <2> QED
        BY <1>1, <1>2, <1>4, <2>1, <2>2, FS_EmptySet DEF Shape
<1>6. Levels(e)
    BY <1>1, <1>2, <1>3 DEF Levels
<1>7. \A n, i : Behind(e, n, i) = {}
    BY <1>2 DEF Behind
<1>8. Sound(e)
    BY <1>2, <1>4, <1>5, <1>6, <1>7 DEF Sound, NextIs
<1>9. Holds(e, [k \in Key |-> None])
    BY <1>2 DEF Holds
<1> QED
    BY <1>8, <1>9 DEF e, Dictionary

LEMMA HeldIs ==
    ASSUME NEW l, Sound(l)
    PROVE  Held(l) \in Dictionary /\ Holds(l, Held(l))
<1>1. \A n \in S!Keys(l) : l.value[n] \in Value \cup Key
    BY DEF Sound, Shape
<1> QED
    BY <1>1 DEF Held, Holds, Dictionary

LEMMA HoldsHeld ==
    ASSUME NEW l, NEW d \in Dictionary, Holds(l, d)
    PROVE  Held(l) = d
BY DEF Held, Holds, Dictionary

LEMMA ListInit == Init => LInv
<1> SUFFICES ASSUME Init, structure = "list" PROVE ListInv
    BY DEF LInv
<1>1. S!Init
    BY DEF Init
<1>2. <<>> \in Seq(Pairs) /\ MaxCount \in Nat
    BY BoundsAssumption
<1>3. list = S!EmptyList /\ dict = [k \in Key |-> None] /\ loaded = {}
    BY <1>1 DEF S!Init
<1>4. Sound(list) /\ Held(list) = dict /\ dict \in Dictionary
    BY <1>3, EmptySound, HoldsHeld
<1> QED
    BY <1>1, <1>2, <1>3, <1>4 DEF S!Init, ListInv, SameBut, Dictionary

LEMMA SetStep ==
    ASSUME ListInv, NEW k \in Key, NEW v \in Value, S!Set(k, v) \/ S!Insert(k, v)
    PROVE  ListInv'
<1> DEFINE h == Held(list)
<1>1. /\ Sound(list) /\ Holds(list, h) /\ h \in Dictionary /\ SameBut(h, dict, loaded)
      /\ dict \in Dictionary /\ loaded \subseteq Key /\ dump \in Seq(Pairs)
    BY HeldIs DEF ListInv, Dictionary
<1>2. dump' = dump /\ count' \in 0..MaxCount
    BY BoundsAssumption DEF ListInv, S!Set, S!Insert, S!Counted
<1>3. v # None
    BY BoundsAssumption
<1> HIDE DEF h
<1>4. CASE S!Set(k, v)
    <2>1. PICK r \in 1..MaxLevel : list' = S!insert_set_element(list, k, v, r)
        BY <1>4 DEF S!Set, S!RandomLevel
    <2>2. dict' = [dict EXCEPT ![k] = v] /\ loaded' = loaded \ {k}
        BY <1>4 DEF S!Set
    <2>3. Sound(list') /\ Holds(list', [h EXCEPT ![k] = v])
        BY <1>1, <2>1, SetHolds
    <2>4. dict' \in Dictionary /\ [h EXCEPT ![k] = v] \in Dictionary
        BY <1>1, <2>2 DEF Dictionary
    <2>5. Held(list') = [h EXCEPT ![k] = v]
        BY <2>3, <2>4, HoldsHeld
    <2>6. SameBut(Held(list'), dict', loaded')
        BY <1>1, <2>2, <2>5 DEF SameBut, Dictionary
    <2> QED
        BY <1>1, <1>2, <2>2, <2>3, <2>4, <2>6 DEF ListInv, Dictionary
<1>5. CASE S!Insert(k, v)
    <2> DEFINE g == [h EXCEPT ![k] = IF @ = None THEN v ELSE @]
    <2>1. PICK r \in 1..MaxLevel : list' = S!insert_element(list, k, v, r)
        BY <1>5 DEF S!Insert, S!RandomLevel
    <2>2. dict' = [dict EXCEPT ![k] = IF @ = None THEN v ELSE @] /\ loaded' = loaded
        BY <1>5 DEF S!Insert
    <2>3. Sound(list') /\ Holds(list', g)
        BY <1>1, <2>1, InsertHolds
    <2>4. dict' \in Dictionary /\ g \in Dictionary
        BY <1>1, <2>2 DEF Dictionary
    <2>5. Held(list') = g
        BY <2>3, <2>4, HoldsHeld
    <2>6. SameBut(g, dict', loaded')
        BY <1>1, <1>3, <2>2 DEF SameBut, Dictionary
    <2> QED
        BY <1>1, <1>2, <2>2, <2>3, <2>4, <2>5, <2>6 DEF ListInv, Dictionary
<1> QED
    BY <1>4, <1>5

LEMMA DeleteStep ==
    ASSUME ListInv, NEW k \in Key, S!Delete(k)
    PROVE  ListInv'
<1> DEFINE h == Held(list)
<1>1. /\ Sound(list) /\ Holds(list, h) /\ h \in Dictionary /\ SameBut(h, dict, loaded)
      /\ dict \in Dictionary /\ loaded \subseteq Key /\ dump \in Seq(Pairs)
    BY HeldIs DEF ListInv, Dictionary
<1>2. dump' = dump /\ count' \in 0..MaxCount
    BY BoundsAssumption DEF ListInv, S!Delete, S!Counted
<1> HIDE DEF h
<1>3. list' = S!delete_element(list, k) /\ dict' = [dict EXCEPT ![k] = None] /\ loaded' = loaded \ {k}
    BY DEF S!Delete
<1>4. Sound(list') /\ Holds(list', [h EXCEPT ![k] = None])
    BY <1>1, <1>3, DeleteHolds
<1>5. dict' \in Dictionary /\ [h EXCEPT ![k] = None] \in Dictionary
    BY <1>1, <1>3 DEF Dictionary
<1>6. Held(list') = [h EXCEPT ![k] = None]
    BY <1>4, <1>5, HoldsHeld
<1>7. SameBut(Held(list'), dict', loaded')
    BY <1>1, <1>3, <1>6 DEF SameBut, Dictionary
<1> QED
    BY <1>1, <1>2, <1>3, <1>4, <1>5, <1>7 DEF ListInv, Dictionary

LEMMA DumpStep ==
    ASSUME ListInv, S!Dump
    PROVE  ListInv'
<1>1. /\ dump' = S!dump_file(list) /\ list' = list /\ dict' = dict /\ loaded' = loaded
      /\ count' \in 0..MaxCount
    BY BoundsAssumption DEF ListInv, S!Dump, S!Counted
<1>2. dump' \in Seq(Pairs)
    BY <1>1, DumpIs DEF ListInv
<1> QED
    BY <1>1, <1>2 DEF ListInv

\* The values come from the dump on one side and are the keys on the other.
LEMMA LoadStep ==
    ASSUME ListInv, NEW fresh \in BOOLEAN, S!Load(fresh)
    PROVE  ListInv'
<1> DEFINE l == IF fresh THEN S!EmptyList ELSE list
           had == IF fresh THEN [k \in Key |-> None] ELSE dict
           old == IF fresh THEN {} ELSE loaded
           new == {i \in 1..Len(dump) : had[dump[i][1]] = None}
           h == Held(l)
           g == Loaded(h, dump, Len(dump))
<1>1. Sound(l) /\ had \in Dictionary /\ dump \in Seq(Pairs) /\ old \subseteq Key
    BY EmptySound DEF ListInv, Dictionary
<1>2. SameBut(h, had, old)
    <2>1. CASE fresh
        <3>1. Held(l) = had
            BY <2>1, EmptySound, HoldsHeld
        <3> QED
            BY <2>1, <3>1 DEF SameBut
    <2>2. CASE ~fresh
        BY <2>2 DEF ListInv
    <2> QED
        BY <2>1, <2>2
<1>3. /\ \E levels \in [1..Len(dump) -> S!RandomLevel] : list' = S!load_file(l, dump, levels)
      /\ dict' = [k \in Key |-> IF \E i \in new : dump[i][1] = k
                                 THEN dump[CHOOSE i \in new : dump[i][1] = k][2] ELSE had[k]]
      /\ loaded' = old \cup {dump[i][1] : i \in new} /\ dump' = dump
    BY DEF S!Load
<1>4. count' \in 0..MaxCount
    BY BoundsAssumption DEF ListInv, S!Load, S!Counted
<1>5. h \in Dictionary /\ Holds(l, h)
    BY <1>1, HeldIs
<1>6. \A i \in 1..Len(dump) : dump[i] \in Pairs
    BY <1>1
<1>7. \A i \in 1..Len(dump) : dump[i][1] \in Key /\ dump[i][2] \in Value \cup Key
    BY <1>6 DEF Pairs
<1>8. None \notin Value \cup Key
    BY BoundsAssumption
<1> HIDE DEF l, had, old, h
<1>9. PICK levels \in [1..Len(dump) -> 1..MaxLevel] : list' = S!load_file(l, dump, levels)
    BY <1>3 DEF S!RandomLevel
<1>10. Sound(list') /\ Holds(list', g)
    BY <1>1, <1>5, <1>9, LoadHolds
<1>11. /\ g \in Dictionary
       /\ \A k \in Key : g[k] = IF h[k] = None /\ \E i \in 1..Len(dump) : dump[i][1] = k THEN k ELSE h[k]
    BY <1>5 DEF Loaded, Dictionary
<1> HIDE DEF g
<1>12. Held(list') = g
    BY <1>10, <1>11, HoldsHeld
<1>13. \A k \in Key : k \in {dump[i][1] : i \in new}
                        <=> had[k] = None /\ \E i \in 1..Len(dump) : dump[i][1] = k
    OBVIOUS
<1>14. \A k \in Key :
          IF k \in {dump[i][1] : i \in new} THEN dict'[k] \in Value \cup Key ELSE dict'[k] = had[k]
    <2> TAKE k \in Key
    <2> DEFINE c == CHOOSE i \in new : dump[i][1] = k
    <2>1. ASSUME \E i \in new : dump[i][1] = k PROVE c \in new
        BY <2>1
    <2>2. \A i \in new : dump[i][2] \in Value \cup Key
        BY <1>7
    <2>3. dict'[k] = IF \E i \in new : dump[i][1] = k THEN dump[c][2] ELSE had[k]
        BY <1>3
    <2>4. k \in {dump[i][1] : i \in new} <=> \E i \in new : dump[i][1] = k
        OBVIOUS
    <2> HIDE DEF c, new
    <2> QED
        BY <2>1, <2>2, <2>3, <2>4
<1> DEFINE put == {dump[i][1] : i \in new}
<1>15. put \subseteq Key
    BY <1>7
<1>16. loaded' = old \cup put /\ loaded' \subseteq Key
    BY <1>1, <1>3, <1>15
<1>17. dict' \in Dictionary
    <2>1. \A k \in Key : dict'[k] \in Value \cup Key \cup {None}
        BY <1>1, <1>14 DEF Dictionary
    <2>2. dict' = [k \in Key |-> dict'[k]]
        BY <1>3
    <2> QED
        BY <2>1, <2>2 DEF Dictionary
<1>18. SameBut(g, dict', loaded')
    <2> SUFFICES ASSUME NEW k \in Key
                 PROVE  IF k \in loaded' THEN g[k] # None /\ dict'[k] # None ELSE g[k] = dict'[k]
        BY DEF SameBut
    <2>1. IF k \in old THEN h[k] # None /\ had[k] # None ELSE h[k] = had[k]
        BY <1>2 DEF SameBut
    <2>2. k \in put <=> had[k] = None /\ \E i \in 1..Len(dump) : dump[i][1] = k
        BY <1>13
    <2>3. IF k \in put THEN dict'[k] \in Value \cup Key ELSE dict'[k] = had[k]
        BY <1>14
    <2>4. g[k] = IF h[k] = None /\ \E i \in 1..Len(dump) : dump[i][1] = k THEN k ELSE h[k]
        BY <1>11
    <2> HIDE DEF put
    <2> QED
        BY <1>8, <1>16, <2>1, <2>2, <2>3, <2>4
<1> QED
    BY <1>1, <1>3, <1>4, <1>10, <1>12, <1>16, <1>17, <1>18 DEF ListInv, Dictionary

\* After every operation the list is sound and holds what the dictionary says,
\* but for the values of loaded keys.
LEMMA ListInvariant == Spec => []LInv
<1> DEFINE all == <<structure, bytesVars, listVars>>
<1>1. ASSUME LInv, [Next]_all
      PROVE  LInv'
    <2> SUFFICES ASSUME structure' = "list" PROVE ListInv'
        BY DEF LInv
    <2>1. CASE UNCHANGED all
        BY <1>1, <2>1 DEF LInv, ListInv, listVars
    <2>2. CASE Next
        <3>1. structure' = structure /\ S!Next /\ ListInv
            BY <1>1, <2>2 DEF Next, LInv
        <3>2. CASE \E k \in Key, v \in Value : S!Set(k, v) \/ S!Insert(k, v)
            BY <3>1, <3>2, SetStep
        <3>3. CASE \E k \in Key : S!Delete(k)
            BY <3>1, <3>3, DeleteStep
        <3>4. CASE S!Dump
            BY <3>1, <3>4, DumpStep
        <3>5. CASE \E fresh \in BOOLEAN : S!Load(fresh)
            BY <3>1, <3>5, LoadStep
        <3> QED
            BY <3>1, <3>2, <3>3, <3>4, <3>5 DEF S!Next
    <2> QED
        BY <1>1, <2>1, <2>2
<1> QED
    BY <1>1, ListInit, PTL DEF Spec

LEMMA SameCardinality ==
    ASSUME NEW T
    PROVE  S!Cardinality(T) = Cardinality(T)
BY DEF S!Cardinality, Cardinality, S!IsFiniteSet, IsFiniteSet

LEMMA LeastIs ==
    ASSUME NEW T \in SUBSET Int, NEW x \in T, \A y \in T : x <= y
    PROVE  S!Min(T) = x
<1>1. \A z \in T : (\A y \in T : z <= y) => z = x
    OBVIOUS
<1>2. x \in T /\ \A y \in T : x <= y
    OBVIOUS
<1> QED
    BY <1>1, <1>2 DEF S!Min

\* A sound list that holds the dictionary, but for loaded values, agrees with it.
LEMMA SoundAgrees ==
    ASSUME ListInv
    PROVE  S!ListAgrees
<1>1. Sound(list) /\ Holds(list, Held(list)) /\ SameBut(Held(list), dict, loaded)
    BY HeldIs DEF ListInv
<1>2. ASSUME NEW n \in S!Node(list), NEW i \in DOMAIN list.forward[n]
      PROVE  list.forward[n][i] = IF Behind(list, n, i) = {} THEN None ELSE S!Min(Behind(list, n, i))
    <2> DEFINE T == Behind(list, n, i)
               x == list.forward[n][i]
    <2>1. NextIs(list, n, i, x)
        BY <1>1 DEF Sound
    <2>2. T \subseteq Nat
        BY <1>1, Nodes DEF Behind
    <2>3. T = {} => x = None
        BY <2>1 DEF NextIs
    <2>4. T # {} => x \in T /\ \A y \in T : x <= y
        BY <2>1 DEF NextIs
    <2> HIDE DEF T, x
    <2>5. ASSUME T # {} PROVE S!Min(T) = x
        <3>1. T \in SUBSET Int /\ x \in T /\ \A y \in T : x <= y
            BY <2>2, <2>4, <2>5
        <3> QED
            BY <3>1, LeastIs
    <2> QED
        BY <2>3, <2>5 DEF T, x
<1>3. \A n \in S!Node(list) : \A i \in DOMAIN list.forward[n] :
          LET behind == {k \in S!Keys(list) : i \in DOMAIN list.forward[k] /\ (n # Header => k > n)}
          IN  list.forward[n][i] = IF behind = {} THEN None ELSE S!Min(behind)
    BY <1>2 DEF Behind
<1>4. list.level = S!TopLevel(list)
    BY <1>1, LevelIsTop
<1>5. list.count = S!Cardinality(S!Keys(list))
    BY <1>1, SameCardinality DEF Sound, Shape
<1>6. \A k \in Key : S!search_element(list, k) = Held(list)[k]
    BY <1>1, SearchIs DEF Holds
<1>7. \A k \in Key : IF k \in loaded THEN S!search_element(list, k) # None /\ dict[k] # None
                                     ELSE S!search_element(list, k) = dict[k]
    BY <1>1, <1>6 DEF SameBut
<1> QED
    BY <1>3, <1>4, <1>5, <1>7 DEF S!ListAgrees

\* insert_element, insert_set_element, delete_element, dump_file, load_file:
\* whatever they are called with, in any order and under any random levels,
\* every level links its nodes in order, no pointer leads to a deleted node, and
\* search_element finds every key with the value last given to it and no other;
\* a key that load_file inserted is found, its value is not claimed.
THEOREM SkipListAgrees == Spec => []ListAgrees
<1>1. LInv => ListAgrees
    BY SoundAgrees DEF LInv, ListAgrees
<1> QED
    BY <1>1, ListInvariant, PTL

-----------------------------------------------------------------------------
(* ByteArray: blocks and positions *)

Cell == B!Byte \cup {B!Unset}

\* The byte at position p, counted from 0.
At(b, p) == b.mem[p \div b.base + 1][(p % b.base) + 1]

\* m_cur belongs to the position, the capacity to the blocks.
Arranged(b) ==
    /\ b.capacity = Len(b.mem) * b.base
    /\ b.position <= b.size /\ b.size <= b.capacity
    /\ b.cur = IF b.position = b.capacity THEN 0 ELSE b.position \div b.base + 1

Blocks(b) ==
    /\ b = [base |-> b.base, position |-> b.position, capacity |-> b.capacity, size |-> b.size,
            little |-> b.little, cur |-> b.cur, mem |-> b.mem]
    /\ b.base \in Nat \ {0} /\ b.position \in Nat /\ b.size \in Nat /\ b.capacity \in Nat /\ b.little \in BOOLEAN
    /\ b.mem \in Seq([1..b.base -> Cell]) /\ Len(b.mem) >= 1

\* The array is the bytes f.
Stores(b, f) ==
    /\ Blocks(b) /\ Arranged(b)
    /\ f \in Seq(Cell) /\ Len(f) = b.size
    /\ \A i \in 1..Len(f) : f[i] = B!Unset \/ At(b, i - 1) = f[i]

LEMMA Divided ==
    ASSUME NEW b \in Nat \ {0}, NEW p \in Nat
    PROVE  /\ p \div b \in Nat /\ p % b \in Nat /\ p % b < b
           /\ p = b * (p \div b) + (p % b)
<1>1. p \div b \in Nat
    OBVIOUS
<1>2. p % b \in Nat /\ p % b < b
    OBVIOUS
<1>3. p = b * (p \div b) + (p % b)
    OBVIOUS
<1> QED
    BY <1>1, <1>2, <1>3

LEMMA DividedOnce ==
    ASSUME NEW b \in Nat \ {0}, NEW q \in Int, NEW r \in 0..(b - 1), NEW p \in Int, p = b * q + r
    PROVE  q = p \div b /\ r = p % b
OBVIOUS

LEMMA InBlocks ==
    ASSUME NEW b \in Nat \ {0}, NEW p \in Nat, NEW n \in Nat
    PROVE  p < n * b <=> p \div b < n
<1>1. p < n * b => p \div b < n
    OBVIOUS
<1>2. p >= n * b => p \div b >= n
    OBVIOUS
<1>3. p \div b \in Nat /\ n * b \in Nat
    BY Divided
<1> QED
    BY <1>1, <1>2, <1>3

\* Offsets count on from the position, or from its block.
LEMMA Onward ==
    ASSUME NEW b \in Nat \ {0}, NEW p \in Nat, NEW k \in Nat
    PROVE  /\ p \div b + ((p % b) + k) \div b = (p + k) \div b
           /\ ((p % b) + k) % b = (p + k) % b
OBVIOUS

LEMMA RoundUp ==
    ASSUME NEW b \in Nat \ {0}, NEW m \in Nat, m > 0, NEW q, q = (m + b - 1) \div b
    PROVE  q \in Nat /\ q >= 1 /\ q * b >= m
<1> DEFINE x == m + b - 1
<1>1. x \in Nat /\ x >= b
    OBVIOUS
<1>2. q \in Nat /\ x % b \in Nat /\ x % b < b /\ x = b * q + (x % b)
    BY <1>1, Divided
<1>3. q >= 1
    BY <1>1, <1>2, InBlocks
<1>4. q * b = b * q /\ b * q \in Nat
    BY <1>2
<1>5. b * q >= m
    BY <1>1, <1>2, <1>4
<1> QED
    BY <1>2, <1>3, <1>4, <1>5

LEMMA WholeBlocks ==
    ASSUME NEW b \in Nat \ {0}, NEW n \in Nat
    PROVE  (n * b) \div b = n /\ (n * b) % b = 0 /\ n * b \in Nat
<1>1. n * b = b * n + 0 /\ 0 \in 0..(b - 1) /\ n * b \in Int /\ n * b \in Nat
    OBVIOUS
<1> QED
    BY <1>1, DividedOnce

LEMMA Appended ==
    ASSUME NEW T, NEW s \in Seq(T), NEW t \in Seq(T)
    PROVE  /\ s \o t \in Seq(T) /\ Len(s \o t) = Len(s) + Len(t)
           /\ \A c \in 1..Len(s) : (s \o t)[c] = s[c]
           /\ \A c \in 1..Len(t) : (s \o t)[Len(s) + c] = t[c]
OBVIOUS

LEMMA CellAt ==
    ASSUME NEW b, Blocks(b), Arranged(b), NEW p \in Nat, p < b.capacity
    PROVE  /\ p \div b.base + 1 \in 1..Len(b.mem) /\ (p % b.base) + 1 \in 1..b.base
           /\ At(b, p) \in Cell
<1>1. b.base \in Nat \ {0} /\ Len(b.mem) \in Nat /\ p < Len(b.mem) * b.base
    BY DEF Blocks, Arranged
<1>2. p \div b.base < Len(b.mem) /\ p \div b.base \in Nat /\ p % b.base \in Nat /\ p % b.base < b.base
    BY <1>1, InBlocks, Divided
<1>3. p \div b.base + 1 \in 1..Len(b.mem) /\ (p % b.base) + 1 \in 1..b.base
    BY <1>1, <1>2
<1>4. b.mem[p \div b.base + 1] \in [1..b.base -> Cell]
    BY <1>3 DEF Blocks
<1> QED
    BY <1>3, <1>4 DEF At

\* Room for n bytes: what is there stays where it is.
LEMMA AddCapacityIs ==
    ASSUME NEW b, NEW f, Stores(b, f), NEW n \in Nat, NEW a, a = B!addCapacity(b, n)
    PROVE  /\ Stores(a, f) /\ a.position + n <= a.capacity
           /\ a.base = b.base /\ a.position = b.position /\ a.size = b.size /\ a.little = b.little
           /\ a.capacity >= b.capacity
           /\ \A p \in Nat : p < b.capacity => At(a, p) = At(b, p)
<1>1. Blocks(b) /\ Arranged(b)
    BY DEF Stores
<1>2. b.base \in Nat \ {0} /\ b.position \in Nat /\ b.capacity \in Nat /\ b.position <= b.capacity /\ b.size \in Nat
      /\ Len(b.mem) \in Nat
    BY <1>1 DEF Blocks, Arranged
<1>3. CASE B!getCapacity(b) >= n
    <2>1. a = b
        BY <1>3 DEF B!addCapacity
    <2>2. b.position + n <= b.capacity
        BY <1>2, <1>3 DEF B!getCapacity
    <2> QED
        BY <1>2, <2>1, <2>2
<1>4. CASE ~(B!getCapacity(b) >= n)
    <2> DEFINE room == b.capacity - b.position
               extra == (n - room + b.base - 1) \div b.base
               fresh == [i \in 1..extra |-> [j \in 1..b.base |-> B!Unset]]
    <2>1. room \in Nat /\ n - room \in Nat /\ n - room > 0
        BY <1>2, <1>4 DEF B!getCapacity
    <2>2. extra \in Nat /\ extra >= 1 /\ extra * b.base >= n - room
        <3> DEFINE m == n - room
                   c == (m + b.base - 1) \div b.base
        <3>1. m \in Nat /\ m > 0 /\ extra = c
            BY <2>1
        <3>2. c = (m + b.base - 1) \div b.base
            OBVIOUS
        <3> HIDE DEF room, m, extra, c
        <3>3. c \in Nat /\ c >= 1 /\ c * b.base >= m
            BY <1>2, <3>1, <3>2, RoundUp
        <3> QED
            BY <3>1, <3>3 DEF m
    <2>3. a = [b EXCEPT !.capacity = @ + extra * b.base, !.mem = @ \o fresh,
                        !.cur = IF room = 0 THEN Len(b.mem) + 1 ELSE @]
        BY <1>4 DEF B!addCapacity, B!getCapacity
    <2>4. fresh \in Seq([1..b.base -> Cell]) /\ Len(fresh) = extra
        BY <2>2 DEF Cell
    <2> HIDE DEF room, extra, fresh
    <2>5. /\ a.base = b.base /\ a.position = b.position /\ a.size = b.size /\ a.little = b.little
          /\ a.capacity = b.capacity + extra * b.base /\ a.mem = b.mem \o fresh
          /\ a.cur = IF room = 0 THEN Len(b.mem) + 1 ELSE b.cur
          /\ a = [base |-> a.base, position |-> a.position, capacity |-> a.capacity, size |-> a.size,
                  little |-> a.little, cur |-> a.cur, mem |-> a.mem]
        BY <1>1, <2>3 DEF Blocks
    <2>6. a.mem \in Seq([1..b.base -> Cell]) /\ Len(a.mem) = Len(b.mem) + extra
          /\ \A c \in 1..Len(b.mem) : a.mem[c] = b.mem[c]
        <3> DEFINE T == [1..b.base -> Cell]
        <3>1. b.mem \in Seq(T) /\ fresh \in Seq(T)
            BY <1>1, <2>4 DEF Blocks
        <3> HIDE DEF T
        <3>2. /\ b.mem \o fresh \in Seq(T) /\ Len(b.mem \o fresh) = Len(b.mem) + Len(fresh)
              /\ \A c \in 1..Len(b.mem) : (b.mem \o fresh)[c] = b.mem[c]
            BY <3>1, Appended
        <3> QED
            BY <2>4, <2>5, <3>2 DEF T
    <2>7. extra * b.base \in Nat
        BY <1>2, <2>2
    <2>8. a.capacity = Len(a.mem) * a.base
        <3>1. b.capacity = Len(b.mem) * b.base
            BY <1>1 DEF Arranged
        <3>2. (Len(b.mem) + extra) * b.base = Len(b.mem) * b.base + extra * b.base
            BY <1>2, <2>2
        <3> QED
            BY <2>5, <2>6, <3>1, <3>2
    <2>9. a.position + n <= a.capacity /\ a.capacity >= b.capacity /\ a.capacity \in Nat
        <3> DEFINE x == extra * b.base
        <3>1. room = b.capacity - b.position
            BY DEF room
        <3>2. x \in Nat /\ x >= n - room /\ a.capacity = b.capacity + x
            BY <2>2, <2>5, <2>7
        <3> HIDE DEF x
        <3> QED
            BY <1>2, <2>5, <3>1, <3>2
    <2>10. a.position < a.capacity
        BY <1>2, <2>1, <2>5, <2>9
    <2>11. a.cur = a.position \div a.base + 1
        <3>1. CASE room = 0
            <4>1. b.position = Len(b.mem) * b.base
                BY <1>1, <1>2, <3>1 DEF room, Arranged
            <4>2. b.position \div b.base = Len(b.mem)
                BY <1>2, <4>1, WholeBlocks
            <4> QED
                BY <2>5, <3>1, <4>2
        <3>2. CASE room # 0
            BY <1>1, <1>2, <2>5, <3>2 DEF room, Arranged
        <3> QED
            BY <3>1, <3>2
    <2>12. Blocks(a)
        BY <1>1, <1>2, <2>2, <2>5, <2>6, <2>9 DEF Blocks
    <2>13. Arranged(a)
        <3>1. a.position <= a.size /\ a.size <= a.capacity
            BY <1>1, <1>2, <2>5, <2>9 DEF Arranged
        <3>2. a.position # a.capacity
            BY <1>2, <2>5, <2>9, <2>10
        <3> QED
            BY <2>8, <2>11, <3>1, <3>2 DEF Arranged
    <2>14. ASSUME NEW p \in Nat, p < b.capacity
           PROVE  At(a, p) = At(b, p)
        <3>1. p \div b.base + 1 \in 1..Len(b.mem)
            BY <1>1, <2>14, CellAt
        <3> QED
            BY <2>5, <2>6, <3>1 DEF At
    <2>15. Stores(a, f)
        <3>1. f \in Seq(Cell) /\ Len(f) = b.size /\ b.size <= b.capacity
            BY <1>1 DEF Stores, Arranged
        <3>2. ASSUME NEW i \in 1..Len(f) PROVE f[i] = B!Unset \/ At(a, i - 1) = f[i]
            <4>1. i - 1 \in Nat /\ i - 1 < b.capacity
                BY <1>2, <3>1
            <4> QED
                BY <2>14, <4>1 DEF Stores
        <3> QED
            BY <2>5, <2>12, <2>13, <3>1, <3>2 DEF Stores
    <2> QED
        BY <2>5, <2>9, <2>14, <2>15
<1> QED
    BY <1>3, <1>4

LEMMA EndBlock ==
    ASSUME NEW b \in Nat \ {0}, NEW n \in Nat, NEW v \in Nat, v <= n * b
    PROVE  /\ v \div b \in Nat /\ v \div b <= n
           /\ v \div b = n <=> v = n * b
<1>1. v \div b \in Nat /\ n * b \in Nat /\ (v = n * b => v \div b = n)
    BY Divided, WholeBlocks
<1>2. v < n * b <=> v \div b < n
    BY InBlocks
<1> QED
    BY <1>1, <1>2

\* The position moves, the blocks stay.
Moved(b, v, s) ==
    [b EXCEPT !.position = v, !.size = s, !.cur = IF v = b.capacity THEN 0 ELSE v \div b.base + 1]

LEMMA MovedIs ==
    ASSUME NEW b, Blocks(b), b.capacity = Len(b.mem) * b.base,
           NEW v \in Nat, NEW s \in Nat, v <= s, s <= b.capacity,
           NEW u, u = Moved(b, v, s)
    PROVE  /\ Blocks(u) /\ Arranged(u)
           /\ u.base = b.base /\ u.mem = b.mem /\ u.capacity = b.capacity /\ u.little = b.little
           /\ u.position = v /\ u.size = s
           /\ \A p : At(u, p) = At(b, p)
<1>1. /\ u.base = b.base /\ u.mem = b.mem /\ u.capacity = b.capacity /\ u.little = b.little
      /\ u.position = v /\ u.size = s
      /\ u.cur = IF v = b.capacity THEN 0 ELSE v \div b.base + 1
      /\ u = [base |-> u.base, position |-> u.position, capacity |-> u.capacity, size |-> u.size,
              little |-> u.little, cur |-> u.cur, mem |-> u.mem]
    BY DEF Blocks, Moved
<1>2. Blocks(u)
    BY <1>1 DEF Blocks
<1>3. Arranged(u)
    BY <1>1 DEF Arranged
<1> QED
    BY <1>1, <1>2, <1>3 DEF At

\* Where the copying loop arrives after n bytes.
LEMMA AfterIs ==
    ASSUME NEW b, Blocks(b), Arranged(b), b.position < b.capacity, NEW n \in Nat, b.position + n <= b.capacity
    PROVE  /\ b.cur = b.position \div b.base + 1
           /\ B!BlockAfter(b, b.cur, b.position % b.base, n) =
                 IF b.position + n = b.capacity THEN 0 ELSE (b.position + n) \div b.base + 1
<1> DEFINE base == b.base
           q == b.position
           v == q + n
           m == Len(b.mem)
<1>1. base \in Nat \ {0} /\ q \in Nat /\ m \in Nat /\ v \in Nat /\ b.capacity = m * base /\ b.capacity \in Nat
    BY DEF Blocks, Arranged
<1>2. b.cur = q \div base + 1
    BY <1>1 DEF Arranged
<1>3. q \div base + ((q % base) + n) \div base = v \div base
    BY <1>1, Onward
<1>4. q \div base \in Nat /\ ((q % base) + n) \div base \in Nat
    <2> DEFINE x == (q % base) + n
    <2> HIDE DEF q, base
    <2>1. q \div base \in Nat /\ q % base \in Nat
        BY <1>1, Divided
    <2>3. x \in Nat
        BY <2>1
    <2> HIDE DEF x
    <2>2. x \div base \in Nat
        BY <1>1, <2>3, Divided
    <2> QED
        BY <2>1, <2>2 DEF x
<1>5. B!BlockOf(b, b.cur, q % base, n) = v \div base + 1
    <2>1. B!BlockOf(b, b.cur, q % base, n) = q \div base + 1 + ((q % base) + n) \div base
        BY <1>2 DEF B!BlockOf
    <2> QED
        BY <1>3, <1>4, <2>1
<1>6. v \div base \in Nat /\ v \div base <= m /\ (v \div base = m <=> v = m * base)
    <2>1. v <= m * base
        BY <1>1
    <2> HIDE DEF v, m, base
    <2> QED
        BY <1>1, <2>1, EndBlock
<1>7. v \div base + 1 > m <=> v = b.capacity
    BY <1>1, <1>6
<1>8. B!BlockAfter(b, b.cur, q % base, n) = IF v \div base + 1 > m THEN 0 ELSE v \div base + 1
    BY <1>5 DEF B!BlockAfter, B!NULL
<1> QED
    BY <1>2, <1>7, <1>8

LEMMA IndexIs ==
    ASSUME NEW b \in Nat \ {0}, NEW p \in Nat, NEW q \in Nat
    PROVE  (p \div b + 1 - (q \div b + 1)) * b + ((p % b) + 1) - (q % b) = p - q + 1
<1> DEFINE x == p \div b
           y == q \div b
           s == p % b
           t == q % b
<1>1. x \in Nat /\ s \in Nat /\ p = b * x + s
    BY Divided
<1>2. y \in Nat /\ t \in Nat /\ q = b * y + t
    BY Divided
<1> HIDE DEF x, y, s, t
<1>3. (x + 1 - (y + 1)) * b = b * x - b * y
    BY <1>1, <1>2
<1>4. b * x \in Nat /\ b * y \in Nat
    BY <1>1, <1>2
<1>5. (x + 1 - (y + 1)) * b + (s + 1) - t = p - q + 1
    BY <1>1, <1>2, <1>3, <1>4
<1> QED
    BY <1>5 DEF x, y, s, t

\* The bytes from the position on are replaced, no other.
LEMMA FillIs ==
    ASSUME NEW a, Blocks(a), Arranged(a), a.position < a.capacity,
           NEW bytes \in Seq(B!Byte), a.position + Len(bytes) <= a.capacity,
           NEW w, w = B!Fill(a, bytes)
    PROVE  /\ Blocks(w)
           /\ w.base = a.base /\ w.position = a.position /\ w.size = a.size /\ w.little = a.little
           /\ w.capacity = a.capacity /\ w.cur = a.cur /\ Len(w.mem) = Len(a.mem)
           /\ \A p \in Nat : p < a.capacity =>
                 At(w, p) = IF p >= a.position /\ p < a.position + Len(bytes) THEN bytes[p - a.position + 1]
                            ELSE At(a, p)
<1> DEFINE npos == a.position % a.base
           index(c, i) == (c - a.cur) * a.base + i - npos
           M == [c \in 1..Len(a.mem) |-> [i \in 1..a.base |->
                    IF index(c, i) \in 1..Len(bytes) THEN bytes[index(c, i)] ELSE a.mem[c][i]]]
<1>1. w = [a EXCEPT !.mem = M]
    BY DEF B!Fill
<1>2. a.base \in Nat \ {0} /\ a.position \in Nat /\ a.capacity \in Nat /\ Len(bytes) \in Nat /\ Len(a.mem) \in Nat
      /\ a.cur = a.position \div a.base + 1
    BY AfterIs DEF Blocks, Arranged
<1>3. M \in Seq([1..a.base -> Cell]) /\ Len(M) = Len(a.mem)
    <2>1. ASSUME NEW c \in 1..Len(a.mem), NEW i \in 1..a.base
          PROVE  (IF index(c, i) \in 1..Len(bytes) THEN bytes[index(c, i)] ELSE a.mem[c][i]) \in Cell
        <3>1. a.mem[c] \in [1..a.base -> Cell]
            BY DEF Blocks
        <3>2. a.mem[c][i] \in Cell
            BY <3>1
        <3>3. \A x \in 1..Len(bytes) : bytes[x] \in Cell
            BY DEF Cell
        <3> HIDE DEF index
        <3> QED
            BY <3>2, <3>3
    <2> HIDE DEF index
    <2>2. M \in [1..Len(a.mem) -> [1..a.base -> Cell]]
        BY <2>1
    <2> HIDE DEF M
    <2> QED
        BY <1>2, <2>2
<1>4. \A c \in 1..Len(a.mem) : \A i \in 1..a.base :
          M[c][i] = IF index(c, i) \in 1..Len(bytes) THEN bytes[index(c, i)] ELSE a.mem[c][i]
    <2> HIDE DEF index
    <2> QED
        OBVIOUS
<1> HIDE DEF M
<1>5. /\ w.base = a.base /\ w.position = a.position /\ w.size = a.size /\ w.little = a.little
      /\ w.capacity = a.capacity /\ w.cur = a.cur /\ w.mem = M
      /\ w = [base |-> w.base, position |-> w.position, capacity |-> w.capacity, size |-> w.size,
              little |-> w.little, cur |-> w.cur, mem |-> w.mem]
    BY <1>1 DEF Blocks
<1>6. Blocks(w)
    BY <1>3, <1>5 DEF Blocks
<1>7. ASSUME NEW p \in Nat, p < a.capacity
      PROVE  At(w, p) = IF p >= a.position /\ p < a.position + Len(bytes) THEN bytes[p - a.position + 1]
                        ELSE At(a, p)
    <2> DEFINE c == p \div a.base + 1
               i == (p % a.base) + 1
    <2>1. c \in 1..Len(a.mem) /\ i \in 1..a.base
        BY <1>7, CellAt
    <2>2. index(c, i) = p - a.position + 1
        <3>1. c = p \div a.base + 1 /\ i = (p % a.base) + 1 /\ npos = a.position % a.base
            OBVIOUS
        <3>2. index(c, i) = (c - a.cur) * a.base + i - npos
            OBVIOUS
        <3> DEFINE base == a.base
                   q == a.position
                   d == a.cur
        <3>3. base \in Nat \ {0} /\ q \in Nat /\ d = q \div base + 1 /\ c = p \div base + 1
              /\ i = (p % base) + 1 /\ npos = q % base
            BY <1>2
        <3> HIDE DEF c, i, npos, index, base, q, d
        <3>4. (c - d) * base + i - npos = p - q + 1
            <4>1. (p \div base + 1 - (q \div base + 1)) * base + ((p % base) + 1) - (q % base) = p - q + 1
                BY <3>3, IndexIs
            <4> QED
                BY <3>3, <4>1
        <3> QED
            BY <3>2, <3>4 DEF base, q, d
    <2>3. At(w, p) = M[c][i] /\ At(a, p) = a.mem[c][i]
        BY <1>5 DEF At
    <2>4. p - a.position + 1 \in 1..Len(bytes) <=> p >= a.position /\ p < a.position + Len(bytes)
        BY <1>2
    <2> HIDE DEF c, i, index
    <2> QED
        BY <1>4, <2>1, <2>2, <2>3, <2>4
<1> QED
    BY <1>3, <1>5, <1>6, <1>7

-----------------------------------------------------------------------------
(* Writing *)

\* The bytes f with others from p on.
Over(f, p, bytes) ==
    [i \in 1..B!Larger(Len(f), p + Len(bytes)) |->
        IF i \in p + 1..p + Len(bytes) THEN bytes[i - p] ELSE IF i <= Len(f) THEN f[i] ELSE B!Unset]

LEMMA LargerIs ==
    ASSUME NEW m \in Nat, NEW n \in Nat
    PROVE  B!Larger(m, n) \in Nat /\ B!Larger(m, n) >= m /\ B!Larger(m, n) >= n
           /\ (B!Larger(m, n) = m \/ B!Larger(m, n) = n)
BY DEF B!Larger

LEMMA OverIs ==
    ASSUME NEW f \in Seq(Cell), NEW p \in Nat, NEW bytes \in Seq(B!Byte)
    PROVE  /\ Over(f, p, bytes) \in Seq(Cell) /\ Len(Over(f, p, bytes)) = B!Larger(Len(f), p + Len(bytes))
           /\ \A i \in 1..B!Larger(Len(f), p + Len(bytes)) : Over(f, p, bytes)[i] =
                  IF i \in p + 1..p + Len(bytes) THEN bytes[i - p] ELSE IF i <= Len(f) THEN f[i] ELSE B!Unset
<1> DEFINE n == B!Larger(Len(f), p + Len(bytes))
           val(i) == IF i \in p + 1..p + Len(bytes) THEN bytes[i - p] ELSE IF i <= Len(f) THEN f[i] ELSE B!Unset
<1>1. n \in Nat
    <2>1. Len(f) \in Nat /\ p + Len(bytes) \in Nat
        OBVIOUS
    <2> QED
        BY <2>1, LargerIs
<1>2. ASSUME NEW i \in 1..n PROVE val(i) \in Cell
    <2>1. CASE i \in p + 1..p + Len(bytes)
        <3>1. i - p \in 1..Len(bytes)
            BY <2>1
        <3>2. bytes[i - p] \in B!Byte
            BY <3>1
        <3> QED
            BY <2>1, <3>2 DEF Cell
    <2>2. CASE ~(i \in p + 1..p + Len(bytes)) /\ i <= Len(f)
        <3>1. i \in 1..Len(f)
            BY <1>1, <2>2
        <3> QED
            BY <2>2, <3>1
    <2>3. CASE ~(i \in p + 1..p + Len(bytes)) /\ ~(i <= Len(f))
        BY <2>3 DEF Cell
    <2> QED
        BY <2>1, <2>2, <2>3
<1>3. Over(f, p, bytes) = [i \in 1..n |-> val(i)]
    BY DEF Over
<1> HIDE DEF n, val
<1>4. Over(f, p, bytes) \in Seq(Cell) /\ Len(Over(f, p, bytes)) = n
    BY <1>1, <1>2, <1>3
<1>5. \A i \in 1..n : Over(f, p, bytes)[i] = val(i)
    BY <1>3
<1> QED
    BY <1>4, <1>5 DEF n, val

LEMMA Overwritten ==
    ASSUME NEW a, NEW f, Stores(a, f), NEW p \in Nat, NEW bytes \in Seq(B!Byte), p + Len(bytes) <= a.capacity,
           NEW u, Blocks(u), Arranged(u), u.size = B!Larger(a.size, p + Len(bytes)),
           \A q \in Nat : q < a.capacity =>
               At(u, q) = IF q >= p /\ q < p + Len(bytes) THEN bytes[q - p + 1] ELSE At(a, q)
    PROVE  Stores(u, Over(f, p, bytes))
<1>1. f \in Seq(Cell) /\ Len(f) = a.size /\ a.size <= a.capacity /\ a.capacity \in Nat /\ a.size \in Nat
    BY DEF Stores, Arranged, Blocks
<1> DEFINE n == B!Larger(Len(f), p + Len(bytes))
           g == Over(f, p, bytes)
<1>2. g \in Seq(Cell) /\ Len(g) = n
      /\ \A i \in 1..n : g[i] =
                  IF i \in p + 1..p + Len(bytes) THEN bytes[i - p] ELSE IF i <= Len(f) THEN f[i] ELSE B!Unset
    BY <1>1, OverIs
<1>3. n \in Nat /\ n <= a.capacity /\ n = u.size
    <2>1. Len(f) \in Nat /\ p + Len(bytes) \in Nat /\ Len(f) <= a.capacity
        BY <1>1
    <2> QED
        BY <1>1, <2>1, LargerIs
<1> HIDE DEF n, g
<1>4. ASSUME NEW i \in 1..n
      PROVE  g[i] = B!Unset \/ At(u, i - 1) = g[i]
    <2>1. i - 1 \in Nat /\ i - 1 < a.capacity /\ i - 1 - p + 1 = i - p
        BY <1>1, <1>3
    <2>2. At(u, i - 1) = IF i - 1 >= p /\ i - 1 < p + Len(bytes) THEN bytes[i - 1 - p + 1] ELSE At(a, i - 1)
        BY <2>1
    <2>3. i \in p + 1..p + Len(bytes) <=> i - 1 >= p /\ i - 1 < p + Len(bytes)
        BY <1>3
    <2>4. CASE i \in p + 1..p + Len(bytes)
        BY <1>2, <2>1, <2>2, <2>3, <2>4
    <2>5. CASE ~(i \in p + 1..p + Len(bytes)) /\ i <= Len(f)
        <3>1. i \in 1..Len(f)
            BY <1>1, <1>3, <2>5
        <3>2. f[i] = B!Unset \/ At(a, i - 1) = f[i]
            BY <3>1 DEF Stores
        <3> QED
            BY <1>2, <2>2, <2>3, <2>5, <3>2
    <2>6. CASE ~(i \in p + 1..p + Len(bytes)) /\ ~(i <= Len(f))
        BY <1>2, <2>6
    <2> QED
        BY <2>4, <2>5, <2>6
<1> QED
    BY <1>2, <1>3, <1>4 DEF Stores, g

LEMMA OverNothing ==
    ASSUME NEW f \in Seq(Cell), NEW p \in Nat, p <= Len(f)
    PROVE  Over(f, p, <<>>) = f
<1>1. B!Larger(Len(f), p + Len(<<>>)) = Len(f) /\ \A i \in 1..Len(f) : ~(i \in p + 1..p + Len(<<>>))
    BY DEF B!Larger
<1> QED
    BY <1>1 DEF Over

\* write
LEMMA WriteIs ==
    ASSUME NEW b, NEW f, Stores(b, f), NEW bytes \in Seq(B!Byte), NEW u, u = B!write(b, bytes)
    PROVE  /\ Stores(u, Over(f, b.position, bytes))
           /\ u.position = b.position + Len(bytes) /\ u.base = b.base /\ u.little = b.little
           /\ u.size = B!Larger(b.size, b.position + Len(bytes))
<1>1. b.position \in Nat /\ b.size \in Nat /\ b.position <= b.size /\ f \in Seq(Cell) /\ Len(f) = b.size
    BY DEF Stores, Blocks, Arranged
<1>2. CASE bytes = <<>>
    <2>1. u = b
        BY <1>2 DEF B!write
    <2>2. Len(bytes) = 0 /\ Over(f, b.position, bytes) = f
        BY <1>1, <1>2, OverNothing
    <2>3. b.size = B!Larger(b.size, b.position + Len(bytes))
        BY <1>1, <2>2 DEF B!Larger
    <2> QED
        BY <1>1, <2>1, <2>2, <2>3
<1>3. CASE bytes # <<>>
    <2> DEFINE a == B!addCapacity(b, Len(bytes))
               end == a.position + Len(bytes)
               w == B!Fill(a, bytes)
    <2>1. Len(bytes) \in Nat /\ Len(bytes) > 0
        BY <1>3
    <2>2. /\ Stores(a, f) /\ a.position + Len(bytes) <= a.capacity
          /\ a.base = b.base /\ a.position = b.position /\ a.size = b.size /\ a.little = b.little
        BY <2>1, AddCapacityIs
    <2> HIDE DEF a
    <2>3. Blocks(a) /\ Arranged(a) /\ a.position \in Nat /\ a.capacity \in Nat /\ a.size \in Nat
          /\ a.size <= a.capacity /\ a.capacity = Len(a.mem) * a.base
        BY <2>2 DEF Stores, Blocks, Arranged
    <2>4. a.position < a.capacity /\ end \in Nat
        BY <2>1, <2>2, <2>3
    <2>5. /\ a.cur = a.position \div a.base + 1
          /\ B!BlockAfter(a, a.cur, a.position % a.base, Len(bytes)) =
                IF end = a.capacity THEN 0 ELSE end \div a.base + 1
        BY <2>1, <2>2, <2>3, <2>4, AfterIs
    <2>6. a.cur # 0
        BY <2>3, <2>4, <2>5, Divided DEF Blocks
    <2>7. /\ Blocks(w)
          /\ w.base = a.base /\ w.position = a.position /\ w.size = a.size /\ w.little = a.little
          /\ w.capacity = a.capacity /\ Len(w.mem) = Len(a.mem)
          /\ \A p \in Nat : p < a.capacity =>
                 At(w, p) = IF p >= a.position /\ p < a.position + Len(bytes) THEN bytes[p - a.position + 1]
                            ELSE At(a, p)
        BY <2>2, <2>3, <2>4, FillIs
    <2> DEFINE s == B!Larger(w.size, end)
               c == B!BlockAfter(a, a.cur, a.position % a.base, Len(bytes))
    <2>8. u = [w EXCEPT !.position = end, !.size = s, !.cur = c]
        <3>1. u = [w EXCEPT !.position = end, !.size = B!Larger(@, end), !.cur = c]
            BY <1>3, <2>6 DEF B!write, B!NULL, a
        <3> HIDE DEF w, end, c
        <3> QED
            BY <2>7, <3>1 DEF Blocks
    <2> HIDE DEF w
    <2>9. s \in Nat /\ end <= s /\ s <= w.capacity /\ s = B!Larger(a.size, end)
        BY <2>2, <2>3, <2>4, <2>7, LargerIs
    <2>10. c = IF end = w.capacity THEN 0 ELSE end \div w.base + 1
        BY <2>5, <2>7
    <2>11. w.capacity = Len(w.mem) * w.base
        BY <2>3, <2>7
    <2> HIDE DEF s, c, end
    <2>12. /\ Blocks(u) /\ Arranged(u)
           /\ u.base = w.base /\ u.mem = w.mem /\ u.capacity = w.capacity /\ u.little = w.little
           /\ u.position = end /\ u.size = s
           /\ \A p : At(u, p) = At(w, p)
        <3>1. Blocks(w) /\ end \in Nat
            BY <2>4, <2>7
        <3>2. u = Moved(w, end, s)
            BY <2>8, <2>10 DEF Moved
        <3> QED
            BY <2>9, <2>11, <3>1, <3>2, MovedIs
    <2>13. u.size = B!Larger(a.size, a.position + Len(bytes))
        BY <2>9, <2>12 DEF end
    <2>14. Stores(u, Over(f, a.position, bytes))
        <3>1. \A p \in Nat : p < a.capacity =>
                 At(u, p) = IF p >= a.position /\ p < a.position + Len(bytes) THEN bytes[p - a.position + 1]
                            ELSE At(a, p)
            BY <2>7, <2>12
        <3>2. Stores(a, f) /\ a.position \in Nat /\ a.position + Len(bytes) <= a.capacity /\ Blocks(u) /\ Arranged(u)
            BY <2>2, <2>3, <2>12
        <3> QED
            BY <2>13, <3>1, <3>2, Overwritten
    <2> QED
        BY <2>2, <2>7, <2>12, <2>13, <2>14 DEF end
<1> QED
    BY <1>2, <1>3

\* setPosition finds the block that write and read arrive at.
LEMMA SetPositionMoves ==
    ASSUME NEW b, Blocks(b), b.capacity = Len(b.mem) * b.base, NEW v \in Nat, v <= b.capacity
    PROVE  B!setPosition(b, v) = Moved(b, v, B!Larger(b.size, v))
<1> DEFINE base == b.base
           m == Len(b.mem)
<1>1. base \in Nat \ {0} /\ m \in Nat /\ v <= m * base
    BY DEF Blocks
<1> HIDE DEF base, m
<1>2. v \div base = m <=> v = m * base
    BY <1>1, EndBlock
<1>3. v \div b.base = Len(b.mem) <=> v = b.capacity
    BY <1>2 DEF base, m
<1>4. B!setPosition(b, v) = [b EXCEPT !.position = v, !.size = B!Larger(b.size, v),
                             !.cur = IF v \div b.base = Len(b.mem) THEN 0 ELSE v \div b.base + 1]
    BY DEF B!setPosition, Blocks, B!NULL
<1> QED
    BY <1>3, <1>4 DEF Moved

LEMMA SetPositionIs ==
    ASSUME NEW b, NEW f, Stores(b, f), NEW v \in Nat, v <= b.capacity, NEW u, u = B!setPosition(b, v)
    PROVE  /\ Stores(u, Over(f, v, <<>>)) /\ u.position = v /\ u.base = b.base /\ u.little = b.little
           /\ u.size = B!Larger(b.size, v)
<1> DEFINE s == B!Larger(b.size, v)
<1>1. /\ Blocks(b) /\ b.capacity = Len(b.mem) * b.base
      /\ b.size \in Nat /\ b.size <= b.capacity /\ b.capacity \in Nat
    BY DEF Stores, Blocks, Arranged
<1>2. s \in Nat /\ v <= s /\ s <= b.capacity
    BY <1>1, LargerIs
<1>3. u = Moved(b, v, s)
    BY <1>1, SetPositionMoves
<1> HIDE DEF s
<1>4. /\ Blocks(u) /\ Arranged(u)
      /\ u.base = b.base /\ u.mem = b.mem /\ u.capacity = b.capacity /\ u.little = b.little
      /\ u.position = v /\ u.size = s
      /\ \A p : At(u, p) = At(b, p)
    BY <1>1, <1>2, <1>3, MovedIs
<1> DEFINE none == <<>>
<1>5. none \in Seq(B!Byte) /\ Len(none) = 0 /\ v + Len(none) = v
    OBVIOUS
<1> HIDE DEF none
<1>6. \A q \in Nat : q < b.capacity =>
          At(u, q) = IF q >= v /\ q < v + Len(none) THEN none[q - v + 1] ELSE At(b, q)
    BY <1>4, <1>5
<1>7. v + Len(none) <= b.capacity /\ u.size = B!Larger(b.size, v + Len(none))
    BY <1>4, <1>5 DEF s
<1>8. Stores(u, Over(f, v, none))
    BY <1>4, <1>5, <1>6, <1>7, Overwritten
<1> QED
    BY <1>4, <1>8 DEF none, s

LEMMA ClearIs ==
    ASSUME NEW b, NEW f, Stores(b, f), NEW u, u = B!clear(b)
    PROVE  Stores(u, <<>>) /\ u.position = 0 /\ u.size = 0
<1>1. Blocks(b)
    BY DEF Stores
<1>2. b.mem[1] \in [1..b.base -> Cell] /\ b.base \in Nat \ {0}
    BY <1>1 DEF Blocks
<1>3. /\ u.base = b.base /\ u.mem = <<b.mem[1]>> /\ u.capacity = b.base /\ u.little = b.little
      /\ u.position = 0 /\ u.size = 0 /\ u.cur = 1
      /\ u = [base |-> u.base, position |-> u.position, capacity |-> u.capacity, size |-> u.size,
              little |-> u.little, cur |-> u.cur, mem |-> u.mem]
    BY <1>1 DEF B!clear, Blocks
<1>4. u.mem \in Seq([1..b.base -> Cell]) /\ Len(u.mem) = 1
    <2> DEFINE T == [1..b.base -> Cell]
    <2> HIDE DEF T
    <2>1. b.mem[1] \in T
        BY <1>2 DEF T
    <2>2. u.mem \in Seq(T) /\ Len(u.mem) = 1
        BY <1>3, <2>1
    <2> QED
        BY <2>2 DEF T
<1>5. Blocks(u)
    BY <1>1, <1>2, <1>3, <1>4 DEF Blocks
<1>6. Arranged(u)
    <2>1. 0 \div b.base = 0 /\ 1 * b.base = b.base
        BY <1>2, WholeBlocks
    <2> QED
        BY <1>2, <1>3, <1>4, <2>1 DEF Arranged
<1>7. <<>> \in Seq(Cell) /\ Len(<<>>) = 0
    OBVIOUS
<1> QED
    BY <1>3, <1>5, <1>6, <1>7 DEF Stores

\* SocketStream::read: room for len bytes, of which some are filled.
LEMMA ReceiveIs ==
    ASSUME NEW b, NEW f, Stores(b, f), NEW len \in Nat, NEW bytes \in Seq(B!Byte), Len(bytes) \in 1..len,
           NEW u, u = B!setPosition(B!Fill(B!getWriteBuffers(b, len).b, bytes), b.position + Len(bytes))
    PROVE  /\ Stores(u, Over(f, b.position, bytes)) /\ u.position = b.position + Len(bytes)
           /\ u.size = B!Larger(b.size, b.position + Len(bytes))
<1> DEFINE a == B!addCapacity(b, len)
           w == B!Fill(a, bytes)
           v == a.position + Len(bytes)
           s == B!Larger(a.size, v)
<1>1. u = B!setPosition(w, b.position + Len(bytes))
    BY DEF B!getWriteBuffers
<1>2. /\ Stores(a, f) /\ a.position + len <= a.capacity
      /\ a.base = b.base /\ a.position = b.position /\ a.size = b.size /\ a.little = b.little
    BY AddCapacityIs
<1> HIDE DEF a
<1>3. Blocks(a) /\ Arranged(a) /\ a.position \in Nat /\ a.capacity \in Nat /\ a.size \in Nat
      /\ a.size <= a.capacity /\ a.capacity = Len(a.mem) * a.base
    BY <1>2 DEF Stores, Blocks, Arranged
<1>4. a.position < a.capacity /\ v \in Nat /\ v <= a.capacity
    BY <1>2, <1>3
<1>5. /\ Blocks(w)
      /\ w.base = a.base /\ w.position = a.position /\ w.size = a.size /\ w.little = a.little
      /\ w.capacity = a.capacity /\ Len(w.mem) = Len(a.mem)
      /\ \A p \in Nat : p < a.capacity =>
             At(w, p) = IF p >= a.position /\ p < a.position + Len(bytes) THEN bytes[p - a.position + 1]
                        ELSE At(a, p)
    BY <1>3, <1>4, FillIs
<1> HIDE DEF w
<1>6. Blocks(w) /\ w.capacity = Len(w.mem) * w.base /\ v <= w.capacity /\ w.size = a.size
    BY <1>3, <1>4, <1>5
<1>7. u = Moved(w, v, s)
    <2>1. u = B!setPosition(w, v)
        BY <1>1, <1>2
    <2> HIDE DEF v
    <2> QED
        BY <1>4, <1>6, <2>1, SetPositionMoves
<1>8. s \in Nat /\ v <= s /\ s <= w.capacity
    BY <1>3, <1>4, <1>5, LargerIs
<1> HIDE DEF s, v
<1>9. /\ Blocks(u) /\ Arranged(u) /\ u.position = v /\ u.size = s
      /\ \A p : At(u, p) = At(w, p)
    BY <1>4, <1>6, <1>7, <1>8, MovedIs
<1>10. \A p \in Nat : p < a.capacity =>
             At(u, p) = IF p >= a.position /\ p < a.position + Len(bytes) THEN bytes[p - a.position + 1]
                        ELSE At(a, p)
    BY <1>5, <1>9
<1>11. a.position + Len(bytes) <= a.capacity /\ u.size = B!Larger(a.size, a.position + Len(bytes))
    BY <1>4, <1>9 DEF v, s
<1>12. Stores(u, Over(f, a.position, bytes))
    BY <1>2, <1>3, <1>9, <1>10, <1>11, Overwritten
<1> QED
    BY <1>2, <1>9, <1>11, <1>12 DEF v

\* Bytes that are written one piece after the other.
LEMMA OverOver ==
    ASSUME NEW f \in Seq(Cell), NEW p \in Nat, p <= Len(f), NEW s \in Seq(B!Byte), NEW t \in Seq(B!Byte)
    PROVE  Over(Over(f, p, s), p + Len(s), t) = Over(f, p, s \o t)
<1> DEFINE g == Over(f, p, s)
           q == p + Len(s)
           r == s \o t
           h == Over(g, q, t)
           k == Over(f, p, r)
<1>1. Len(f) \in Nat /\ Len(s) \in Nat /\ Len(t) \in Nat /\ q \in Nat
    OBVIOUS
<1>2. /\ r \in Seq(B!Byte) /\ Len(r) = Len(s) + Len(t)
      /\ \A c \in 1..Len(s) : r[c] = s[c]
      /\ \A c \in 1..Len(t) : r[Len(s) + c] = t[c]
    BY Appended
<1> HIDE DEF r
<1>3. /\ g \in Seq(Cell) /\ Len(g) = B!Larger(Len(f), q)
      /\ \A i \in 1..Len(g) : g[i] = IF i \in p + 1..q THEN s[i - p] ELSE IF i <= Len(f) THEN f[i] ELSE B!Unset
    BY OverIs
<1> HIDE DEF g, q
<1>4. /\ h \in Seq(Cell) /\ Len(h) = B!Larger(Len(g), q + Len(t))
      /\ \A i \in 1..Len(h) : h[i] = IF i \in q + 1..q + Len(t) THEN t[i - q] ELSE IF i <= Len(g) THEN g[i] ELSE B!Unset
    <2>1. /\ h \in Seq(Cell) /\ Len(h) = B!Larger(Len(g), q + Len(t))
          /\ \A i \in 1..B!Larger(Len(g), q + Len(t)) : h[i] =
                IF i \in q + 1..q + Len(t) THEN t[i - q] ELSE IF i <= Len(g) THEN g[i] ELSE B!Unset
        BY <1>1, <1>3, OverIs
    <2> HIDE DEF h
    <2> QED
        BY <2>1
<1>5. /\ k \in Seq(Cell) /\ Len(k) = B!Larger(Len(f), p + Len(r))
      /\ \A i \in 1..Len(k) : k[i] = IF i \in p + 1..p + Len(r) THEN r[i - p] ELSE IF i <= Len(f) THEN f[i] ELSE B!Unset
    <2>1. /\ k \in Seq(Cell) /\ Len(k) = B!Larger(Len(f), p + Len(r))
          /\ \A i \in 1..B!Larger(Len(f), p + Len(r)) : k[i] =
                IF i \in p + 1..p + Len(r) THEN r[i - p] ELSE IF i <= Len(f) THEN f[i] ELSE B!Unset
        BY <1>2, OverIs
    <2> HIDE DEF k
    <2> QED
        BY <2>1
<1> HIDE DEF h, k
<1>6. Len(h) = Len(k) /\ Len(k) \in Nat
    <2>1. q = p + Len(s)
        BY DEF q
    <2> QED
        BY <1>1, <1>2, <1>3, <1>4, <1>5, <2>1 DEF B!Larger
<1>7. p + Len(r) = q + Len(t) /\ Len(g) \in Nat /\ Len(g) >= q /\ Len(g) >= Len(f) /\ (Len(g) = q \/ Len(g) = Len(f))
    <2>1. p + Len(r) = q + Len(t)
        BY <1>1, <1>2 DEF q
    <2> QED
        BY <1>1, <1>3, <2>1, LargerIs
<1>8. ASSUME NEW i \in 1..Len(k)
      PROVE  h[i] = k[i]
    <2>1. CASE i \in p + 1..q
        <3>1. i - p \in 1..Len(s) /\ i \in 1..Len(g) /\ ~(i \in q + 1..q + Len(t)) /\ i \in p + 1..p + Len(r)
            BY <1>1, <1>2, <1>7, <2>1 DEF q
        <3>2. h[i] = s[i - p]
            BY <1>3, <1>4, <1>6, <2>1, <3>1
        <3> QED
            BY <1>2, <1>5, <3>1, <3>2
    <2>2. CASE i \in q + 1..q + Len(t)
        <3>1. i - q \in 1..Len(t) /\ i \in p + 1..p + Len(r) /\ i - p = Len(s) + (i - q)
            BY <1>1, <1>2, <1>7, <2>2 DEF q
        <3>2. h[i] = t[i - q] /\ k[i] = r[i - p]
            BY <1>4, <1>5, <1>6, <2>2, <3>1
        <3> QED
            BY <1>2, <3>1, <3>2
    <2>3. CASE ~(i \in p + 1..q) /\ ~(i \in q + 1..q + Len(t))
        <3>1. i \in Nat /\ i >= 1 /\ ~(i \in p + 1..p + Len(r)) /\ (i <= Len(g) => i \in 1..Len(g))
            BY <1>1, <1>2, <1>6, <1>7, <2>3 DEF q
        <3>2. k[i] = IF i <= Len(f) THEN f[i] ELSE B!Unset
            BY <1>5, <3>1
        <3>3. h[i] = IF i <= Len(g) THEN g[i] ELSE B!Unset
            BY <1>4, <1>6, <2>3
        <3>4. CASE i <= Len(g)
            <4>1. g[i] = IF i <= Len(f) THEN f[i] ELSE B!Unset
                BY <1>3, <2>3, <3>1, <3>4
            <4> QED
                BY <3>2, <3>3, <3>4, <4>1
        <3>5. CASE ~(i <= Len(g))
            BY <1>1, <1>7, <3>1, <3>2, <3>3, <3>5
        <3> QED
            BY <3>4, <3>5
    <2> QED
        BY <2>1, <2>2, <2>3
<1>9. h = k
    BY <1>4, <1>5, <1>6, <1>8
<1> QED
    BY <1>9 DEF h, k, g, q, r

-----------------------------------------------------------------------------
(* Reading *)

\* The copying loop takes the bytes from position p on, which lies in block c.
LEMMA CopiedIs ==
    ASSUME NEW b, Blocks(b), NEW p \in Nat, NEW c, c = p \div b.base + 1, NEW n \in Nat
    PROVE  B!Copied(b, c, p % b.base, n) = [k \in 1..n |-> At(b, p + k - 1)]
<1> DEFINE base == b.base
           npos == p % base
<1>1. base \in Nat \ {0}
    BY DEF Blocks
<1>2. ASSUME NEW k \in 1..n
      PROVE  b.mem[B!BlockOf(b, c, npos, k - 1)][((npos + k - 1) % base) + 1] = At(b, p + k - 1)
    <2>1. k - 1 \in Nat /\ p + (k - 1) = p + k - 1
        OBVIOUS
    <2>2. npos \in Nat /\ p \div base \in Nat
        BY <1>1, Divided
    <2>3. npos + (k - 1) = npos + k - 1 /\ npos + (k - 1) \in Nat
        BY <2>1, <2>2
    <2>4. /\ p \div base + (npos + (k - 1)) \div base = (p + (k - 1)) \div base
          /\ (npos + (k - 1)) % base = (p + (k - 1)) % base
        BY <1>1, <2>1, Onward
    <2>5. B!BlockOf(b, c, npos, k - 1) = (p + k - 1) \div base + 1
        <3> DEFINE x == p \div base
                   y == (npos + (k - 1)) \div base
        <3>1. B!BlockOf(b, c, npos, k - 1) = x + 1 + y
            BY DEF B!BlockOf
        <3>2. x \in Nat /\ y \in Nat /\ x + y = (p + k - 1) \div base
            <4> DEFINE z == npos + (k - 1)
            <4> HIDE DEF z
            <4>1. z \in Nat
                BY <2>3 DEF z
            <4>2. z \div base \in Nat
                BY <1>1, <4>1, Divided
            <4> QED
                BY <2>1, <2>2, <2>4, <4>2 DEF z
        <3> HIDE DEF x, y
        <3> QED
            BY <3>1, <3>2
    <2>6. (npos + k - 1) % base = (p + k - 1) % base
        BY <2>1, <2>3, <2>4
    <2> QED
        BY <2>5, <2>6 DEF At
<1> QED
    BY <1>2 DEF B!Copied

\* What a read of n bytes returns.
ReadEnds(b, f, n, r) ==
    /\ r.out = IF n > b.size - b.position THEN "throws" ELSE IF b.position = b.capacity THEN "null" ELSE "ok"
    /\ Stores(r.b, f) /\ r.b.size = b.size /\ r.b.base = b.base /\ r.b.little = b.little
    /\ r.b.capacity = b.capacity
    /\ r.out # "ok" => r.b = b
    /\ r.out = "ok" => /\ b.position + n <= b.size /\ r.b.position = b.position + n
                       /\ r.bytes = [k \in 1..n |-> At(b, b.position + k - 1)]

LEMMA ReadIs ==
    ASSUME NEW b, NEW f, Stores(b, f), NEW n \in Nat
    PROVE  ReadEnds(b, f, n, B!read(b, n))
<1> DEFINE r == B!read(b, n)
<1>1. /\ Blocks(b) /\ Arranged(b) /\ b.position \in Nat /\ b.size \in Nat /\ b.capacity \in Nat
      /\ b.position <= b.size /\ b.size <= b.capacity /\ b.base \in Nat \ {0}
    BY DEF Stores, Blocks, Arranged
<1>2. b.cur = 0 <=> b.position = b.capacity
    <2>1. b.position \div b.base \in Nat
        BY <1>1, Divided
    <2>2. b.position \div b.base + 1 # 0
        BY <2>1
    <2> QED
        BY <1>1, <2>2 DEF Arranged
<1>3. CASE n > b.size - b.position
    <2>1. r = [out |-> "throws", bytes |-> <<>>, b |-> b]
        BY <1>3 DEF B!read, B!getReadSize
    <2>2. r.out = "throws" /\ r.b = b
        BY <2>1
    <2> HIDE DEF r
    <2>3. ReadEnds(b, f, n, r)
        BY <1>3, <2>2 DEF ReadEnds
    <2> QED
        BY <2>3 DEF r
<1>4. CASE ~(n > b.size - b.position) /\ b.position = b.capacity
    <2>1. r = [out |-> "null", bytes |-> <<>>, b |-> b]
        BY <1>2, <1>4 DEF B!read, B!getReadSize, B!NULL
    <2>2. r.out = "null" /\ r.b = b
        BY <2>1
    <2> HIDE DEF r
    <2>3. ReadEnds(b, f, n, r)
        BY <1>4, <2>2 DEF ReadEnds
    <2> QED
        BY <2>3 DEF r
<1>5. CASE ~(n > b.size - b.position) /\ b.position # b.capacity
    <2> DEFINE v == b.position + n
               bytes == B!Copied(b, b.cur, b.position % b.base, n)
               u == [b EXCEPT !.position = v, !.cur = B!BlockAfter(b, b.cur, b.position % b.base, n)]
    <2>1. r = [out |-> "ok", bytes |-> bytes, b |-> u]
        BY <1>2, <1>5 DEF B!read, B!getReadSize, B!NULL
    <2>2. v \in Nat /\ v <= b.size /\ v <= b.capacity /\ b.position < b.capacity
        BY <1>1, <1>5
    <2>3. /\ b.cur = b.position \div b.base + 1
          /\ B!BlockAfter(b, b.cur, b.position % b.base, n) = IF v = b.capacity THEN 0 ELSE v \div b.base + 1
        BY <1>1, <2>2, AfterIs
    <2>4. bytes = [k \in 1..n |-> At(b, b.position + k - 1)]
        BY <1>1, <2>3, CopiedIs
    <2>5. u = Moved(b, v, b.size)
        <3> HIDE DEF v
        <3> QED
            BY <1>1, <2>3 DEF Moved, Blocks
    <2> HIDE DEF u, v, bytes
    <2>6. b.capacity = Len(b.mem) * b.base
        BY <1>1 DEF Arranged
    <2>7. /\ Blocks(u) /\ Arranged(u)
          /\ u.base = b.base /\ u.mem = b.mem /\ u.capacity = b.capacity /\ u.little = b.little
          /\ u.position = v /\ u.size = b.size
          /\ \A p : At(u, p) = At(b, p)
        BY <1>1, <2>2, <2>5, <2>6, MovedIs
    <2>8. Stores(u, f)
        BY <2>7 DEF Stores
    <2>9. r.out = "ok" /\ r.b = u /\ r.bytes = bytes
        BY <2>1
    <2> HIDE DEF r
    <2>10. ReadEnds(b, f, n, r)
        BY <1>5, <2>2, <2>4, <2>7, <2>8, <2>9 DEF v, ReadEnds
    <2> QED
        BY <2>10 DEF r
<1> QED
    BY <1>3, <1>4, <1>5

\* No byte behind the position is unknown.
Known(b, f) == \A i \in b.position + 1..Len(f) : f[i] # B!Unset

LEMMA ReadKnown ==
    ASSUME NEW b, NEW f, Stores(b, f), Known(b, f), NEW n \in Nat, NEW r, r = B!read(b, n)
    PROVE  /\ Known(r.b, f)
           /\ r.out = "ok" => r.bytes \in Seq(B!Byte) /\ Len(r.bytes) = n
                              /\ \A k \in 1..n : r.bytes[k] = f[b.position + k]
<1>1. /\ Stores(r.b, f) /\ (r.out # "ok" => r.b = b)
      /\ r.out = "ok" => /\ b.position + n <= b.size /\ r.b.position = b.position + n
                         /\ r.bytes = [k \in 1..n |-> At(b, b.position + k - 1)]
    BY ReadIs DEF ReadEnds
<1>2. b.position \in Nat /\ b.size \in Nat /\ Len(f) = b.size /\ f \in Seq(Cell)
    BY DEF Stores, Blocks
<1>3. CASE r.out # "ok"
    BY <1>1, <1>3
<1>4. CASE r.out = "ok"
    <2>1. Known(r.b, f)
        <3>1. \A i \in r.b.position + 1..Len(f) : i \in b.position + 1..Len(f)
            BY <1>1, <1>2, <1>4
        <3> QED
            BY <3>1 DEF Known
    <2>2. ASSUME NEW k \in 1..n
          PROVE  At(b, b.position + k - 1) = f[b.position + k] /\ f[b.position + k] \in B!Byte
        <3> DEFINE i == b.position + k
        <3>1. i \in 1..Len(f) /\ i \in b.position + 1..Len(f) /\ i - 1 = b.position + k - 1
            BY <1>1, <1>2, <1>4
        <3>2. f[i] # B!Unset
            BY <3>1 DEF Known
        <3>3. At(b, i - 1) = f[i]
            BY <3>1, <3>2 DEF Stores
        <3>4. f[i] \in Cell
            BY <1>2, <3>1
        <3> QED
            BY <3>1, <3>2, <3>3, <3>4 DEF Cell
    <2>3. r.bytes = [k \in 1..n |-> f[b.position + k]]
        BY <1>1, <1>4, <2>2
    <2>4. r.bytes \in [1..n -> B!Byte]
        BY <2>2, <2>3
    <2> QED
        BY <2>1, <2>3, <2>4
<1> QED
    BY <1>3, <1>4

-----------------------------------------------------------------------------
(* Values *)

LEMMA PowersAre ==
    /\ B!Group \in Nat \ {0} /\ B!Byte = 0..2 * B!Group - 1
    /\ Bytes \in Nat \ {0} /\ GroupBits \in Nat \ {0} /\ B!Width \in Nat
    /\ 2 ^ B!Width \in Nat \ {0}
    /\ \A i \in 0..Bytes : (2 * B!Group) ^ i \in Nat \ {0}
<1>1. Bytes \in Nat \ {0} /\ GroupBits \in Nat \ {0}
    BY BoundsAssumption
<1>2. Bytes * (GroupBits + 1) \in Nat
    BY <1>1
<1> QED
    BY <1>1, <1>2, PowersAssumption DEF B!Byte, B!Width

\* FixedValue sums up the bytes, the lowest first.
Low(b, bytes) == IF b.little THEN bytes ELSE B!Reverse(bytes)

Sums(b, bytes, n, sum) ==
    /\ B!FixedValue(b, bytes) = sum[n] /\ sum[0] = 0
    /\ \A i \in 1..n : sum[i] = sum[i - 1] + Low(b, bytes)[i] * (2 * B!Group) ^ (i - 1)

LEMMA SumIs ==
    ASSUME NEW b, NEW bytes, NEW n \in Nat, Len(bytes) = n
    PROVE  \E sum : Sums(b, bytes, n, sum)
<1> DEFINE step(x, i) == x + Low(b, bytes)[i] * (2 * B!Group) ^ (i - 1)
           Body(g) == [i \in 0..n |-> IF i = 0 THEN 0 ELSE step(g[i - 1], i)]
           after == CHOOSE g : g = Body(g)
<1>1. B!FixedValue(b, bytes) = after[n]
    BY DEF B!FixedValue, Low
<1>2. n \in Nat
    OBVIOUS
<1> HIDE DEF step
<1> DEFINE Part(m, g) == /\ g = [i \in 0..m |-> g[i]]
                         /\ \A i \in 0..m : g[i] = IF i = 0 THEN 0 ELSE step(g[i - 1], i)
           U == {m \in Nat : ~\E g : Part(m, g)}
<1>3. U = {}
    <2> SUFFICES ASSUME U # {} PROVE FALSE
        OBVIOUS
    <2>1. PICK m \in U : \A y \in U : m <= y
        <3>1. U \in SUBSET Nat
            OBVIOUS
        <3> HIDE DEF U
        <3> QED
            BY <3>1, LeastExists
    <2>2. m \in Nat
        OBVIOUS
    <2>3. m # 0
        <3> SUFFICES ASSUME m = 0 PROVE FALSE
            OBVIOUS
        <3>1. 0..0 = {0}
            OBVIOUS
        <3>2. Part(0, [i \in {0} |-> 0])
            BY <3>1
        <3> QED
            BY <3>2
    <2>4. m - 1 \in Nat /\ m - 1 \notin U
        <3>1. m - 1 \in Nat /\ ~(m <= m - 1)
            BY <2>2, <2>3
        <3> HIDE DEF U
        <3> QED
            BY <2>1, <3>1
    <2>5. PICK g : Part(m - 1, g)
        BY <2>4
    <2> DEFINE h == [i \in 0..m |-> IF i = m THEN step(g[m - 1], m) ELSE g[i]]
    <2>6. /\ \A i \in 0..m : i = m \/ i \in 0..(m - 1)
          /\ \A i \in 0..m : i # 0 => i - 1 \in 0..(m - 1) /\ i - 1 \in 0..m /\ i - 1 # m
        BY <2>2
    <2>7. \A i \in 0..(m - 1) : i \in 0..m /\ h[i] = g[i]
        BY <2>2
    <2>8. m \in 0..m /\ h[m] = step(g[m - 1], m)
        BY <2>2
    <2>9. h = [i \in 0..m |-> h[i]]
        OBVIOUS
    <2>10. \A i \in 0..(m - 1) : g[i] = IF i = 0 THEN 0 ELSE step(g[i - 1], i)
        BY <2>5
    <2> HIDE DEF h
    <2>11. \A i \in 0..m : h[i] = IF i = 0 THEN 0 ELSE step(h[i - 1], i)
        BY <2>3, <2>6, <2>7, <2>8, <2>10
    <2>12. Part(m, h)
        BY <2>9, <2>11
    <2> QED
        BY <2>12
<1>4. after = Body(after)
    <2>1. PICK g : Part(n, g)
        BY <1>2, <1>3
    <2>2. g = Body(g)
        BY <2>1
    <2> QED
        BY <2>2
<1> HIDE DEF after
<1>5. \A i \in 0..n : after[i] = IF i = 0 THEN 0 ELSE step(after[i - 1], i)
    BY <1>4
<1> HIDE DEF Part, U, Body
<1>6. after[0] = 0 /\ \A i \in 1..n : after[i] = step(after[i - 1], i)
    BY <1>2, <1>5
<1>7. Sums(b, bytes, n, after)
    BY <1>1, <1>6 DEF step, Sums
<1> QED
    BY <1>7

\* A fixed-length value of known bytes is a number.
LEMMA FixedValueNat ==
    ASSUME NEW b, NEW bytes \in Seq(B!Byte), Len(bytes) <= Bytes
    PROVE  B!FixedValue(b, bytes) \in Nat
<1> DEFINE low == Low(b, bytes)
           n == Len(bytes)
           pow(i) == (2 * B!Group) ^ (i - 1)
<1>1. n \in Nat
    OBVIOUS
<1>2. PICK sum : /\ B!FixedValue(b, bytes) = sum[n] /\ sum[0] = 0
                 /\ \A i \in 1..n : sum[i] = sum[i - 1] + low[i] * pow(i)
    <2>1. \E sum : Sums(b, bytes, Len(bytes), sum)
        BY <1>1, SumIs
    <2> QED
        BY <2>1 DEF Sums
<1>3. ASSUME NEW i \in 1..n, sum[i - 1] \in Nat
      PROVE  sum[i] \in Nat
    <2>1. low[i] \in Nat
        <3>1. bytes[i] \in B!Byte
            OBVIOUS
        <3>2. B!Reverse(bytes)[i] \in B!Byte
            <4>1. Len(bytes) - i + 1 \in 1..Len(bytes)
                BY <1>1
            <4> QED
                BY <4>1 DEF B!Reverse
        <3>3. B!Byte \subseteq Nat
            BY PowersAre
        <3> QED
            BY <3>1, <3>2, <3>3 DEF Low
    <2>2. pow(i) \in Nat
        <3>1. i - 1 \in 0..Bytes
            BY <1>1, PowersAre
        <3> QED
            BY <3>1, PowersAre
    <2> DEFINE x == sum[i - 1]
               y == low[i]
               z == pow(i)
    <2>3. x \in Nat /\ y \in Nat /\ z \in Nat /\ sum[i] = x + y * z
        BY <1>2, <1>3, <2>1, <2>2
    <2> HIDE DEF x, y, z
    <2>4. x + y * z \in Nat
        BY <2>3
    <2> QED
        BY <2>3, <2>4
<1> HIDE DEF low, n, pow
<1> DEFINE Bad == {i \in 0..n : sum[i] \notin Nat}
<1>4. Bad = {}
    <2> SUFFICES ASSUME Bad # {} PROVE FALSE
        OBVIOUS
    <2>1. PICK i \in Bad : \A y \in Bad : i <= y
        <3>1. Bad \in SUBSET Nat
            BY <1>1
        <3> HIDE DEF Bad
        <3> QED
            BY <3>1, LeastExists
    <2>2. i \in 0..n /\ i \in Nat /\ sum[i] \notin Nat
        BY <1>1
    <2>3. i # 0
        BY <1>2, <2>2
    <2>4. i - 1 \in 0..n /\ i \in 1..n /\ ~(i <= i - 1)
        BY <1>1, <2>2, <2>3
    <2>5. i - 1 \notin Bad
        <3> HIDE DEF Bad
        <3> QED
            BY <2>1, <2>4
    <2> QED
        BY <1>3, <2>2, <2>4, <2>5
<1> QED
    BY <1>1, <1>2, <1>4

LEMMA UnsignedNat ==
    ASSUME NEW v \in Int
    PROVE  B!Unsigned(v) \in Nat
<1> DEFINE w == 2 ^ B!Width
<1>1. w \in Nat \ {0}
    BY PowersAre
<1> HIDE DEF w
<1>2. v % w \in Nat
    BY <1>1
<1> QED
    BY <1>2 DEF B!Unsigned, w

\* A read of a value leaves the bytes alone and the position inside them.
Kept(r, b, f) ==
    /\ Stores(r.b, f) /\ Known(r.b, f) /\ r.b.size = b.size /\ r.b.base = b.base /\ r.b.little = b.little
    /\ r.b.capacity = b.capacity /\ r.out \in {"ok", "throws", "null"}

LEMMA ReadKept ==
    ASSUME NEW b, NEW f, Stores(b, f), Known(b, f), NEW n \in Nat
    PROVE  Kept(B!read(b, n), b, f)
<1> DEFINE r == B!read(b, n)
<1>3. r = B!read(b, n)
    OBVIOUS
<1> HIDE DEF r
<1>1. /\ Stores(r.b, f) /\ r.b.size = b.size /\ r.b.base = b.base /\ r.b.little = b.little
      /\ r.b.capacity = b.capacity /\ r.out \in {"ok", "throws", "null"}
    <2>1. ReadEnds(b, f, n, r)
        BY <1>3, ReadIs
    <2> QED
        BY <2>1 DEF ReadEnds
<1>2. Known(r.b, f)
    BY <1>3, ReadKnown
<1> QED
    BY <1>1, <1>2 DEF Kept, r

LEMMA ReadFixedIs ==
    ASSUME NEW b, NEW f, Stores(b, f), Known(b, f), NEW n \in Nat, n <= Bytes
    PROVE  Kept(B!readFixed(b, n), b, f) /\ B!readFixed(b, n).value \in Nat
<1> DEFINE r == B!read(b, n)
           v == IF r.out = "ok" THEN B!FixedValue(b, r.bytes) ELSE 0
<1>1. B!readFixed(b, n) = [out |-> r.out, b |-> r.b, value |-> v]
    BY DEF B!readFixed
<1>2. Kept(r, b, f)
    BY ReadKept
<1>3. v \in Nat
    <2>1. r.out = "ok" => r.bytes \in Seq(B!Byte) /\ Len(r.bytes) = n
        BY ReadKnown
    <2> HIDE DEF r
    <2> QED
        BY <2>1, FixedValueNat
<1> HIDE DEF r, v
<1>4. B!readFixed(b, n).out = r.out /\ B!readFixed(b, n).b = r.b /\ B!readFixed(b, n).value = v
    BY <1>1
<1> QED
    BY <1>2, <1>3, <1>4 DEF Kept

\* readUint: a loop over the bytes.
Rounds == (B!Width + GroupBits - 1) \div GroupBits

First(b) == [out |-> "ok", value |-> 0, more |-> TRUE, b |-> b]

Round(s, i) ==
    IF s.out # "ok" \/ ~s.more THEN s
    ELSE IF B!read(s.b, 1).out # "ok" THEN [s EXCEPT !.out = B!read(s.b, 1).out, !.b = B!read(s.b, 1).b]
    ELSE [out |-> "ok", b |-> B!read(s.b, 1).b, more |-> B!read(s.b, 1).bytes[1] >= B!Group,
          value |-> B!Unsigned(s.value + (B!read(s.b, 1).bytes[1] % B!Group) * B!Group ^ (i - 1))]

LEMMA RoundsNat == Rounds \in Nat
<1> DEFINE x == B!Width + GroupBits - 1
<1>1. x \in Nat /\ GroupBits \in Nat \ {0}
    BY PowersAre
<1> HIDE DEF x
<1>2. x \div GroupBits \in Nat
    BY <1>1, Divided
<1> QED
    BY <1>2 DEF x, Rounds

LEMMA LoopIs ==
    ASSUME NEW b
    PROVE  \E after : /\ B!readUint(b) = after[Rounds] /\ after[0] = First(b)
                      /\ \A i \in 1..Rounds : after[i] = Round(after[i - 1], i)
<1> DEFINE first == First(b)
           step(s, i) == Round(s, i)
           Body(g) == [i \in 0..Rounds |-> IF i = 0 THEN first ELSE step(g[i - 1], i)]
           after == CHOOSE g : g = Body(g)
<1>1. B!readUint(b) = after[Rounds]
    BY DEF B!readUint, Rounds, Round, First
<1>2. Rounds \in Nat
    BY RoundsNat
<1> HIDE DEF first, step
<1> DEFINE Part(m, g) == /\ g = [i \in 0..m |-> g[i]]
                         /\ \A i \in 0..m : g[i] = IF i = 0 THEN first ELSE step(g[i - 1], i)
           U == {m \in Nat : ~\E g : Part(m, g)}
<1>3. U = {}
    <2> SUFFICES ASSUME U # {} PROVE FALSE
        OBVIOUS
    <2>1. PICK m \in U : \A y \in U : m <= y
        <3>1. U \in SUBSET Nat
            OBVIOUS
        <3> HIDE DEF U
        <3> QED
            BY <3>1, LeastExists
    <2>2. m \in Nat
        OBVIOUS
    <2>3. m # 0
        <3> SUFFICES ASSUME m = 0 PROVE FALSE
            OBVIOUS
        <3>1. 0..0 = {0}
            OBVIOUS
        <3>2. Part(0, [i \in {0} |-> first])
            BY <3>1
        <3> QED
            BY <3>2
    <2>4. m - 1 \in Nat /\ m - 1 \notin U
        <3>1. m - 1 \in Nat /\ ~(m <= m - 1)
            BY <2>2, <2>3
        <3> HIDE DEF U
        <3> QED
            BY <2>1, <3>1
    <2>5. PICK g : Part(m - 1, g)
        BY <2>4
    <2> DEFINE h == [i \in 0..m |-> IF i = m THEN step(g[m - 1], m) ELSE g[i]]
    <2>6. /\ \A i \in 0..m : i = m \/ i \in 0..(m - 1)
          /\ \A i \in 0..m : i # 0 => i - 1 \in 0..(m - 1) /\ i - 1 \in 0..m /\ i - 1 # m
        BY <2>2
    <2>7. \A i \in 0..(m - 1) : i \in 0..m /\ h[i] = g[i]
        BY <2>2
    <2>8. m \in 0..m /\ h[m] = step(g[m - 1], m)
        BY <2>2
    <2>9. h = [i \in 0..m |-> h[i]]
        OBVIOUS
    <2>10. \A i \in 0..(m - 1) : g[i] = IF i = 0 THEN first ELSE step(g[i - 1], i)
        BY <2>5
    <2> HIDE DEF h
    <2>11. \A i \in 0..m : h[i] = IF i = 0 THEN first ELSE step(h[i - 1], i)
        BY <2>3, <2>6, <2>7, <2>8, <2>10
    <2>12. Part(m, h)
        BY <2>9, <2>11
    <2> QED
        BY <2>12
<1>4. after = Body(after)
    <2>1. PICK g : Part(Rounds, g)
        BY <1>2, <1>3
    <2>2. g = Body(g)
        BY <2>1
    <2> QED
        BY <2>2
<1> HIDE DEF after
<1>5. \A i \in 0..Rounds : after[i] = IF i = 0 THEN first ELSE step(after[i - 1], i)
    BY <1>4
<1> HIDE DEF Part, U, Body
<1>6. after[0] = first /\ \A i \in 1..Rounds : after[i] = step(after[i - 1], i)
    BY <1>2, <1>5
<1> QED
    BY <1>1, <1>6 DEF step, first

Reading(x, b, f) ==
    /\ x = [out |-> x.out, value |-> x.value, more |-> x.more, b |-> x.b]
    /\ x.value \in Nat /\ Kept(x, b, f)

LEMMA ReadUintIs ==
    ASSUME NEW b, NEW f, Stores(b, f), Known(b, f)
    PROVE  Kept(B!readUint(b), b, f) /\ B!readUint(b).value \in Nat
<1> DEFINE rounds == Rounds
           first == First(b)
           step(s, i) == Round(s, i)
<1>1. PICK after : /\ B!readUint(b) = after[rounds] /\ after[0] = first
                   /\ \A i \in 1..rounds : after[i] = step(after[i - 1], i)
    BY LoopIs
<1>2. rounds \in Nat
    BY RoundsNat
<1>3. Reading(first, b, f)
    <2>1. /\ first.out = "ok" /\ first.value = 0 /\ first.more = TRUE /\ first.b = b
          /\ first = [out |-> first.out, value |-> first.value, more |-> first.more, b |-> first.b]
        BY DEF First
    <2> HIDE DEF first
    <2> QED
        BY <2>1 DEF Reading, Kept
<1>4. ASSUME NEW i \in 1..rounds, NEW s, Reading(s, b, f)
      PROVE  Reading(step(s, i), b, f)
    <2> DEFINE r == B!read(s.b, 1)
               p == B!Group ^ (i - 1)
    <2>1. /\ s = [out |-> s.out, value |-> s.value, more |-> s.more, b |-> s.b]
          /\ s.value \in Nat /\ Kept(s, b, f)
        BY <1>4 DEF Reading
    <2>2. Stores(s.b, f) /\ Known(s.b, f) /\ s.b.size = b.size /\ s.b.base = b.base /\ s.b.little = b.little
          /\ s.b.capacity = b.capacity
        BY <2>1 DEF Kept
    <2>3. Kept(r, s.b, f) /\ (r.out = "ok" => r.bytes \in Seq(B!Byte) /\ Len(r.bytes) = 1)
        <3>1. 1 \in Nat
            OBVIOUS
        <3>2. Kept(r, s.b, f)
            BY <2>2, <3>1, ReadKept
        <3>3. r = B!read(s.b, 1)
            OBVIOUS
        <3> HIDE DEF r, step
        <3>4. r.out = "ok" => r.bytes \in Seq(B!Byte) /\ Len(r.bytes) = 1
            BY <2>2, <3>1, <3>3, ReadKnown
        <3> QED
            BY <3>2, <3>4
    <2> DEFINE more == r.bytes[1] >= B!Group
               value == B!Unsigned(s.value + (r.bytes[1] % B!Group) * p)
               y == step(s, i)
    <2>4. y = IF s.out # "ok" \/ ~s.more THEN s
              ELSE IF r.out # "ok" THEN [s EXCEPT !.out = r.out, !.b = r.b]
              ELSE [out |-> "ok", b |-> r.b, more |-> more, value |-> value]
        BY DEF Round
    <2>5. r.out = "ok" => value \in Nat
        <3> SUFFICES ASSUME r.out = "ok" PROVE value \in Nat
            OBVIOUS
        <3> DEFINE x == r.bytes[1]
                   g == B!Group
        <3>1. x \in B!Byte
            BY <2>3
        <3>2. x \in Nat /\ g \in Nat \ {0} /\ p \in Nat
            <4>1. x \in Nat
                BY <3>1, PowersAre
            <4>2. i - 1 \in 0..rounds
                BY <1>2
            <4>3. p \in Nat
                BY <4>2, PowersAssumption DEF Rounds
            <4> QED
                BY <4>1, <4>3, PowersAre
        <3> HIDE DEF x, g, p
        <3>3. x % g \in Nat
            BY <3>2
        <3>4. s.value + (x % g) * p \in Int
            BY <2>1, <3>2, <3>3
        <3> QED
            BY <3>4, UnsignedNat DEF x, g
    <2>6. Kept(r, b, f)
        BY <2>2, <2>3 DEF Kept
    <2> HIDE DEF r, more, value, y, step
    <2>7. CASE s.out # "ok" \/ ~s.more
        BY <1>4, <2>4, <2>7 DEF y
    <2>8. CASE ~(s.out # "ok" \/ ~s.more) /\ r.out # "ok"
        <3>1. y = [out |-> r.out, value |-> s.value, more |-> s.more, b |-> r.b]
            BY <2>1, <2>4, <2>8
        <3>2. /\ y = [out |-> y.out, value |-> y.value, more |-> y.more, b |-> y.b]
              /\ y.out = r.out /\ y.b = r.b /\ y.value = s.value
            BY <3>1
        <3>3. Reading(y, b, f)
            BY <2>1, <2>6, <3>2 DEF Reading, Kept
        <3> QED
            BY <3>3 DEF y
    <2>9. CASE ~(s.out # "ok" \/ ~s.more) /\ r.out = "ok"
        <3>1. y = [out |-> "ok", value |-> value, more |-> more, b |-> r.b]
            BY <2>4, <2>9
        <3>2. /\ y = [out |-> y.out, value |-> y.value, more |-> y.more, b |-> y.b]
              /\ y.out = r.out /\ y.b = r.b /\ y.value = value
            BY <2>9, <3>1
        <3>3. Reading(y, b, f)
            BY <2>5, <2>6, <2>9, <3>2 DEF Reading, Kept
        <3> QED
            BY <3>3 DEF y
    <2> QED
        BY <2>7, <2>8, <2>9
<1> HIDE DEF step, first, rounds
<1> DEFINE Bad == {i \in 0..rounds : ~Reading(after[i], b, f)}
<1>5. Bad = {}
    <2> SUFFICES ASSUME Bad # {} PROVE FALSE
        OBVIOUS
    <2>1. PICK i \in Bad : \A y \in Bad : i <= y
        <3>1. Bad \in SUBSET Nat
            BY <1>2
        <3> HIDE DEF Bad
        <3> QED
            BY <3>1, LeastExists
    <2>2. i \in 0..rounds /\ i \in Nat /\ ~Reading(after[i], b, f)
        BY <1>2
    <2>3. i # 0
        BY <1>1, <1>3, <2>2
    <2>4. i - 1 \in 0..rounds /\ i \in 1..rounds /\ ~(i <= i - 1)
        BY <1>2, <2>2, <2>3
    <2>5. i - 1 \notin Bad
        <3> HIDE DEF Bad
        <3> QED
            BY <2>1, <2>4
    <2>6. Reading(after[i - 1], b, f)
        BY <2>4, <2>5
    <2>7. after[i] = step(after[i - 1], i)
        BY <1>1, <2>4
    <2> QED
        BY <1>4, <2>2, <2>4, <2>6, <2>7
<1>6. Reading(after[rounds], b, f)
    BY <1>2, <1>5
<1> QED
    BY <1>1, <1>6 DEF Reading

LEMMA ReadStringIs ==
    ASSUME NEW b, NEW f, Stores(b, f), Known(b, f), NEW type
    PROVE  Kept(B!readString(b, type), b, f)
<1> DEFINE length == IF type = "StringVint" THEN B!readUint(b) ELSE B!readFixed(b, Bytes)
           r == B!read(length.b, length.value)
           y == B!readString(b, type)
<1>1. y = IF length.out # "ok" THEN [out |-> length.out, value |-> <<>>, b |-> length.b]
          ELSE [out |-> r.out, value |-> r.bytes, b |-> r.b]
    BY DEF B!readString
<1>2. Kept(length, b, f) /\ length.value \in Nat
    <2>1. Bytes \in Nat /\ Bytes <= Bytes
        BY PowersAre
    <2>2. Kept(B!readUint(b), b, f) /\ B!readUint(b).value \in Nat
        BY ReadUintIs
    <2>3. Kept(B!readFixed(b, Bytes), b, f) /\ B!readFixed(b, Bytes).value \in Nat
        BY <2>1, ReadFixedIs
    <2> QED
        BY <2>2, <2>3
<1> HIDE DEF length
<1>3. Stores(length.b, f) /\ Known(length.b, f) /\ length.b.size = b.size /\ length.b.base = b.base
      /\ length.b.little = b.little /\ length.b.capacity = b.capacity
    BY <1>2 DEF Kept
<1>4. Kept(r, length.b, f)
    BY <1>2, <1>3, ReadKept
<1> HIDE DEF r, y
<1>5. Kept(y, b, f)
    <2>1. CASE length.out # "ok"
        <3>1. y.out = length.out /\ y.b = length.b
            BY <1>1, <2>1
        <3> QED
            BY <1>2, <3>1 DEF Kept
    <2>2. CASE length.out = "ok"
        <3>1. y.out = r.out /\ y.b = r.b
            BY <1>1, <2>2
        <3> QED
            BY <1>3, <1>4, <3>1 DEF Kept
    <2> QED
        BY <2>1, <2>2
<1> QED
    BY <1>5 DEF y

\* Whatever the type.
LEMMA DecodedIs ==
    ASSUME NEW b, NEW f, Stores(b, f), Known(b, f), NEW type \in B!Type \ {"Raw"}
    PROVE  Kept(B!Decoded(b, type), b, f)
<1>1. 1 \in Nat /\ Bytes \in Nat /\ 1 <= Bytes /\ Bytes <= Bytes
    BY PowersAre
<1>2. Kept(B!readFixed(b, 1), b, f) /\ Kept(B!readFixed(b, Bytes), b, f)
    BY <1>1, ReadFixedIs
<1>3. Kept(B!readUint(b), b, f)
    BY ReadUintIs
<1>4. type \in {"Fint8", "Fixed", "Signed", "Uint", "Int", "StringF", "StringVint"}
    BY DEF B!Type
<1>5. CASE type = "Fint8"
    BY <1>2, <1>5 DEF B!Decoded
<1>6. CASE type = "Fixed"
    BY <1>2, <1>6 DEF B!Decoded
<1>7. CASE type = "Signed"
    <2> DEFINE r == B!readFixed(b, Bytes)
               y == [r EXCEPT !.value = B!Signed(@)]
    <2>1. B!Decoded(b, type) = y
        BY <1>7 DEF B!Decoded
    <2>2. y.out = r.out /\ y.b = r.b
        BY DEF B!readFixed
    <2>3. Kept(r, b, f)
        BY <1>2
    <2> HIDE DEF y, r
    <2> QED
        BY <2>1, <2>2, <2>3 DEF Kept
<1>8. CASE type = "Uint"
    BY <1>3, <1>8 DEF B!Decoded
<1>9. CASE type = "Int"
    <2> DEFINE r == B!readUint(b)
               y == [r EXCEPT !.value = B!DecodeZigzag(@)]
    <2>1. B!Decoded(b, type) = y
        BY <1>9 DEF B!Decoded
    <2>3. Kept(r, b, f)
        BY <1>3
    <2> HIDE DEF r
    <2>2. y.out = r.out /\ y.b = r.b
        OBVIOUS
    <2> HIDE DEF y
    <2> QED
        BY <2>1, <2>2, <2>3 DEF Kept
<1>10. CASE type \in {"StringF", "StringVint"}
    <2>1. B!Decoded(b, type) = B!readString(b, type)
        BY <1>10 DEF B!Decoded
    <2> QED
        BY <2>1, ReadStringIs
<1> QED
    BY <1>4, <1>5, <1>6, <1>7, <1>8, <1>9, <1>10

-----------------------------------------------------------------------------
(* What is written *)

LEMMA FixedBytes ==
    ASSUME NEW b, NEW v \in Nat, NEW n \in Nat, n <= Bytes
    PROVE  B!Fixed(b, v, n) \in Seq(B!Byte) /\ Len(B!Fixed(b, v, n)) = n
<1> DEFINE low == [i \in 1..n |-> (v \div (2 * B!Group) ^ (i - 1)) % (2 * B!Group)]
<1>1. ASSUME NEW i \in 1..n PROVE (v \div (2 * B!Group) ^ (i - 1)) % (2 * B!Group) \in B!Byte
    <2> DEFINE p == (2 * B!Group) ^ (i - 1)
               g == 2 * B!Group
    <2>1. p \in Nat \ {0} /\ g \in Nat \ {0}
        <3>1. i - 1 \in 0..Bytes
            BY PowersAre
        <3> QED
            BY <3>1, PowersAre
    <2> HIDE DEF p, g
    <2>2. v \div p \in Nat
        BY <2>1, Divided
    <2> DEFINE q == v \div p
    <2> HIDE DEF q
    <2>3. q \in Nat
        BY <2>2 DEF q
    <2>4. q % g \in 0..g - 1
        BY <2>1, <2>3
    <2> QED
        BY <2>4, PowersAre DEF q, p, g
<1>2. low \in Seq(B!Byte) /\ Len(low) = n
    <2>1. low \in [1..n -> B!Byte]
        BY <1>1
    <2> HIDE DEF low
    <2> QED
        BY <2>1
<1> HIDE DEF low
<1>3. B!Reverse(low) \in Seq(B!Byte) /\ Len(B!Reverse(low)) = n
    <2>1. \A i \in 1..Len(low) : Len(low) - i + 1 \in 1..Len(low)
        BY <1>2
    <2>2. B!Reverse(low) = [i \in 1..Len(low) |-> low[Len(low) - i + 1]]
        BY DEF B!Reverse
    <2>3. B!Reverse(low) \in [1..n -> B!Byte]
        BY <1>2, <2>1, <2>2
    <2> QED
        BY <2>3
<1>4. B!Fixed(b, v, n) = IF b.little THEN low ELSE B!Reverse(low)
    BY DEF B!Fixed, low
<1> QED
    BY <1>2, <1>3, <1>4

LEMMA Smaller ==
    ASSUME NEW g \in Nat, g >= 2, NEW v \in Nat, v >= g
    PROVE  v \div g \in Nat /\ v \div g < v /\ (v % g) + g \in 0..2 * g - 1 /\ v % g \in Nat
<1>1. v \div g \in Nat /\ v % g \in Nat /\ v % g < g /\ v = g * (v \div g) + (v % g)
    BY Divided
<1> DEFINE q == v \div g
           r == v % g
<1>2. q \in Nat /\ r \in Nat /\ r < g /\ v = g * q + r
    BY <1>1
<1> HIDE DEF q, r
<1>3. q # 0
    BY <1>2
<1>4. g * q >= 2 * q
    BY <1>2
<1>5. q < v
    BY <1>2, <1>3, <1>4
<1> QED
    BY <1>1, <1>5 DEF q

\* The recursive function Varint has the value its definition says.
VarintOf(g, v) == IF v < B!Group THEN <<v>> ELSE <<(v % B!Group) + B!Group>> \o g[v \div B!Group]

LEMMA VarintIs ==
    \A v \in Nat : B!Varint[v] = VarintOf(B!Varint, v)
<1> DEFINE Part(m, g) == /\ g = [i \in 0..m |-> g[i]]
                         /\ \A i \in 0..m : g[i] = VarintOf(g, i)
           U == {m \in Nat : ~\E g : Part(m, g)}
           down(v) == v \div B!Group
<1>1. B!Group \in Nat /\ B!Group >= 2
    BY PowersAssumption
<1>2. \A i \in Nat : i >= B!Group => down(i) \in Nat /\ down(i) < i
    BY <1>1, Smaller
<1>3. ASSUME NEW g, NEW h, NEW i \in Nat, i >= B!Group => g[down(i)] = h[down(i)]
      PROVE  VarintOf(g, i) = VarintOf(h, i)
    BY <1>1, <1>3 DEF VarintOf
<1> HIDE DEF down
<1>4. U = {}
    <2> SUFFICES ASSUME U # {} PROVE FALSE
        OBVIOUS
    <2>1. PICK m \in U : \A y \in U : m <= y
        <3>1. U \in SUBSET Nat
            OBVIOUS
        <3> HIDE DEF U
        <3> QED
            BY <3>1, LeastExists
    <2>2. m \in Nat
        OBVIOUS
    <2>3. \E g : \A i \in 0..m : i # m => g[i] = VarintOf(g, i)
        <3>1. CASE m = 0
            BY <3>1
        <3>2. CASE m # 0
            <4>1. m - 1 \in Nat /\ ~(m <= m - 1)
                BY <2>2, <3>2
            <4>2. m - 1 \notin U
                <5> HIDE DEF U
                <5> QED
                    BY <2>1, <4>1
            <4>3. PICK g : Part(m - 1, g)
                BY <4>1, <4>2
            <4>4. \A i \in 0..m : i # m => i \in 0..(m - 1)
                BY <2>2
            <4> QED
                BY <4>3, <4>4
        <3> QED
            BY <3>1, <3>2
    <2>4. PICK g : \A i \in 0..m : i # m => g[i] = VarintOf(g, i)
        BY <2>3
    <2> DEFINE h == [i \in 0..m |-> IF i = m THEN VarintOf(g, m) ELSE g[i]]
    <2>5. h = [i \in 0..m |-> h[i]] /\ \A i \in 0..m : h[i] = IF i = m THEN VarintOf(g, m) ELSE g[i]
        OBVIOUS
    <2> HIDE DEF h
    <2>6. ASSUME NEW i \in 0..m PROVE h[i] = VarintOf(h, i)
        <3>1. i \in Nat /\ (i >= B!Group => down(i) \in 0..m /\ down(i) # m)
            BY <1>2, <2>2
        <3>2. i >= B!Group => g[down(i)] = h[down(i)]
            BY <2>5, <3>1
        <3>3. VarintOf(g, i) = VarintOf(h, i)
            BY <1>3, <3>1, <3>2
        <3> QED
            BY <2>4, <2>5, <3>3
    <2>7. Part(m, h)
        BY <2>5, <2>6
    <2> QED
        BY <2>2, <2>7
<1> DEFINE W == [v \in Nat |-> CHOOSE g : Part(v, g)]
<1>5. \A v \in Nat : Part(v, W[v])
    <2>1. \A v \in Nat : \E g : Part(v, g)
        BY <1>4
    <2> HIDE DEF Part
    <2> QED
        BY <2>1
<1>6. ASSUME NEW m \in Nat, NEW n \in Nat
      PROVE  \A i \in 0..m : i \in 0..n => W[m][i] = W[n][i]
    <2> DEFINE D == {i \in 0..m : i \in 0..n /\ W[m][i] # W[n][i]}
    <2> SUFFICES ASSUME D # {} PROVE FALSE
        OBVIOUS
    <2>1. PICK i \in D : \A y \in D : i <= y
        <3>1. D \in SUBSET Nat
            OBVIOUS
        <3> HIDE DEF D
        <3> QED
            BY <3>1, LeastExists
    <2>2. i \in Nat /\ i \in 0..m /\ i \in 0..n /\ W[m][i] # W[n][i]
        OBVIOUS
    <2>3. i >= B!Group => W[m][down(i)] = W[n][down(i)]
        <3> SUFFICES ASSUME i >= B!Group PROVE W[m][down(i)] = W[n][down(i)]
            OBVIOUS
        <3>1. down(i) \in 0..m /\ down(i) \in 0..n /\ ~(i <= down(i))
            BY <1>2, <2>2
        <3>2. down(i) \notin D
            <4> HIDE DEF D
            <4> QED
                BY <2>1, <3>1
        <3> QED
            BY <3>1, <3>2
    <2> HIDE DEF W
    <2>4. VarintOf(W[m], i) = VarintOf(W[n], i)
        BY <1>3, <2>2, <2>3
    <2>5. W[m][i] = VarintOf(W[m], i) /\ W[n][i] = VarintOf(W[n], i)
        BY <1>5, <2>2
    <2> QED
        BY <2>2, <2>4, <2>5
<1> HIDE DEF W
<1> DEFINE G == [v \in Nat |-> W[v][v]]
           Body(g) == [v \in Nat |-> VarintOf(g, v)]
<1>7. \A v \in Nat : G[v] = VarintOf(G, v)
    <2> TAKE v \in Nat
    <2>1. v \in 0..v /\ W[v][v] = VarintOf(W[v], v)
        <3>1. v \in 0..v
            OBVIOUS
        <3>2. \A i \in 0..v : W[v][i] = VarintOf(W[v], i)
            BY <1>5
        <3> QED
            BY <3>1, <3>2
    <2>2. v >= B!Group => W[v][down(v)] = G[down(v)]
        <3> SUFFICES ASSUME v >= B!Group PROVE W[v][down(v)] = G[down(v)]
            OBVIOUS
        <3>1. down(v) \in Nat /\ down(v) \in 0..v /\ down(v) \in 0..down(v)
            BY <1>2
        <3>2. W[v][down(v)] = W[down(v)][down(v)]
            BY <1>6, <3>1
        <3> QED
            BY <3>1, <3>2
    <2>3. G[v] = W[v][v]
        OBVIOUS
    <2> HIDE DEF G
    <2>4. VarintOf(W[v], v) = VarintOf(G, v)
        BY <1>3, <2>2
    <2> QED
        BY <2>1, <2>3, <2>4
<1>8. G = Body(G)
    <2>1. G = [v \in Nat |-> G[v]]
        OBVIOUS
    <2> HIDE DEF G
    <2> QED
        BY <1>7, <2>1
<1>9. B!Varint = CHOOSE g : g = Body(g)
    BY DEF B!Varint, VarintOf
<1> HIDE DEF G
<1>10. B!Varint = Body(B!Varint)
    BY <1>8, <1>9
<1> DEFINE f == B!Varint
<1>11. f = Body(f)
    BY <1>10
<1> HIDE DEF f
<1>12. \A v \in Nat : f[v] = VarintOf(f, v)
    BY <1>11
<1> QED
    BY <1>12 DEF f

LEMMA VarintBytes ==
    ASSUME NEW v \in Nat
    PROVE  B!Varint[v] \in Seq(B!Byte) /\ Len(B!Varint[v]) >= 1
<1> DEFINE f == B!Varint
           Good(x) == f[x] \in Seq(B!Byte) /\ Len(f[x]) >= 1
           Bad == {x \in Nat : ~Good(x)}
<1>1. B!Group \in Nat /\ B!Group >= 2 /\ B!Byte = 0..2 * B!Group - 1
    BY PowersAre, PowersAssumption
<1>2. \A x \in Nat : f[x] = VarintOf(f, x)
    BY VarintIs
<1> HIDE DEF f
<1>3. Bad = {}
    <2> SUFFICES ASSUME Bad # {} PROVE FALSE
        OBVIOUS
    <2>1. PICK x \in Bad : \A y \in Bad : x <= y
        <3>1. Bad \in SUBSET Nat
            OBVIOUS
        <3> HIDE DEF Bad
        <3> QED
            BY <3>1, LeastExists
    <2>2. x \in Nat /\ ~Good(x)
        OBVIOUS
    <2>3. CASE x < B!Group
        <3>1. f[x] = <<x>>
            BY <1>2, <2>2, <2>3 DEF VarintOf
        <3>2. x \in B!Byte
            BY <1>1, <2>2, <2>3
        <3> QED
            BY <2>2, <3>1, <3>2
    <2>4. CASE x >= B!Group
        <3> DEFINE y == x \div B!Group
                   c == (x % B!Group) + B!Group
        <3>1. f[x] = <<c>> \o f[y]
            <4>1. ~(x < B!Group)
                BY <1>1, <2>2, <2>4
            <4>2. f[x] = VarintOf(f, x)
                BY <1>2, <2>2
            <4>3. VarintOf(f, x) = <<c>> \o f[y]
                BY <4>1 DEF VarintOf
            <4> QED
                BY <4>2, <4>3
        <3>2. y \in Nat /\ y < x /\ c \in B!Byte
            BY <1>1, <2>2, <2>4, Smaller
        <3> HIDE DEF y, c
        <3>3. y \notin Bad
            <4>1. ~(x <= y)
                BY <2>2, <3>2
            <4> HIDE DEF Bad
            <4> QED
                BY <2>1, <4>1
        <3>4. f[y] \in Seq(B!Byte) /\ Len(f[y]) >= 1
            BY <3>2, <3>3
        <3>5. <<c>> \in Seq(B!Byte) /\ Len(<<c>>) = 1
            BY <3>2
        <3>6. <<c>> \o f[y] \in Seq(B!Byte) /\ Len(<<c>> \o f[y]) = 1 + Len(f[y])
            BY <3>4, <3>5, Appended
        <3> QED
            BY <2>2, <3>1, <3>4, <3>6
    <2> QED
        BY <1>1, <2>2, <2>3, <2>4
<1> QED
    BY <1>3 DEF f

\* The community module's FlattenSeq, one sequence after the other.
LEMMA Flattened ==
    ASSUME NEW seqs, NEW n \in Nat, n >= 1, Len(seqs) = n
    PROVE  \E F : /\ B!FlattenSeq(seqs) = F[n] /\ F[1] = seqs[1]
                  /\ \A i \in 2..n : F[i] = F[i - 1] \o seqs[i]
<1> DEFINE rhs(g, i) == IF i = 1 THEN seqs[i] ELSE g[i - 1] \o seqs[i]
           Body(g) == [i \in 1..n |-> rhs(g, i)]
           after == CHOOSE g : g = Body(g)
           Part(m, g) == /\ g = [i \in 1..m |-> g[i]]
                         /\ \A i \in 1..m : g[i] = rhs(g, i)
           U == {m \in Nat : ~\E g : Part(m, g)}
<1>1. B!FlattenSeq(seqs) = after[n]
    <2>1. Len(seqs) # 0
        OBVIOUS
    <2> QED
        BY <2>1 DEF B!FlattenSeq
<1>2. U = {}
    <2> SUFFICES ASSUME U # {} PROVE FALSE
        OBVIOUS
    <2>1. PICK m \in U : \A y \in U : m <= y
        <3>1. U \in SUBSET Nat
            OBVIOUS
        <3> HIDE DEF U
        <3> QED
            BY <3>1, LeastExists
    <2>2. m \in Nat
        OBVIOUS
    <2>3. \E g : \A i \in 1..m : i # m => g[i] = rhs(g, i)
        <3>1. CASE m = 0
            BY <3>1
        <3>2. CASE m # 0
            <4>1. m - 1 \in Nat /\ ~(m <= m - 1)
                BY <2>2, <3>2
            <4>2. m - 1 \notin U
                <5> HIDE DEF U
                <5> QED
                    BY <2>1, <4>1
            <4>3. PICK g : Part(m - 1, g)
                BY <4>1, <4>2
            <4>4. \A i \in 1..m : i # m => i \in 1..(m - 1)
                BY <2>2
            <4> QED
                BY <4>3, <4>4
        <3> QED
            BY <3>1, <3>2
    <2>4. PICK g : \A i \in 1..m : i # m => g[i] = rhs(g, i)
        BY <2>3
    <2> DEFINE h == [i \in 1..m |-> IF i = m THEN rhs(g, m) ELSE g[i]]
    <2>5. h = [i \in 1..m |-> h[i]] /\ \A i \in 1..m : h[i] = IF i = m THEN rhs(g, m) ELSE g[i]
        OBVIOUS
    <2> HIDE DEF h
    <2>6. ASSUME NEW i \in 1..m PROVE h[i] = rhs(h, i)
        <3>1. i # 1 => i - 1 \in 1..m /\ i - 1 # m
            BY <2>2
        <3>2. rhs(g, i) = rhs(h, i)
            BY <2>5, <3>1
        <3> QED
            BY <2>4, <2>5, <3>2
    <2>7. Part(m, h)
        BY <2>5, <2>6
    <2> QED
        BY <2>2, <2>7
<1>3. after = Body(after)
    <2>1. PICK g : Part(n, g)
        BY <1>2
    <2>2. g = Body(g)
        BY <2>1
    <2> QED
        BY <2>2
<1> HIDE DEF after
<1>4. \A i \in 1..n : after[i] = rhs(after, i)
    BY <1>3
<1>5. 1 \in 1..n /\ \A i \in 2..n : i \in 1..n /\ i # 1
    OBVIOUS
<1>6. rhs(after, 1) = seqs[1] /\ \A i : i # 1 => rhs(after, i) = after[i - 1] \o seqs[i]
    OBVIOUS
<1> HIDE DEF rhs, Body, Part, U
<1>7. after[1] = seqs[1]
    BY <1>4, <1>5, <1>6
<1>8. \A i \in 2..n : after[i] = after[i - 1] \o seqs[i]
    BY <1>4, <1>5, <1>6
<1> QED
    BY <1>1, <1>7, <1>8

LEMMA FlattenOne ==
    ASSUME NEW c
    PROVE  B!FlattenSeq(<<c>>) = c
<1> DEFINE seqs == <<c>>
<1>1. Len(seqs) = 1 /\ seqs[1] = c
    OBVIOUS
<1> HIDE DEF seqs
<1>2. PICK F : B!FlattenSeq(seqs) = F[1] /\ F[1] = seqs[1]
    <2>1. 1 \in Nat /\ 1 >= 1
        OBVIOUS
    <2> QED
        BY <1>1, <2>1, Flattened
<1>3. B!FlattenSeq(seqs) = c
    BY <1>1, <1>2
<1> QED
    BY <1>3 DEF seqs

LEMMA FlattenTwo ==
    ASSUME NEW c, NEW d
    PROVE  B!FlattenSeq(<<c, d>>) = c \o d
<1> DEFINE seqs == <<c, d>>
<1>1. Len(seqs) = 2 /\ seqs[1] = c /\ seqs[2] = d
    OBVIOUS
<1> HIDE DEF seqs
<1>2. PICK F : B!FlattenSeq(seqs) = F[2] /\ F[1] = seqs[1] /\ \A i \in 2..2 : F[i] = F[i - 1] \o seqs[i]
    <2>1. 2 \in Nat /\ 2 >= 1
        OBVIOUS
    <2> QED
        BY <1>1, <2>1, Flattened
<1>3. F[2] = F[1] \o seqs[2]
    <2>1. 2 \in 2..2 /\ 2 - 1 = 1
        OBVIOUS
    <2>2. F[2] = F[2 - 1] \o seqs[2]
        BY <1>2, <2>1
    <2> QED
        BY <2>1, <2>2
<1>4. B!FlattenSeq(seqs) = c \o d
    BY <1>1, <1>2, <1>3
<1> QED
    BY <1>4 DEF seqs

\* A value is written in one call or in two.
InCalls(calls, c, d) ==
    /\ c \in Seq(B!Byte) /\ d \in Seq(B!Byte) /\ calls[1] = c /\ d = (IF Len(calls) = 2 THEN calls[2] ELSE <<>>)
    /\ B!FlattenSeq(calls) = c \o d

LEMMA OneCall ==
    ASSUME NEW c \in Seq(B!Byte)
    PROVE  InCalls(<<c>>, c, <<>>)
<1>1. Len(<<c>>) = 1 /\ <<c>>[1] = c /\ c \o <<>> = c /\ <<>> \in Seq(B!Byte)
    OBVIOUS
<1> QED
    BY <1>1, FlattenOne DEF InCalls

LEMMA TwoCalls ==
    ASSUME NEW c \in Seq(B!Byte), NEW d \in Seq(B!Byte)
    PROVE  InCalls(<<c, d>>, c, d)
<1>1. Len(<<c, d>>) = 2 /\ <<c, d>>[1] = c /\ <<c, d>>[2] = d
    OBVIOUS
<1> QED
    BY <1>1, FlattenTwo DEF InCalls

LEMMA ValuesAre ==
    /\ Numbers \subseteq Nat /\ SignedNumbers \subseteq Int /\ Strings \subseteq Seq(B!Byte)
BY BoundsAssumption

LEMMA EncodedIs ==
    ASSUME NEW b, NEW type \in B!Type, NEW v \in B!ValuesOf(type)
    PROVE  \E c, d : InCalls(B!Encoded(b, type, v), c, d)
<1>1. 1 \in Nat /\ Bytes \in Nat /\ 1 <= Bytes /\ Bytes <= Bytes
    BY PowersAre
<1>2. CASE type = "Fint8"
    <2>1. v \in Nat
        BY <1>2, ValuesAre DEF B!ValuesOf
    <2>2. B!Encoded(b, type, v) = <<B!Fixed(b, v, 1)>>
        BY <1>2 DEF B!Encoded
    <2>3. B!Fixed(b, v, 1) \in Seq(B!Byte)
        BY <1>1, <2>1, FixedBytes
    <2> QED
        BY <2>2, <2>3, OneCall
<1>3. CASE type = "Fixed"
    <2>1. v \in Nat
        BY <1>3, ValuesAre DEF B!ValuesOf
    <2>2. B!Encoded(b, type, v) = <<B!Fixed(b, v, Bytes)>>
        BY <1>3 DEF B!Encoded
    <2>3. B!Fixed(b, v, Bytes) \in Seq(B!Byte)
        BY <1>1, <2>1, FixedBytes
    <2> QED
        BY <2>2, <2>3, OneCall
<1>4. CASE type = "Signed"
    <2>1. v \in Int
        BY <1>4, ValuesAre DEF B!ValuesOf
    <2>2. B!Encoded(b, type, v) = <<B!Fixed(b, B!Unsigned(v), Bytes)>>
        BY <1>4 DEF B!Encoded
    <2>3. B!Unsigned(v) \in Nat
        BY <2>1, UnsignedNat
    <2>4. B!Fixed(b, B!Unsigned(v), Bytes) \in Seq(B!Byte)
        BY <1>1, <2>3, FixedBytes
    <2> QED
        BY <2>2, <2>4, OneCall
<1>5. CASE type = "Uint"
    <2>1. v \in Nat
        BY <1>5, ValuesAre DEF B!ValuesOf
    <2>2. B!Encoded(b, type, v) = <<B!Varint[v]>>
        BY <1>5 DEF B!Encoded
    <2>3. B!Varint[v] \in Seq(B!Byte)
        BY <2>1, VarintBytes
    <2> QED
        BY <2>2, <2>3, OneCall
<1>6. CASE type = "Int"
    <2>1. v \in Int
        BY <1>6, ValuesAre DEF B!ValuesOf
    <2>2. B!Encoded(b, type, v) = <<B!Varint[B!EncodeZigzag(v)]>>
        BY <1>6 DEF B!Encoded
    <2>3. B!EncodeZigzag(v) \in Nat
        <3>1. -v \in Int /\ v * 2 \in Int
            BY <2>1
        <3>2. B!Unsigned(-v) \in Nat
            BY <3>1, UnsignedNat
        <3> DEFINE x == IF v < 0 THEN B!Unsigned(-v) * 2 - 1 ELSE v * 2
        <3>3. x \in Int
            BY <3>1, <3>2
        <3> HIDE DEF x
        <3>4. B!Unsigned(x) \in Nat
            BY <3>3, UnsignedNat
        <3> QED
            BY <3>4 DEF x, B!EncodeZigzag
    <2>4. B!Varint[B!EncodeZigzag(v)] \in Seq(B!Byte)
        BY <2>3, VarintBytes
    <2> QED
        BY <2>2, <2>4, OneCall
<1>7. CASE type = "StringF"
    <2>1. v \in Seq(B!Byte) /\ Len(v) \in Nat
        BY <1>7, ValuesAre DEF B!ValuesOf
    <2>2. B!Encoded(b, type, v) = <<B!Fixed(b, Len(v), Bytes), v>>
        BY <1>7 DEF B!Encoded
    <2>3. B!Fixed(b, Len(v), Bytes) \in Seq(B!Byte)
        BY <1>1, <2>1, FixedBytes
    <2> QED
        BY <2>1, <2>2, <2>3, TwoCalls
<1>8. CASE type = "StringVint"
    <2>1. v \in Seq(B!Byte) /\ Len(v) \in Nat
        BY <1>8, ValuesAre DEF B!ValuesOf
    <2>2. B!Encoded(b, type, v) = <<B!Varint[Len(v)], v>>
        BY <1>8 DEF B!Encoded
    <2>3. B!Varint[Len(v)] \in Seq(B!Byte)
        BY <2>1, VarintBytes
    <2> QED
        BY <2>1, <2>2, <2>3, TwoCalls
<1>9. CASE type = "Raw"
    <2>1. v \in Seq(B!Byte)
        BY <1>9, ValuesAre DEF B!ValuesOf
    <2>2. B!Encoded(b, type, v) = <<v>>
        BY <1>9 DEF B!Encoded
    <2> QED
        BY <2>1, <2>2, OneCall
<1> QED
    BY <1>2, <1>3, <1>4, <1>5, <1>6, <1>7, <1>8, <1>9 DEF B!Type

\* Two writes in a row.
LEMMA WriteTwice ==
    ASSUME NEW b, NEW f, Stores(b, f), NEW c \in Seq(B!Byte), NEW d \in Seq(B!Byte),
           NEW u, u = B!write(B!write(b, c), d)
    PROVE  /\ Stores(u, Over(f, b.position, c \o d))
           /\ u.position = b.position + Len(c \o d) /\ u.base = b.base /\ u.little = b.little
           /\ u.size = B!Larger(b.size, b.position + Len(c \o d))
<1> DEFINE w == B!write(b, c)
<1>1. b.position \in Nat /\ b.size \in Nat /\ b.position <= b.size /\ f \in Seq(Cell) /\ Len(f) = b.size
    BY DEF Stores, Blocks, Arranged
<1>2. /\ Stores(w, Over(f, b.position, c)) /\ w.position = b.position + Len(c) /\ w.base = b.base
      /\ w.little = b.little /\ w.size = B!Larger(b.size, b.position + Len(c))
    BY WriteIs
<1>3. u = B!write(w, d)
    OBVIOUS
<1> HIDE DEF w
<1>4. /\ Stores(u, Over(Over(f, b.position, c), w.position, d)) /\ u.position = w.position + Len(d) /\ u.base = w.base
      /\ u.little = w.little /\ u.size = B!Larger(w.size, w.position + Len(d))
    BY <1>2, <1>3, WriteIs
<1>5. Len(c \o d) = Len(c) + Len(d) /\ Len(c) \in Nat /\ Len(d) \in Nat
    OBVIOUS
<1>6. Over(Over(f, b.position, c), b.position + Len(c), d) = Over(f, b.position, c \o d)
    BY <1>1, OverOver
<1>7. u.size = B!Larger(b.size, b.position + Len(c \o d))
    BY <1>1, <1>2, <1>4, <1>5 DEF B!Larger
<1>8. u.position = b.position + Len(c \o d)
    BY <1>1, <1>2, <1>4, <1>5
<1> QED
    BY <1>2, <1>4, <1>6, <1>7, <1>8

LEMMA Prefixes ==
    ASSUME NEW T, NEW s \in Seq(T), NEW m \in 0..Len(s), NEW n \in m..Len(s)
    PROVE  /\ SubSeq(s, 1, m) \in Seq(T) /\ Len(SubSeq(s, 1, m)) = m
           /\ SubSeq(s, m + 1, n) \in Seq(T) /\ Len(SubSeq(s, m + 1, n)) = n - m
           /\ SubSeq(s, 1, m) \o SubSeq(s, m + 1, n) = SubSeq(s, 1, n)
<1> DEFINE x == SubSeq(s, 1, m)
           y == SubSeq(s, m + 1, n)
           z == SubSeq(s, 1, n)
<1>1. Len(s) \in Nat /\ m \in Nat /\ n \in Nat /\ m <= n /\ n <= Len(s)
    OBVIOUS
<1>2. x \in Seq(T) /\ Len(x) = m /\ \A i \in 1..m : x[i] = s[i]
    BY <1>1
<1>3. y \in Seq(T) /\ Len(y) = n - m /\ \A i \in 1..(n - m) : y[i] = s[m + i]
    BY <1>1
<1>4. z \in Seq(T) /\ Len(z) = n /\ \A i \in 1..n : z[i] = s[i]
    BY <1>1
<1> HIDE DEF x, y, z
<1>5. /\ x \o y \in Seq(T) /\ Len(x \o y) = n
      /\ \A c \in 1..Len(x) : (x \o y)[c] = x[c]
      /\ \A c \in 1..Len(y) : (x \o y)[Len(x) + c] = y[c]
    BY <1>1, <1>2, <1>3, Appended
<1>6. ASSUME NEW i \in 1..n PROVE (x \o y)[i] = z[i]
    <2>1. CASE i <= m
        BY <1>1, <1>2, <1>4, <1>5, <2>1
    <2>2. CASE ~(i <= m)
        <3> DEFINE k == i - m
        <3>1. k \in 1..(n - m) /\ m + k = i
            BY <1>1, <2>2
        <3> HIDE DEF k
        <3>2. (x \o y)[m + k] = y[k]
            BY <1>2, <1>3, <1>5, <3>1
        <3>3. y[k] = s[m + k]
            BY <1>3, <3>1
        <3> QED
            BY <1>4, <3>1, <3>2, <3>3
    <2> QED
        BY <1>1, <2>1, <2>2
<1>7. x \o y = z
    BY <1>4, <1>5, <1>6
<1> QED
    BY <1>2, <1>3, <1>7 DEF x, y, z

LEMMA PieceBounds ==
    ASSUME NEW base \in Nat \ {0}, NEW L \in Nat, NEW i \in 1..(L \div base + 1)
    PROVE  /\ (i - 1) * base \in 0..L /\ i * base \in Nat
           /\ i * base - base + 1 = (i - 1) * base + 1
           /\ (IF i * base > L THEN L ELSE i * base) \in ((i - 1) * base)..L
<1> DEFINE q == L \div base
           r == L % base
           j == i - 1
<1>1. q \in Nat /\ r \in Nat /\ L = base * q + r
    BY Divided
<1> HIDE DEF q, r
<1>2. i \in 1..(q + 1) /\ j \in Nat /\ j <= q /\ i = j + 1
    BY <1>1 DEF q
<1> HIDE DEF j
<1>3. j * base \in Nat /\ i * base = j * base + base
    BY <1>2
<1>4. j * base <= base * q /\ base * q \in Nat
    BY <1>1, <1>2
<1>5. j * base <= L
    BY <1>1, <1>3, <1>4
<1> DEFINE x == j * base
           y == i * base
<1>6. x \in Nat /\ y = x + base /\ x <= L
    BY <1>3, <1>5
<1> HIDE DEF x, y
<1>7. x \in 0..L /\ y \in Nat /\ y - base + 1 = x + 1 /\ (IF y > L THEN L ELSE y) \in x..L
    BY <1>6
<1> QED
    BY <1>7 DEF x, y, j

LEMMA LastPiece ==
    ASSUME NEW base \in Nat \ {0}, NEW L \in Nat
    PROVE  L \div base + 1 \in Nat /\ (L \div base + 1) * base > L
<1> DEFINE q == L \div base
           r == L % base
<1>1. q \in Nat /\ r \in Nat /\ r < base /\ L = base * q + r
    BY Divided
<1> HIDE DEF q, r
<1>2. (q + 1) * base = base * q + base /\ base * q \in Nat
    BY <1>1
<1>3. (q + 1) * base > L
    BY <1>1, <1>2
<1> QED
    BY <1>1, <1>3 DEF q

\* After the bytes s of the file.
Written(u, b, f, s) ==
    /\ Stores(u, Over(f, b.position, s)) /\ u.position = b.position + Len(s)
    /\ u.base = b.base /\ u.little = b.little
    /\ u.size = B!Larger(b.size, b.position + Len(s))

LEMMA ReadFromFileIs ==
    ASSUME NEW b, NEW f, Stores(b, f), NEW bytes \in Seq(B!Byte)
    PROVE  Written(B!readFromFile(b, bytes), b, f, bytes)
<1> DEFINE base == b.base
           L == Len(bytes)
           N == L \div base + 1
           upto(i) == IF i * base > L THEN L ELSE i * base
           step(u, i) == B!write(u, SubSeq(bytes, i * base - base + 1, upto(i)))
           Body(g) == [i \in 0..N |-> IF i = 0 THEN b ELSE step(g[i - 1], i)]
           after == CHOOSE g : g = Body(g)
<1>1. B!readFromFile(b, bytes) = after[N]
    BY DEF B!readFromFile
<1>2. base \in Nat \ {0} /\ L \in Nat /\ b.position \in Nat /\ b.size \in Nat /\ b.position <= b.size
      /\ f \in Seq(Cell) /\ Len(f) = b.size
    BY DEF Stores, Blocks, Arranged
<1>3. N \in Nat /\ upto(N) = L
    <2>1. N \in Nat /\ N * base > L
        BY <1>2, LastPiece
    <2> QED
        BY <2>1
<1>4. upto(0) = 0
    BY <1>2
<1>5. ASSUME NEW i \in 1..N, NEW u, Written(u, b, f, SubSeq(bytes, 1, upto(i - 1)))
      PROVE  Written(step(u, i), b, f, SubSeq(bytes, 1, upto(i)))
    <2> DEFINE m == (i - 1) * base
               n == upto(i)
               c == SubSeq(bytes, 1, m)
               d == SubSeq(bytes, m + 1, n)
               w == B!write(u, d)
    <2>1. m \in 0..L /\ i * base - base + 1 = m + 1 /\ n \in m..L
        BY <1>2, PieceBounds
    <2>2. upto(i - 1) = m
        <3>1. ~(m > L)
            BY <1>2, <2>1
        <3> QED
            BY <3>1
    <2>3. step(u, i) = w
        BY <2>1
    <2> HIDE DEF upto, step, m, n
    <2>4. c \in Seq(B!Byte) /\ d \in Seq(B!Byte) /\ c \o d = SubSeq(bytes, 1, n)
        BY <2>1, Prefixes
    <2>5. Written(u, b, f, c)
        BY <1>5, <2>2
    <2> HIDE DEF c, d
    <2>6. /\ Stores(u, Over(f, b.position, c)) /\ u.position = b.position + Len(c)
          /\ u.base = b.base /\ u.little = b.little /\ u.size = B!Larger(b.size, b.position + Len(c))
        BY <2>5 DEF Written
    <2>7. /\ Stores(w, Over(Over(f, b.position, c), u.position, d)) /\ w.position = u.position + Len(d)
          /\ w.base = u.base /\ w.little = u.little /\ w.size = B!Larger(u.size, u.position + Len(d))
        <3>1. w = B!write(u, d) /\ d \in Seq(B!Byte)
            BY <2>4
        <3> DEFINE g == Over(f, b.position, c)
        <3>2. Stores(u, g)
            BY <2>6
        <3> HIDE DEF w, g
        <3>3. /\ Stores(w, Over(g, u.position, d)) /\ w.position = u.position + Len(d)
              /\ w.base = u.base /\ w.little = u.little /\ w.size = B!Larger(u.size, u.position + Len(d))
            BY <3>1, <3>2, WriteIs
        <3> QED
            BY <3>3 DEF g
    <2>8. Len(c \o d) = Len(c) + Len(d) /\ Len(c) \in Nat /\ Len(d) \in Nat
        <3>1. c \in Seq(B!Byte) /\ d \in Seq(B!Byte)
            BY <2>4
        <3> QED
            BY <3>1, Appended
    <2>9. Over(Over(f, b.position, c), b.position + Len(c), d) = Over(f, b.position, c \o d)
        BY <1>2, <2>4, OverOver
    <2> HIDE DEF w
    <2>10. w.size = B!Larger(b.size, b.position + Len(c \o d))
        BY <1>2, <2>6, <2>7, <2>8 DEF B!Larger
    <2>11. w.position = b.position + Len(c \o d)
        BY <1>2, <2>6, <2>7, <2>8
    <2>12. Written(w, b, f, c \o d)
        BY <2>6, <2>7, <2>9, <2>10, <2>11 DEF Written
    <2> QED
        BY <2>3, <2>4, <2>12 DEF n
<1>6. Written(b, b, f, SubSeq(bytes, 1, upto(0)))
    <2>1. SubSeq(bytes, 1, 0) = <<>> /\ Len(<<>>) = 0
        OBVIOUS
    <2>2. Over(f, b.position, <<>>) = f
        BY <1>2, OverNothing
    <2>3. b.size = B!Larger(b.size, b.position + 0) /\ b.position = b.position + 0
        BY <1>2 DEF B!Larger
    <2> HIDE DEF upto
    <2> QED
        BY <1>4, <2>1, <2>2, <2>3 DEF Written
<1> HIDE DEF step, N, upto
<1> DEFINE Part(m, g) == /\ g = [i \in 0..m |-> g[i]]
                         /\ \A i \in 0..m : g[i] = IF i = 0 THEN b ELSE step(g[i - 1], i)
           U == {m \in Nat : ~\E g : Part(m, g)}
<1>7. U = {}
    <2> SUFFICES ASSUME U # {} PROVE FALSE
        OBVIOUS
    <2>1. PICK m \in U : \A y \in U : m <= y
        <3>1. U \in SUBSET Nat
            OBVIOUS
        <3> HIDE DEF U
        <3> QED
            BY <3>1, LeastExists
    <2>2. m \in Nat
        OBVIOUS
    <2>3. m # 0
        <3> SUFFICES ASSUME m = 0 PROVE FALSE
            OBVIOUS
        <3>1. 0..0 = {0}
            OBVIOUS
        <3>2. Part(0, [i \in {0} |-> b])
            BY <3>1
        <3> QED
            BY <3>2
    <2>4. m - 1 \in Nat /\ m - 1 \notin U
        <3>1. m - 1 \in Nat /\ ~(m <= m - 1)
            BY <2>2, <2>3
        <3> HIDE DEF U
        <3> QED
            BY <2>1, <3>1
    <2>5. PICK g : Part(m - 1, g)
        BY <2>4
    <2> DEFINE h == [i \in 0..m |-> IF i = m THEN step(g[m - 1], m) ELSE g[i]]
    <2>6. /\ \A i \in 0..m : i = m \/ i \in 0..(m - 1)
          /\ \A i \in 0..m : i # 0 => i - 1 \in 0..(m - 1) /\ i - 1 \in 0..m /\ i - 1 # m
        BY <2>2
    <2>7. \A i \in 0..(m - 1) : i \in 0..m /\ h[i] = g[i]
        BY <2>2
    <2>8. m \in 0..m /\ h[m] = step(g[m - 1], m)
        BY <2>2
    <2>9. h = [i \in 0..m |-> h[i]]
        OBVIOUS
    <2>10. \A i \in 0..(m - 1) : g[i] = IF i = 0 THEN b ELSE step(g[i - 1], i)
        BY <2>5
    <2> HIDE DEF h
    <2>11. \A i \in 0..m : h[i] = IF i = 0 THEN b ELSE step(h[i - 1], i)
        BY <2>3, <2>6, <2>7, <2>8, <2>10
    <2>12. Part(m, h)
        BY <2>9, <2>11
    <2> QED
        BY <2>12
<1>8. after = Body(after)
    <2>1. PICK g : Part(N, g)
        BY <1>3, <1>7
    <2>2. g = Body(g)
        BY <2>1
    <2> QED
        BY <2>2
<1> HIDE DEF after
<1>9. \A i \in 0..N : after[i] = IF i = 0 THEN b ELSE step(after[i - 1], i)
    BY <1>8
<1> HIDE DEF Part, U, Body
<1> DEFINE Good(i) == Written(after[i], b, f, SubSeq(bytes, 1, upto(i)))
           Bad == {i \in 0..N : ~Good(i)}
<1>10. Bad = {}
    <2> SUFFICES ASSUME Bad # {} PROVE FALSE
        OBVIOUS
    <2>1. PICK i \in Bad : \A y \in Bad : i <= y
        <3>1. Bad \in SUBSET Nat
            BY <1>3
        <3> HIDE DEF Bad
        <3> QED
            BY <3>1, LeastExists
    <2>2. i \in 0..N /\ i \in Nat /\ ~Good(i)
        BY <1>3
    <2>3. i # 0
        BY <1>6, <1>9, <2>2
    <2>4. i - 1 \in 0..N /\ i \in 1..N /\ ~(i <= i - 1)
        BY <1>3, <2>2, <2>3
    <2>5. i - 1 \notin Bad
        <3> HIDE DEF Bad
        <3> QED
            BY <2>1, <2>4
    <2>6. Good(i - 1)
        BY <2>4, <2>5
    <2>7. after[i] = step(after[i - 1], i)
        BY <1>9, <2>2, <2>3
    <2> QED
        BY <1>5, <2>2, <2>4, <2>6, <2>7
<1>11. Good(N)
    BY <1>3, <1>10
<1>12. SubSeq(bytes, 1, L) = bytes
    OBVIOUS
<1> QED
    BY <1>1, <1>3, <1>11, <1>12

-----------------------------------------------------------------------------
(* ByteArray: the invariant *)

BytesInv ==
    /\ Stores(ba, flat) /\ ba.position <= MaxSize /\ ba.size <= MaxSize
    /\ got.out \in {"ok", "throws", "null"} /\ ops \in 0..MaxOps

BInv == structure = "bytes" => BytesInv

LEMMA OverwriteIs ==
    ASSUME NEW p, NEW bytes
    PROVE  B!Overwrite(p, bytes) = Over(flat, p, bytes)
BY DEF B!Overwrite, Over

LEMMA NewArray ==
    ASSUME NEW base \in Nat \ {0}
    PROVE  Stores(B!ByteArray(base), <<>>) /\ B!ByteArray(base).position = 0 /\ B!ByteArray(base).size = 0
<1> DEFINE u == B!ByteArray(base)
           block == [i \in 1..base |-> B!Unset]
           T == [1..base -> Cell]
<1>1. /\ u.base = base /\ u.mem = <<block>> /\ u.capacity = base /\ u.little = FALSE
      /\ u.position = 0 /\ u.size = 0 /\ u.cur = 1
      /\ u = [base |-> u.base, position |-> u.position, capacity |-> u.capacity, size |-> u.size,
              little |-> u.little, cur |-> u.cur, mem |-> u.mem]
    BY DEF B!ByteArray
<1>2. block \in T
    BY DEF Cell
<1> HIDE DEF u, block, T
<1>3. u.mem \in Seq(T) /\ Len(u.mem) = 1
    BY <1>1, <1>2
<1>4. Blocks(u)
    <2>1. u.mem \in Seq([1..u.base -> Cell])
        BY <1>1, <1>3 DEF T
    <2>2. u.base \in Nat \ {0} /\ u.position \in Nat /\ u.size \in Nat /\ u.capacity \in Nat /\ Len(u.mem) >= 1
        BY <1>1, <1>3
    <2>3. u.little \in BOOLEAN
        BY <1>1
    <2> QED
        BY <1>1, <2>1, <2>2, <2>3 DEF Blocks
<1>5. Arranged(u)
    <2>1. 0 \div base = 0 /\ 1 * base = base
        BY WholeBlocks
    <2> QED
        BY <1>1, <1>3, <2>1 DEF Arranged
<1>6. <<>> \in Seq(Cell) /\ Len(<<>>) = 0
    OBVIOUS
<1>7. Stores(u, <<>>) /\ u.position = 0 /\ u.size = 0
    BY <1>1, <1>4, <1>5, <1>6 DEF Stores
<1> QED
    BY <1>7 DEF u

LEMMA BytesInit == Init => BInv
<1> SUFFICES ASSUME Init, structure = "bytes" PROVE BytesInv
    BY DEF BInv
<1>1. B!Init
    BY DEF Init
<1>2. PICK base \in Bases : ba = B!ByteArray(base)
    BY <1>1 DEF B!Init
<1>3. Stores(ba, <<>>) /\ ba.position = 0 /\ ba.size = 0
    BY <1>2, BoundsAssumption, NewArray
<1>4. flat = <<>> /\ got.out = "ok" /\ ops = 0
    BY <1>1 DEF B!Init, B!Nothing
<1> QED
    BY <1>3, <1>4, BoundsAssumption DEF BytesInv

LEMMA OperationIs ==
    ASSUME BytesInv, B!Operation
    PROVE  ops' \in 0..MaxOps
BY BoundsAssumption DEF BytesInv, B!Operation

LEMMA NumbersOf ==
    ASSUME BytesInv
    PROVE  /\ Stores(ba, flat) /\ ba.position \in Nat /\ ba.size \in Nat /\ ba.position <= ba.size
           /\ ba.position <= MaxSize /\ ba.size <= MaxSize /\ MaxSize \in Nat
           /\ flat \in Seq(Cell) /\ Len(flat) = ba.size /\ ba.size <= ba.capacity /\ ba.capacity \in Nat
BY BoundsAssumption DEF BytesInv, Stores, Blocks, Arranged

\* Bytes were written at the position, and fit.
LEMMA WrittenStep ==
    ASSUME BytesInv, B!Operation, NEW bytes \in Seq(B!Byte), ba.position + Len(bytes) <= MaxSize,
           Stores(ba', Over(flat, ba.position, bytes)), ba'.position = ba.position + Len(bytes),
           ba'.size = B!Larger(ba.size, ba.position + Len(bytes)),
           flat' = B!Overwrite(ba.position, bytes), got' = B!Nothing
    PROVE  BytesInv'
<1>1. Stores(ba', flat')
    BY OverwriteIs
<1>2. ba'.position <= MaxSize /\ ba'.size <= MaxSize
    BY NumbersOf DEF B!Larger
<1>3. got'.out = "ok"
    BY DEF B!Nothing
<1> QED
    BY <1>1, <1>2, <1>3, OperationIs DEF BytesInv

LEMMA WriteValueStep ==
    ASSUME BytesInv, NEW type \in B!Type, NEW v \in B!ValuesOf(type), B!WriteValue(type, v)
    PROVE  BytesInv'
<1> DEFINE calls == B!Encoded(ba, type, v)
           bytes == B!FlattenSeq(calls)
<1>1. PICK c, d : InCalls(calls, c, d)
    BY EncodedIs
<1>2. /\ B!Operation /\ ba.position + Len(bytes) <= MaxSize
      /\ ba' = B!write(B!write(ba, calls[1]), IF Len(calls) = 2 THEN calls[2] ELSE <<>>)
      /\ flat' = B!Overwrite(ba.position, bytes) /\ got' = B!Nothing
    BY DEF B!WriteValue
<1> HIDE DEF calls
<1>3. c \in Seq(B!Byte) /\ d \in Seq(B!Byte) /\ bytes = c \o d /\ ba' = B!write(B!write(ba, c), d)
    BY <1>1, <1>2 DEF InCalls
<1>4. Stores(ba, flat)
    BY DEF BytesInv
<1>5. /\ Stores(ba', Over(flat, ba.position, c \o d)) /\ ba'.position = ba.position + Len(c \o d)
      /\ ba'.size = B!Larger(ba.size, ba.position + Len(c \o d))
    BY <1>3, <1>4, WriteTwice
<1>6. c \o d \in Seq(B!Byte)
    BY <1>3, Appended
<1> HIDE DEF bytes
<1> QED
    BY <1>2, <1>3, <1>5, <1>6, WrittenStep

LEMMA ReadValueStep ==
    ASSUME BytesInv, NEW type \in B!Type \ {"Raw"}, B!ReadValue(type)
    PROVE  BytesInv'
<1> DEFINE r == B!Decoded(ba, type)
<1>1. /\ B!Operation /\ ba' = r.b /\ got'.out = r.out /\ flat' = flat
      /\ \A i \in ba.position + 1..Len(flat) : flat[i] # B!Unset
    BY DEF B!ReadValue
<1>2. Stores(ba, flat) /\ Known(ba, flat)
    BY <1>1 DEF BytesInv, Known
<1>3. Kept(r, ba, flat)
    BY <1>2, DecodedIs
<1> HIDE DEF r
<1>4. Stores(ba', flat') /\ ba'.size = ba.size /\ got'.out \in {"ok", "throws", "null"}
    BY <1>1, <1>3 DEF Kept
<1>5. ba'.position <= MaxSize /\ ba'.size <= MaxSize
    <2>1. ba'.position <= ba'.size /\ ba'.position \in Nat
        BY <1>4 DEF Stores, Blocks, Arranged
    <2> QED
        BY <1>4, <2>1, NumbersOf
<1> QED
    BY <1>1, <1>4, <1>5, OperationIs DEF BytesInv

LEMMA SetPositionStep ==
    ASSUME BytesInv, NEW v \in 0..MaxSize, B!SetPosition(v)
    PROVE  BytesInv'
<1>1. /\ B!Operation /\ v <= ba.capacity /\ ba' = B!setPosition(ba, v) /\ flat' = B!Overwrite(v, <<>>)
      /\ got'.out = "ok" /\ v \in Nat
    BY BoundsAssumption DEF B!SetPosition, B!Nothing
<1>2. Stores(ba', Over(flat, v, <<>>)) /\ ba'.position = v /\ ba'.size = B!Larger(ba.size, v)
    BY <1>1, NumbersOf, SetPositionIs
<1>3. Stores(ba', flat')
    BY <1>1, <1>2, OverwriteIs
<1>4. ba'.position <= MaxSize /\ ba'.size <= MaxSize
    BY <1>1, <1>2, NumbersOf DEF B!Larger
<1> QED
    BY <1>1, <1>3, <1>4, OperationIs DEF BytesInv

LEMMA ClearStep ==
    ASSUME BytesInv, B!Clear
    PROVE  BytesInv'
<1>1. B!Operation /\ ba' = B!clear(ba) /\ flat' = <<>> /\ got'.out = "ok"
    BY DEF B!Clear, B!Nothing
<1>2. Stores(ba', <<>>) /\ ba'.position = 0 /\ ba'.size = 0
    BY <1>1, NumbersOf, ClearIs
<1>3. ba'.position <= MaxSize /\ ba'.size <= MaxSize
    BY <1>2, NumbersOf
<1> QED
    BY <1>1, <1>2, <1>3, OperationIs DEF BytesInv

LEMMA LittleEndianStep ==
    ASSUME BytesInv, B!SetIsLittleEndian
    PROVE  BytesInv'
<1>1. B!Operation /\ ba' = [ba EXCEPT !.little = ~@] /\ flat' = flat /\ got'.out = "ok"
    BY DEF B!SetIsLittleEndian, B!Nothing
<1>2. Blocks(ba) /\ Arranged(ba)
    BY DEF BytesInv, Stores
<1>3. /\ ba'.base = ba.base /\ ba'.mem = ba.mem /\ ba'.capacity = ba.capacity /\ ba'.little = ~ba.little
      /\ ba'.position = ba.position /\ ba'.size = ba.size /\ ba'.cur = ba.cur
      /\ ba' = [base |-> ba'.base, position |-> ba'.position, capacity |-> ba'.capacity, size |-> ba'.size,
                little |-> ba'.little, cur |-> ba'.cur, mem |-> ba'.mem]
    BY <1>1, <1>2 DEF Blocks
<1> DEFINE u == ba'
<1>4. Blocks(u) /\ Arranged(u)
    <2>1. /\ u.base = ba.base /\ u.mem = ba.mem /\ u.capacity = ba.capacity /\ u.little \in BOOLEAN
          /\ u.position = ba.position /\ u.size = ba.size /\ u.cur = ba.cur
          /\ u = [base |-> u.base, position |-> u.position, capacity |-> u.capacity, size |-> u.size,
                  little |-> u.little, cur |-> u.cur, mem |-> u.mem]
        BY <1>3
    <2> HIDE DEF u
    <2> QED
        BY <1>2, <2>1 DEF Blocks, Arranged
<1>5. Stores(ba', flat')
    <2>1. \A p : At(u, p) = At(ba, p)
        BY <1>3 DEF At
    <2>2. u.size = ba.size
        BY <1>3
    <2>3. flat \in Seq(Cell) /\ Len(flat) = ba.size
          /\ \A i \in 1..Len(flat) : flat[i] = B!Unset \/ At(ba, i - 1) = flat[i]
        BY DEF BytesInv, Stores
    <2> HIDE DEF u
    <2>4. Stores(u, flat)
        BY <1>4, <2>1, <2>2, <2>3 DEF Stores
    <2> QED
        BY <1>1, <2>4 DEF u
<1> QED
    BY <1>1, <1>3, <1>5, OperationIs DEF BytesInv

LEMMA ReadFromFileStep ==
    ASSUME BytesInv, NEW bytes \in Strings, B!ReadFromFile(bytes)
    PROVE  BytesInv'
<1>1. /\ B!Operation /\ ba.position + Len(bytes) <= MaxSize /\ ba' = B!readFromFile(ba, bytes)
      /\ flat' = B!Overwrite(ba.position, bytes) /\ got' = B!Nothing
    BY DEF B!ReadFromFile
<1>2. bytes \in Seq(B!Byte)
    BY ValuesAre
<1>3. Written(ba', ba, flat, bytes)
    BY <1>1, <1>2, NumbersOf, ReadFromFileIs
<1> QED
    BY <1>1, <1>2, <1>3, WrittenStep DEF Written

LEMMA ReceiveStep ==
    ASSUME BytesInv, NEW bytes \in Strings, NEW len \in 1..MaxSize, B!Receive(len, bytes)
    PROVE  BytesInv'
<1>1. /\ B!Operation /\ Len(bytes) \in 1..len /\ ba.position + len <= MaxSize
      /\ ba' = B!setPosition(B!Fill(B!getWriteBuffers(ba, len).b, bytes), ba.position + Len(bytes))
      /\ flat' = B!Overwrite(ba.position, bytes) /\ got' = B!Nothing
    BY DEF B!Receive
<1>2. bytes \in Seq(B!Byte) /\ len \in Nat
    BY ValuesAre
<1>3. /\ Stores(ba', Over(flat, ba.position, bytes)) /\ ba'.position = ba.position + Len(bytes)
      /\ ba'.size = B!Larger(ba.size, ba.position + Len(bytes))
    BY <1>1, <1>2, NumbersOf, ReceiveIs
<1>4. ba.position + Len(bytes) <= MaxSize
    BY <1>1, <1>2, NumbersOf
<1> QED
    BY <1>1, <1>2, <1>3, <1>4, WrittenStep

LEMMA SendStep ==
    ASSUME BytesInv, NEW n \in 1..MaxSize, B!Send(n)
    PROVE  BytesInv'
<1> DEFINE v == ba.position + n
<1>1. /\ B!Operation /\ n \in 1..(ba.size - ba.position) /\ ba' = B!setPosition(ba, v) /\ flat' = flat
      /\ got'.out = "ok"
    BY DEF B!Send, B!Nothing, B!getReadSize
<1>2. v \in Nat /\ v <= ba.size /\ v <= ba.capacity
    BY <1>1, NumbersOf
<1> HIDE DEF v
<1>3. Stores(ba', Over(flat, v, <<>>)) /\ ba'.position = v /\ ba'.size = B!Larger(ba.size, v)
    BY <1>1, <1>2, NumbersOf, SetPositionIs
<1>4. Over(flat, v, <<>>) = flat
    BY <1>2, NumbersOf, OverNothing
<1>5. ba'.position <= MaxSize /\ ba'.size <= MaxSize
    BY <1>2, <1>3, NumbersOf DEF B!Larger
<1> QED
    BY <1>1, <1>3, <1>4, <1>5, OperationIs DEF BytesInv

\* The block list always holds the bytes the operations define.
LEMMA BytesInvariant == Spec => []BInv
<1> DEFINE all == <<structure, bytesVars, listVars>>
<1>1. ASSUME BInv, [Next]_all
      PROVE  BInv'
    <2> SUFFICES ASSUME structure' = "bytes" PROVE BytesInv'
        BY DEF BInv
    <2>1. CASE UNCHANGED all
        BY <1>1, <2>1 DEF BInv, BytesInv, bytesVars
    <2>2. CASE Next
        <3>1. structure' = structure /\ B!Next /\ BytesInv
            BY <1>1, <2>2 DEF Next, BInv
        <3>2. CASE \E type \in B!Type : \E v \in B!ValuesOf(type) : B!WriteValue(type, v)
            BY <3>1, <3>2, WriteValueStep
        <3>3. CASE \E type \in B!Type \ {"Raw"} : B!ReadValue(type)
            BY <3>1, <3>3, ReadValueStep
        <3>4. CASE \E v \in 0..MaxSize : B!SetPosition(v)
            BY <3>1, <3>4, SetPositionStep
        <3>5. CASE B!Clear
            BY <3>1, <3>5, ClearStep
        <3>6. CASE B!SetIsLittleEndian
            BY <3>1, <3>6, LittleEndianStep
        <3>7. CASE \E s \in Strings : B!ReadFromFile(s)
            BY <3>1, <3>7, ReadFromFileStep
        <3>8. CASE \E s \in Strings, len \in 1..MaxSize : B!Receive(len, s)
            BY <3>1, <3>8, ReceiveStep
        <3>9. CASE \E n \in 1..MaxSize : B!Send(n)
            BY <3>1, <3>9, SendStep
        <3> QED
            BY <3>1, <3>2, <3>3, <3>4, <3>5, <3>6, <3>7, <3>8, <3>9 DEF B!Next
    <2> QED
        BY <1>1, <2>1, <2>2
<1> QED
    BY <1>1, BytesInit, PTL DEF Spec

\* write, read, addCapacity, setPosition, clear and the socket's reads and
\* writes: m_cur is always the block of m_position, null exactly at the end of
\* the last block, whatever the block size and the sequence of calls.
THEOREM ByteArrayCur == Spec => []CurAgrees
<1>1. BInv => CurAgrees
    BY DEF BInv, BytesInv, Stores, Arranged, CurAgrees, B!CurAgrees, B!NULL
<1> QED
    BY <1>1, BytesInvariant, PTL

\* The fields of both classes keep their types.
THEOREM StructuresTyped == Spec => []TypeOK
<1>1. ASSUME LInv, structure = "list" PROVE S!TypeOK
    <2>1. ListInv
        BY <1>1 DEF LInv
    <2>2. Shape(list) /\ Levels(list)
        BY <2>1 DEF ListInv, Sound
    <2>3. Cardinality(S!Keys(list)) \in Nat
        BY <2>2, FS_CardinalityType DEF Shape
    <2> QED
        BY <2>1, <2>2, <2>3 DEF S!TypeOK, ListInv, Shape, Levels, Pairs
<1>2. ASSUME BInv, structure = "bytes" PROVE B!TypeOK
    <2>1. BytesInv
        BY <1>2 DEF BInv
    <2>2. Blocks(ba) /\ Arranged(ba)
        BY <2>1 DEF BytesInv, Stores
    <2>3. ba.position \in 0..MaxSize /\ ba.size \in 0..MaxSize /\ ba.capacity \in Nat /\ flat \in Seq(Cell)
        BY <2>1, NumbersOf
    <2>4. ba.cur \in 0..Len(ba.mem)
        <3>1. CASE ba.position = ba.capacity
            BY <2>2, <3>1 DEF Arranged, Blocks
        <3>2. CASE ba.position # ba.capacity
            <4>1. ba.position \in Nat /\ ba.position < ba.capacity
                BY <2>1, <3>2, NumbersOf
            <4>2. ba.position \div ba.base + 1 \in 1..Len(ba.mem)
                BY <2>2, <4>1, CellAt
            <4> QED
                BY <2>2, <3>2, <4>2 DEF Arranged
        <3> QED
            BY <3>1, <3>2
    <2>5. ba.little \in BOOLEAN /\ \A c \in 1..Len(ba.mem) : ba.mem[c] \in [1..ba.base -> Cell]
        BY <2>2 DEF Blocks
    <2> QED
        BY <2>1, <2>3, <2>4, <2>5 DEF B!TypeOK, BytesInv, Cell
<1>3. LInv /\ BInv => TypeOK
    BY <1>1, <1>2 DEF TypeOK
<1> QED
    BY <1>3, ListInvariant, BytesInvariant, PTL

-----------------------------------------------------------------------------
(* Arithmetic *)

DigitMore(v, p, g, q) == v % q = (v % p) + ((v \div p) % g) * p

LEMMA NextDigit ==
    ASSUME NEW v \in Nat, NEW p \in Nat \ {0}, NEW g \in Nat \ {0}, NEW q, q = p * g
    PROVE  DigitMore(v, p, g, q)
<1> DEFINE x == v \div p
           r == v % p
           y == x \div g
           s == x % g
<1>1. x \in Nat /\ r \in Nat /\ r < p /\ v = p * x + r
    BY Divided
<1> HIDE DEF x, r
<1>2. y \in Nat /\ s \in Nat /\ s < g /\ x = g * y + s
    BY <1>1, Divided
<1> HIDE DEF y, s
<1>3. v = (p * g) * y + (s * p + r)
    BY <1>1, <1>2
<1>4. s * p \in Nat /\ s * p + p <= p * g
    <2>1. (s + 1) * p <= g * p
        BY <1>2
    <2> QED
        BY <1>2, <2>1
<1>5. s * p + r \in 0..(q - 1) /\ q \in Nat \ {0} /\ v \in Int /\ y \in Int
    BY <1>1, <1>2, <1>4
<1>6. v = q * y + (s * p + r)
    BY <1>3
<1>7. s * p + r = v % q
    <2> DEFINE z == s * p + r
    <2>1. z \in 0..(q - 1) /\ v = q * y + z
        BY <1>5, <1>6
    <2> HIDE DEF z
    <2>2. z = v % q
        BY <1>5, <2>1, DividedOnce
    <2> QED
        BY <2>2 DEF z
<1>8. (v % p) + ((v \div p) % g) * p = r + s * p
    BY DEF r, s, x
<1>9. r + s * p = s * p + r
    BY <1>1, <1>4
<1>10. v % q = (v % p) + ((v \div p) % g) * p
    BY <1>7, <1>8, <1>9
<1> QED
    BY <1>10 DEF DigitMore

LEMMA SmallMod ==
    ASSUME NEW n \in Nat \ {0}, NEW v \in Nat, v < n
    PROVE  v % n = v
<1>1. v = n * 0 + v /\ v \in 0..(n - 1) /\ v \in Int /\ 0 \in Int
    OBVIOUS
<1> QED
    BY <1>1, DividedOnce

LEMMA WidthPowers ==
    /\ 2 ^ B!Width \in Nat \ {0} /\ 2 ^ (B!Width - 1) \in Nat \ {0}
    /\ 2 ^ B!Width = 2 * 2 ^ (B!Width - 1) /\ 2 ^ B!Width = (2 * B!Group) ^ Bytes
BY PowersAssumption

LEMMA UnsignedSame ==
    ASSUME NEW v \in Nat, v < 2 ^ B!Width
    PROVE  B!Unsigned(v) = v
BY WidthPowers, SmallMod DEF B!Unsigned

\* writeFint16, writeFint32, writeFint64 and their read functions: two's complement.
LEMMA SignedBack ==
    ASSUME NEW v \in -(2 ^ (B!Width - 1))..2 ^ (B!Width - 1) - 1
    PROVE  B!Unsigned(v) \in Nat /\ B!Unsigned(v) < 2 ^ B!Width /\ B!Signed(B!Unsigned(v)) = v
<1> DEFINE h == 2 ^ (B!Width - 1)
           w == 2 ^ B!Width
           u == B!Unsigned(v)
<1>1. h \in Nat \ {0} /\ w \in Nat \ {0} /\ w = 2 * h
    BY WidthPowers
<1>2. v \in Int /\ v >= -h /\ v < h
    BY <1>1
<1>3. u = v % w
    BY DEF B!Unsigned
<1>4. B!Signed(u) = IF u >= h THEN u - w ELSE u
    BY DEF B!Signed
<1> HIDE DEF h, w, u
<1>5. CASE v >= 0
    <2>1. u = v
        BY <1>1, <1>2, <1>3, <1>5, SmallMod
    <2>2. u \in Nat /\ u < w /\ (IF u >= h THEN u - w ELSE u) = v
        BY <1>1, <1>2, <1>5, <2>1
    <2> QED
        BY <1>4, <2>2 DEF u, w
<1>6. CASE v < 0
    <2> DEFINE x == v + w
               m == -1
    <2>1. x \in 0..(w - 1) /\ v = w * m + x /\ m \in Int
        BY <1>1, <1>2, <1>6
    <2> HIDE DEF x, m
    <2>2. x = v % w
        BY <1>1, <1>2, <2>1, DividedOnce
    <2>3. u \in Nat /\ u < w /\ u = v + w
        BY <1>1, <1>3, <2>1, <2>2 DEF x
    <2>4. (IF u >= h THEN u - w ELSE u) = v
        BY <1>1, <1>2, <1>6, <2>3
    <2> QED
        BY <1>4, <2>3, <2>4 DEF u, w
<1> QED
    BY <1>2, <1>5, <1>6

\* EncodeZigzag32, EncodeZigzag64 and their inverses.
LEMMA ZigzagBack ==
    ASSUME NEW v \in -(2 ^ (B!Width - 1))..2 ^ (B!Width - 1) - 1
    PROVE  B!EncodeZigzag(v) \in Nat /\ B!EncodeZigzag(v) < 2 ^ B!Width /\ B!DecodeZigzag(B!EncodeZigzag(v)) = v
<1> DEFINE h == 2 ^ (B!Width - 1)
           w == 2 ^ B!Width
           e == B!EncodeZigzag(v)
<1>1. h \in Nat \ {0} /\ w \in Nat \ {0} /\ w = 2 * h
    BY WidthPowers
<1>2. v \in Int /\ v >= -h /\ v < h
    BY <1>1
<1>3. e = B!Unsigned(IF v < 0 THEN B!Unsigned(-v) * 2 - 1 ELSE v * 2)
    BY DEF B!EncodeZigzag
<1>4. B!DecodeZigzag(e) = IF e % 2 = 0 THEN e \div 2 ELSE -(e \div 2) - 1
    BY DEF B!DecodeZigzag
<1>5. \A x \in Nat : x < w => B!Unsigned(x) = x
    BY UnsignedSame
<1> HIDE DEF h, w, e
<1>6. CASE v < 0
    <2>1. -v \in Nat /\ -v < w
        BY <1>1, <1>2, <1>6
    <2>2. B!Unsigned(-v) = -v
        BY <1>5, <2>1
    <2>3. (-v) * 2 - 1 \in Nat /\ (-v) * 2 - 1 < w
        BY <1>1, <1>2, <1>6
    <2>4. e = (-v) * 2 - 1
        BY <1>3, <1>5, <1>6, <2>2, <2>3
    <2>5. e % 2 = 1 /\ e \div 2 = -v - 1
        BY <1>2, <2>4
    <2>6. e \in Nat /\ e < w /\ (IF e % 2 = 0 THEN e \div 2 ELSE -(e \div 2) - 1) = v
        BY <1>2, <2>3, <2>4, <2>5
    <2> QED
        BY <1>4, <2>6 DEF e, w
<1>7. CASE v >= 0
    <2>1. v * 2 \in Nat /\ v * 2 < w /\ ~(v < 0)
        BY <1>1, <1>2, <1>7
    <2>2. e = v * 2
        BY <1>3, <1>5, <2>1
    <2>3. e % 2 = 0 /\ e \div 2 = v
        BY <1>2, <2>2
    <2>4. e \in Nat /\ e < w /\ (IF e % 2 = 0 THEN e \div 2 ELSE -(e \div 2) - 1) = v
        BY <1>2, <2>1, <2>2, <2>3
    <2> QED
        BY <1>4, <2>4 DEF e, w
<1> QED
    BY <1>2, <1>6, <1>7

-----------------------------------------------------------------------------
(* What was written is read back *)

LEMMA ReversedTwice ==
    ASSUME NEW T, NEW s \in Seq(T)
    PROVE  B!Reverse(B!Reverse(s)) = s
<1> DEFINE n == Len(s)
           r == B!Reverse(s)
<1>1. n \in Nat
    OBVIOUS
<1>2. r = [i \in 1..n |-> s[n - i + 1]]
    BY DEF B!Reverse
<1>3. \A i \in 1..n : n - i + 1 \in 1..n /\ n - (n - i + 1) + 1 = i
    BY <1>1
<1>4. r \in Seq(T) /\ Len(r) = n
    BY <1>1, <1>2, <1>3
<1> HIDE DEF r
<1>5. B!Reverse(r) = [i \in 1..n |-> r[n - i + 1]]
    BY <1>4 DEF B!Reverse
<1>6. \A i \in 1..n : r[n - i + 1] = s[i]
    BY <1>2, <1>3
<1>7. B!Reverse(r) = [i \in 1..n |-> s[i]]
    BY <1>5, <1>6
<1>8. s = [i \in 1..n |-> s[i]]
    OBVIOUS
<1> QED
    BY <1>7, <1>8 DEF r

LEMMA FixedBack ==
    ASSUME NEW b, NEW v \in Nat, NEW n \in Nat, n <= Bytes, v < (2 * B!Group) ^ n
    PROVE  B!FixedValue(b, B!Fixed(b, v, n)) = v
<1> DEFINE pow(i) == (2 * B!Group) ^ i
           g == 2 * B!Group
           low == [i \in 1..n |-> (v \div pow(i - 1)) % g]
           c == B!Fixed(b, v, n)
<1>1. c \in Seq(B!Byte) /\ Len(c) = n
    BY FixedBytes
<1>2. Low(b, c) = low
    <2>1. c = IF b.little THEN low ELSE B!Reverse(low)
        BY DEF B!Fixed
    <2> DEFINE T == {low[i] : i \in 1..n}
    <2>2. low \in [1..n -> T]
        OBVIOUS
    <2> HIDE DEF low, c, T
    <2>3. low \in Seq(T)
        BY <2>2
    <2>4. B!Reverse(B!Reverse(low)) = low
        BY <2>3, ReversedTwice
    <2> QED
        BY <2>1, <2>4 DEF Low
<1>3. /\ \A i \in 0..n : pow(i) \in Nat \ {0}
      /\ \A i \in 1..n : pow(i) = pow(i - 1) * g
      /\ pow(0) = 1 /\ g \in Nat \ {0}
    BY PowersAre, PowersAssumption
<1>4. PICK sum : Sums(b, c, n, sum)
    BY <1>1, SumIs
<1>5. B!FixedValue(b, c) = sum[n] /\ sum[0] = 0 /\ \A i \in 1..n : sum[i] = sum[i - 1] + low[i] * pow(i - 1)
    BY <1>2, <1>4 DEF Sums
<1>6. \A i \in 1..n : low[i] = (v \div pow(i - 1)) % g
    OBVIOUS
<1>7. v < pow(n)
    OBVIOUS
<1> HIDE DEF pow, g, low, c
<1> DEFINE Bad == {i \in 0..n : sum[i] # v % pow(i)}
<1>8. Bad = {}
    <2> SUFFICES ASSUME Bad # {} PROVE FALSE
        OBVIOUS
    <2>1. PICK i \in Bad : \A y \in Bad : i <= y
        <3>1. Bad \in SUBSET Nat
            OBVIOUS
        <3> HIDE DEF Bad
        <3> QED
            BY <3>1, LeastExists
    <2>2. i \in 0..n /\ i \in Nat /\ sum[i] # v % pow(i)
        OBVIOUS
    <2>3. i # 0
        <3>1. v % 1 = 0
            OBVIOUS
        <3> QED
            BY <1>3, <1>5, <2>2, <3>1
    <2>4. i - 1 \in 0..n /\ i \in 1..n /\ ~(i <= i - 1)
        BY <2>2, <2>3
    <2>5. i - 1 \notin Bad
        <3> HIDE DEF Bad
        <3> QED
            BY <2>1, <2>4
    <2>6. sum[i - 1] = v % pow(i - 1)
        BY <2>4, <2>5
    <2>7. sum[i] = (v % pow(i - 1)) + ((v \div pow(i - 1)) % g) * pow(i - 1)
        BY <1>5, <1>6, <2>4, <2>6
    <2>8. v % pow(i) = (v % pow(i - 1)) + ((v \div pow(i - 1)) % g) * pow(i - 1)
        <3> DEFINE p == pow(i - 1)
                   q == pow(i)
        <3>1. p \in Nat \ {0} /\ q = p * g /\ g \in Nat \ {0} /\ v \in Nat
            BY <1>3, <2>4
        <3> HIDE DEF p, q
        <3>2. DigitMore(v, p, g, q)
            BY <3>1, NextDigit
        <3> QED
            BY <3>2 DEF p, q, DigitMore
    <2> QED
        BY <2>2, <2>7, <2>8
<1>9. sum[n] = v % pow(n)
    BY <1>8
<1>10. v % pow(n) = v
    BY <1>3, <1>7, SmallMod
<1> QED
    BY <1>5, <1>9, <1>10 DEF c

\* The bytes c lie at the position.
Ahead(b, f, c) ==
    /\ c \in Seq(B!Byte) /\ b.position + Len(c) <= b.size
    /\ \A k \in 1..Len(c) : f[b.position + k] = c[k]

LEMMA ReadAhead ==
    ASSUME NEW b, NEW f, Stores(b, f), Known(b, f), NEW c, Ahead(b, f, c), NEW r, r = B!read(b, Len(c))
    PROVE  /\ Kept(r, b, f)
           /\ b.position = b.capacity => r.out = "null" /\ r.b = b /\ Len(c) = 0
           /\ b.position # b.capacity => r.out = "ok" /\ r.bytes = c /\ r.b.position = b.position + Len(c)
<1>1. b.position \in Nat /\ b.size \in Nat /\ b.capacity \in Nat /\ b.position <= b.size /\ b.size <= b.capacity
    BY DEF Stores, Blocks, Arranged
<1>2. c \in Seq(B!Byte) /\ Len(c) \in Nat /\ b.position + Len(c) <= b.size
      /\ \A k \in 1..Len(c) : f[b.position + k] = c[k]
    BY DEF Ahead
<1>3. Kept(r, b, f)
    BY <1>2, ReadKept
<1>4. ReadEnds(b, f, Len(c), r)
    BY <1>2, ReadIs
<1>5. ~(Len(c) > b.size - b.position)
    BY <1>1, <1>2
<1>6. ASSUME b.position = b.capacity
      PROVE  r.out = "null" /\ r.b = b /\ Len(c) = 0
    <2>1. Len(c) = 0
        BY <1>1, <1>2, <1>6
    <2>2. r.out = "null"
        BY <1>4, <1>5, <1>6 DEF ReadEnds
    <2> QED
        BY <1>4, <2>1, <2>2 DEF ReadEnds
<1>7. ASSUME b.position # b.capacity
      PROVE  r.out = "ok" /\ r.bytes = c /\ r.b.position = b.position + Len(c)
    <2>1. r.out = "ok"
        BY <1>4, <1>5, <1>7 DEF ReadEnds
    <2>2. r.b.position = b.position + Len(c)
        BY <1>4, <2>1 DEF ReadEnds
    <2>3. r.bytes \in Seq(B!Byte) /\ Len(r.bytes) = Len(c) /\ \A k \in 1..Len(c) : r.bytes[k] = f[b.position + k]
        BY <1>2, <2>1, ReadKnown
    <2>4. r.bytes = c
        BY <1>2, <2>3
    <2> QED
        BY <2>1, <2>2, <2>4
<1> QED
    BY <1>3, <1>6, <1>7

LEMMA AheadNext ==
    ASSUME NEW b, NEW f, Stores(b, f), NEW c \in Seq(B!Byte), NEW d \in Seq(B!Byte), Ahead(b, f, c \o d),
           NEW u, u.position = b.position + Len(c), u.size = b.size
    PROVE  Ahead(b, f, c) /\ Ahead(u, f, d)
<1> DEFINE s == c \o d
<1>1. /\ s \in Seq(B!Byte) /\ Len(s) = Len(c) + Len(d)
      /\ \A k \in 1..Len(c) : s[k] = c[k]
      /\ \A k \in 1..Len(d) : s[Len(c) + k] = d[k]
    BY Appended
<1>2. b.position + Len(s) <= b.size /\ \A k \in 1..Len(s) : f[b.position + k] = s[k]
    BY DEF Ahead
<1>3. b.position \in Nat /\ b.size \in Nat /\ Len(c) \in Nat /\ Len(d) \in Nat
    BY DEF Stores, Blocks
<1> HIDE DEF s
<1>4. b.position + Len(c) <= b.size /\ u.position + Len(d) <= u.size
    BY <1>1, <1>2, <1>3
<1>5. ASSUME NEW k \in 1..Len(c) PROVE f[b.position + k] = c[k]
    BY <1>1, <1>2, <1>3
<1>6. ASSUME NEW k \in 1..Len(d) PROVE f[u.position + k] = d[k]
    <2>1. Len(c) + k \in 1..Len(s) /\ b.position + (Len(c) + k) = u.position + k
        BY <1>1, <1>3
    <2> QED
        BY <1>1, <1>2, <2>1
<1> QED
    BY <1>4, <1>5, <1>6 DEF Ahead

\* The value v of n bytes was read.
Back(r, b, f, v, n) == Kept(r, b, f) /\ r.out = "ok" /\ r.value = v /\ r.b.position = b.position + n

LEMMA ReadFixedBack ==
    ASSUME NEW b, NEW f, Stores(b, f), Known(b, f), NEW v \in Nat, NEW n \in Nat \ {0}, n <= Bytes,
           v < (2 * B!Group) ^ n, Ahead(b, f, B!Fixed(b, v, n))
    PROVE  Back(B!readFixed(b, n), b, f, v, n)
<1> DEFINE c == B!Fixed(b, v, n)
           r == B!read(b, n)
           y == B!readFixed(b, n)
<1>1. c \in Seq(B!Byte) /\ Len(c) = n /\ B!FixedValue(b, c) = v
    BY FixedBytes, FixedBack
<1>2. y = [out |-> r.out, b |-> r.b, value |-> IF r.out = "ok" THEN B!FixedValue(b, r.bytes) ELSE 0]
    BY DEF B!readFixed
<1>3. r = B!read(b, Len(c)) /\ Ahead(b, f, c)
    BY <1>1
<1> HIDE DEF c, r, y
<1>4. /\ Kept(r, b, f)
      /\ b.position = b.capacity => Len(c) = 0
      /\ b.position # b.capacity => r.out = "ok" /\ r.bytes = c /\ r.b.position = b.position + Len(c)
    BY <1>3, ReadAhead
<1>5. r.out = "ok" /\ r.bytes = c /\ r.b.position = b.position + n
    BY <1>1, <1>4
<1>6. y.out = "ok" /\ y.b = r.b /\ y.value = v
    BY <1>1, <1>2, <1>5
<1>7. Back(y, b, f, v, n)
    BY <1>4, <1>5, <1>6 DEF Back, Kept
<1> QED
    BY <1>7 DEF y

LEMMA BackKept ==
    ASSUME NEW r, NEW b, NEW f, Kept(r, b, f), NEW s, Kept(s, r.b, f)
    PROVE  Kept(s, b, f)
BY DEF Kept

LEMMA GroupPowers ==
    /\ B!Group \in Nat /\ B!Group >= 2 /\ B!Byte = 0..2 * B!Group - 1 /\ Rounds \in Nat
    /\ \A i \in 0..Rounds : B!Group ^ i \in Nat \ {0}
    /\ \A i \in 1..Rounds : B!Group ^ i = B!Group ^ (i - 1) * B!Group
    /\ B!Group ^ 0 = 1 /\ 2 ^ B!Width <= B!Group ^ Rounds
<1>1. B!Group \in Nat /\ B!Group >= 2 /\ B!Byte = 0..2 * B!Group - 1 /\ Rounds \in Nat
    BY PowersAssumption, PowersAre, RoundsNat
<1> QED
    BY <1>1, PowersAssumption DEF Rounds

\* The loop of readUint after i bytes of the varint of v: the rest w of the
\* value is still ahead, or all of it was read.
Halfway(s, b, f, v, i) ==
    /\ Reading(s, b, f) /\ s.out = "ok" /\ s.more = TRUE /\ s.b.position = b.position + i
    /\ \E w \in Nat : /\ s.value + w * B!Group ^ i = v /\ (i > 0 => w >= 1)
                      /\ Ahead(s.b, f, B!Varint[w]) /\ Len(B!Varint[v]) = i + Len(B!Varint[w])

Arrived(s, b, f, v) ==
    /\ Reading(s, b, f) /\ s.out = "ok" /\ s.more = FALSE /\ s.value = v
    /\ s.b.position = b.position + Len(B!Varint[v])

\* One digit of a number in base g.
LEMMA DigitTaken ==
    ASSUME NEW g \in Nat, g >= 2, NEW p \in Nat \ {0}, NEW x \in Nat, NEW w \in Nat
    PROVE  /\ x + (w % g) * p \in Nat
           /\ (x + (w % g) * p) + (w \div g) * (p * g) = x + w * p
           /\ x + (w % g) * p <= x + w * p /\ (w >= g => w \div g >= 1)
<1> DEFINE q == w \div g
           r == w % g
<1>1. q \in Nat /\ r \in Nat /\ r < g /\ w = g * q + r
    BY Divided
<1>2. w >= g => q >= 1
    BY InBlocks
<1> HIDE DEF q, r
<1>3. x + r * p \in Nat /\ q * (p * g) \in Nat
    BY <1>1
<1>4. w * p = q * (p * g) + r * p
    BY <1>1
<1>5. (x + r * p) + q * (p * g) = x + w * p
    <2> DEFINE y == q * (p * g)
               z == r * p
    <2>1. y \in Nat /\ z \in Nat /\ w * p = y + z
        BY <1>1, <1>3, <1>4
    <2> HIDE DEF y, z
    <2>2. (x + z) + y = x + w * p
        BY <2>1
    <2> QED
        BY <2>2 DEF y, z
<1>6. x + r * p <= x + w * p
    BY <1>3, <1>5
<1> QED
    BY <1>2, <1>3, <1>5, <1>6 DEF q, r

LEMMA RoundBack ==
    ASSUME NEW b, NEW f, Stores(b, f), Known(b, f), NEW v \in Nat, v < 2 ^ B!Width,
           NEW i \in 1..Rounds, NEW s, Halfway(s, b, f, v, i - 1)
    PROVE  Halfway(Round(s, i), b, f, v, i) \/ Arrived(Round(s, i), b, f, v)
<1> DEFINE r == B!read(s.b, 1)
           g == B!Group
           p == B!Group ^ (i - 1)
           y == Round(s, i)
           a == s.value
<1>1. /\ Reading(s, b, f) /\ s.out = "ok" /\ s.more = TRUE /\ s.b.position = b.position + (i - 1)
      /\ s.value \in Nat /\ Kept(s, b, f)
    BY DEF Halfway, Reading
<1>2. PICK w \in Nat : /\ a + w * p = v
                       /\ Ahead(s.b, f, B!Varint[w]) /\ Len(B!Varint[v]) = i - 1 + Len(B!Varint[w])
    BY DEF Halfway
<1>3. /\ g \in Nat /\ g >= 2 /\ p \in Nat \ {0} /\ i \in Nat /\ i - 1 \in Nat /\ i > 0
      /\ B!Group ^ i = p * g
    <2>1. i - 1 \in 0..Rounds /\ i \in Nat /\ i - 1 \in Nat /\ i > 0
        BY GroupPowers
    <2> QED
        BY <2>1, GroupPowers
<1>4. /\ Stores(s.b, f) /\ Known(s.b, f) /\ s.b.size = b.size /\ s.b.base = b.base /\ s.b.little = b.little
      /\ s.b.capacity = b.capacity
    BY <1>1 DEF Kept
<1> DEFINE c == B!Varint[w]
           x == c[1]
<1>5. c \in Seq(B!Byte) /\ Len(c) >= 1 /\ c = VarintOf(B!Varint, w)
    BY VarintBytes, VarintIs
<1>6. x \in Nat /\ (w < g => x = w) /\ (~(w < g) => x = (w % g) + g)
    <2>1. x \in B!Byte
        BY <1>5
    <2>2. x \in Nat
        BY <2>1, GroupPowers
    <2>3. ASSUME w < g PROVE x = w
        <3>1. c = <<w>>
            BY <1>5, <2>3 DEF VarintOf
        <3> HIDE DEF c
        <3> QED
            BY <3>1
    <2>4. ASSUME ~(w < g) PROVE x = (w % g) + g
        <3> DEFINE d == B!Varint[w \div g]
                   e == (w % g) + g
        <3>1. c = <<e>> \o d
            BY <1>5, <2>4 DEF VarintOf
        <3>2. d \in Seq(B!Byte)
            <4>1. w \div g \in Nat
                BY <1>3, Divided
            <4> QED
                BY <4>1, VarintBytes
        <3> HIDE DEF c, d, e
        <3>3. (<<e>> \o d)[1] = e
            BY <3>2
        <3> QED
            BY <3>1, <3>3 DEF e
    <2> QED
        BY <2>2, <2>3, <2>4
<1>7. /\ r.out = "ok" /\ r.bytes[1] = x /\ r.b.position = b.position + i
      /\ Kept(r, b, f) /\ Kept(r, s.b, f)
      /\ \A d \in Seq(B!Byte) : c = <<x>> \o d => Ahead(r.b, f, d)
    <2> DEFINE one == <<x>>
               rest == Tail(c)
    <2>1. one \in Seq(B!Byte) /\ Len(one) = 1 /\ one[1] = x
        BY <1>5
    <2>2. rest \in Seq(B!Byte) /\ c = one \o rest
        <3> HIDE DEF c
        <3>1. rest \in Seq(B!Byte) /\ Len(rest) = Len(c) - 1 /\ \A k \in 1..Len(rest) : rest[k] = c[k + 1]
            BY <1>5
        <3> HIDE DEF one, rest
        <3>2. one \in Seq(B!Byte) /\ rest \in Seq(B!Byte)
            BY <2>1, <3>1
        <3>3. /\ one \o rest \in Seq(B!Byte) /\ Len(one \o rest) = Len(one) + Len(rest)
              /\ \A k \in 1..Len(one) : (one \o rest)[k] = one[k]
              /\ \A k \in 1..Len(rest) : (one \o rest)[Len(one) + k] = rest[k]
            BY <3>2, Appended
        <3>4. ASSUME NEW k \in 1..Len(c) PROVE (one \o rest)[k] = c[k]
            <4>1. CASE k = 1
                BY <2>1, <3>3, <4>1
            <4>2. CASE k # 1
                <5> DEFINE j == k - 1
                <5>1. j \in 1..Len(rest) /\ k = 1 + j /\ k = j + 1
                    BY <1>5, <3>1, <4>2
                <5> HIDE DEF j
                <5> QED
                    BY <2>1, <3>1, <3>3, <5>1
            <4> QED
                BY <4>1, <4>2
        <3> DEFINE u == one \o rest
                   n == Len(c)
        <3>5. u \in Seq(B!Byte) /\ Len(u) = n /\ c \in Seq(B!Byte) /\ Len(c) = n /\ \A k \in 1..n : u[k] = c[k]
            BY <1>5, <2>1, <3>1, <3>3, <3>4
        <3> HIDE DEF u, n
        <3>6. u = c
            BY <3>5
        <3> QED
            BY <3>1, <3>6 DEF u
    <2> HIDE DEF one, rest
    <2>3. Ahead(s.b, f, one \o rest)
        BY <1>2, <2>2
    <2>4. Ahead(s.b, f, one)
        <3> DEFINE u == [position |-> s.b.position + Len(one), size |-> s.b.size]
        <3>1. u.position = s.b.position + Len(one) /\ u.size = s.b.size
            OBVIOUS
        <3> HIDE DEF u
        <3> QED
            BY <1>4, <2>1, <2>2, <2>3, <3>1, AheadNext
    <2>5. r = B!read(s.b, Len(one))
        BY <2>1
    <2> HIDE DEF r
    <2>6. /\ Kept(r, s.b, f)
          /\ s.b.position = s.b.capacity => Len(one) = 0
          /\ s.b.position # s.b.capacity => r.out = "ok" /\ r.bytes = one /\ r.b.position = s.b.position + Len(one)
        BY <1>4, <2>4, <2>5, ReadAhead
    <2>7. r.out = "ok" /\ r.bytes = one /\ r.b.position = s.b.position + 1
        BY <2>1, <2>6
    <2>8. b.position \in Nat
        BY DEF Stores, Blocks
    <2>9. r.b.position = b.position + i
        BY <1>1, <1>3, <2>7, <2>8
    <2>10. Kept(r, b, f)
        BY <1>1, <2>6, BackKept
    <2>11. ASSUME NEW d \in Seq(B!Byte), c = one \o d PROVE Ahead(r.b, f, d)
        <3>1. Ahead(s.b, f, one \o d)
            BY <1>2, <2>11
        <3>2. r.b.position = s.b.position + Len(one) /\ r.b.size = s.b.size
            BY <2>1, <2>6, <2>7 DEF Kept
        <3> QED
            BY <1>4, <2>1, <3>1, <3>2, AheadNext
    <2> QED
        BY <2>1, <2>6, <2>7, <2>9, <2>10, <2>11 DEF one
<1> DEFINE value == B!Unsigned(a + (x % g) * p)
<1>8. y = [out |-> "ok", b |-> r.b, more |-> x >= g, value |-> value]
    <2>1. y = [out |-> "ok", b |-> r.b, more |-> r.bytes[1] >= g,
               value |-> B!Unsigned(a + (r.bytes[1] % g) * p)]
        <3>1. ~(s.out # "ok" \/ ~s.more) /\ ~(r.out # "ok")
            BY <1>1, <1>7
        <3> HIDE DEF a
        <3> QED
            BY <3>1 DEF Round, a
    <2> QED
        BY <1>7, <2>1
<1>9. a + (w % g) * p \in Nat /\ (a + (w % g) * p) + (w \div g) * (p * g) = v
      /\ a + (w % g) * p <= v /\ (w >= g => w \div g >= 1)
    <2>1. a \in Nat
        BY <1>1
    <2>2. a + w * p = v
        BY <1>2
    <2> HIDE DEF a, p, g
    <2>3. /\ a + (w % g) * p \in Nat
          /\ (a + (w % g) * p) + (w \div g) * (p * g) = a + w * p
          /\ a + (w % g) * p <= a + w * p /\ (w >= g => w \div g >= 1)
        BY <1>3, <2>1, DigitTaken
    <2> QED
        BY <2>2, <2>3
<1>10. x % g = w % g
    <2> HIDE DEF x, g
    <2>1. CASE w < g
        BY <1>6, <2>1
    <2>2. CASE ~(w < g)
        <3> DEFINE t == w % g
                   o == 1
        <3>1. t \in Nat /\ t < g /\ x = t + g
            BY <1>3, <1>6, <2>2, Divided
        <3> HIDE DEF t
        <3> HIDE DEF o
        <3>2. x = g * o + t /\ t \in 0..(g - 1) /\ x \in Int /\ o \in Int /\ g \in Nat \ {0}
            BY <1>3, <3>1 DEF o
        <3>3. t = x % g
            BY <3>2, DividedOnce
        <3> QED
            BY <3>3 DEF t
    <2> QED
        BY <2>1, <2>2
<1>11. value = a + (w % g) * p
    <2> DEFINE z == a + (w % g) * p
    <2>1. z \in Nat /\ z < 2 ^ B!Width
        BY <1>9, WidthPowers
    <2>2. value = B!Unsigned(z)
        BY <1>10
    <2> HIDE DEF z, value
    <2>3. value = z
        BY <2>1, <2>2, UnsignedSame
    <2> QED
        BY <2>3 DEF z
<1>12. /\ y.out = "ok" /\ y.b = r.b /\ y.more = (x >= g) /\ y.value = value
       /\ y = [out |-> y.out, value |-> y.value, more |-> y.more, b |-> y.b]
    <2> HIDE DEF y, r, x, g, value
    <2> QED
        BY <1>8
<1> HIDE DEF y, r, value
<1>13. Reading(y, b, f) /\ y.b.position = b.position + i
    <2>1. Kept(y, b, f)
        BY <1>7, <1>12 DEF Kept
    <2>2. y.value \in Nat
        BY <1>9, <1>11, <1>12
    <2> QED
        BY <1>7, <1>12, <2>1, <2>2 DEF Reading
<1>14. CASE w < g
    <2>1. y.more = FALSE
        <3>1. ~(x >= g)
            BY <1>3, <1>6, <1>14
        <3>2. (x >= g) = FALSE
            BY <3>1
        <3> QED
            BY <1>12, <3>2
    <2>2. y.value = v
        <3>1. w % g = w
            BY <1>3, <1>14, SmallMod
        <3> QED
            BY <1>2, <1>11, <1>12, <3>1
    <2>3. Len(B!Varint[v]) = i
        <3>1. c = <<w>>
            BY <1>5, <1>14 DEF VarintOf
        <3>2. Len(c) = 1
            BY <3>1
        <3> QED
            BY <1>2, <1>3, <3>2
    <2> QED
        BY <1>12, <1>13, <2>1, <2>2, <2>3 DEF Arrived, y
<1>15. CASE ~(w < g)
    <2> DEFINE u == w \div g
               d == B!Varint[u]
    <2>1. y.more = TRUE
        <3>1. x >= g
            BY <1>3, <1>6, <1>15, Divided
        <3> QED
            BY <1>12, <3>1
    <2>2. u \in Nat /\ u >= 1
        BY <1>3, <1>9, <1>15, Divided
    <2>3. c = <<x>> \o d
        BY <1>5, <1>6, <1>15 DEF VarintOf
    <2> HIDE DEF u
    <2>4. d \in Seq(B!Byte)
        BY <2>2, VarintBytes
    <2>5. Ahead(y.b, f, d)
        BY <1>7, <1>12, <2>3, <2>4
    <2>6. y.value + u * B!Group ^ i = v
        BY <1>3, <1>9, <1>11, <1>12 DEF u
    <2>7. Len(B!Varint[v]) = i + Len(d)
        <3> HIDE DEF c, d
        <3>1. Len(<<x>> \o d) = 1 + Len(d) /\ Len(d) \in Nat
            BY <2>4
        <3>2. Len(c) = 1 + Len(d)
            BY <2>3, <3>1
        <3>3. Len(B!Varint[v]) = i - 1 + Len(c)
            BY <1>2 DEF c
        <3> QED
            BY <1>3, <3>1, <3>2, <3>3
    <2>8. Halfway(y, b, f, v, i)
        BY <1>12, <1>13, <2>1, <2>2, <2>5, <2>6, <2>7 DEF Halfway
    <2> QED
        BY <2>8 DEF y
<1> QED
    BY <1>14, <1>15

LEMMA ReadUintBack ==
    ASSUME NEW b, NEW f, Stores(b, f), Known(b, f), NEW v \in Nat, v < 2 ^ B!Width, Ahead(b, f, B!Varint[v])
    PROVE  Back(B!readUint(b), b, f, v, Len(B!Varint[v])) /\ Reading(B!readUint(b), b, f)
<1>1. PICK after : /\ B!readUint(b) = after[Rounds] /\ after[0] = First(b)
                   /\ \A i \in 1..Rounds : after[i] = Round(after[i - 1], i)
    BY LoopIs
<1>2. Rounds \in Nat
    BY RoundsNat
<1> DEFINE Good(i) == Halfway(after[i], b, f, v, i) \/ Arrived(after[i], b, f, v)
           Bad == {i \in 0..Rounds : ~Good(i)}
<1>3. Good(0)
    <2> DEFINE s == First(b)
    <2>1. /\ s.out = "ok" /\ s.value = 0 /\ s.more = TRUE /\ s.b = b
          /\ s = [out |-> s.out, value |-> s.value, more |-> s.more, b |-> s.b]
        BY DEF First
    <2> HIDE DEF s
    <2>2. Kept(s, b, f)
        BY <2>1 DEF Kept
    <2>3. Reading(s, b, f)
        BY <2>1, <2>2 DEF Reading
    <2>4. b.position \in Nat /\ b.position = b.position + 0
        BY DEF Stores, Blocks
    <2>5. s.value + v * B!Group ^ 0 = v
        <3>1. v * 1 = v /\ 0 + v = v
            OBVIOUS
        <3> QED
            BY <2>1, <3>1, GroupPowers
    <2>6. Len(B!Varint[v]) = 0 + Len(B!Varint[v])
        <3>1. Len(B!Varint[v]) \in Nat
            BY VarintBytes
        <3> QED
            BY <3>1
    <2>7. ~(0 > 0)
        OBVIOUS
    <2>8. Halfway(s, b, f, v, 0)
        BY <2>1, <2>3, <2>4, <2>5, <2>6, <2>7 DEF Halfway
    <2> QED
        BY <1>1, <2>8 DEF s
<1>4. ASSUME NEW i \in 1..Rounds, Good(i - 1)
      PROVE  Good(i)
    <2>1. after[i] = Round(after[i - 1], i)
        BY <1>1
    <2>2. CASE Halfway(after[i - 1], b, f, v, i - 1)
        BY <2>1, <2>2, RoundBack
    <2>3. CASE Arrived(after[i - 1], b, f, v)
        <3>1. after[i - 1].more = FALSE
            BY <2>3 DEF Arrived
        <3>2. after[i] = after[i - 1]
            BY <2>1, <3>1 DEF Round
        <3> QED
            BY <2>3, <3>2
    <2> QED
        BY <1>4, <2>2, <2>3
<1>5. Bad = {}
    <2> SUFFICES ASSUME Bad # {} PROVE FALSE
        OBVIOUS
    <2>1. PICK i \in Bad : \A y \in Bad : i <= y
        <3>1. Bad \in SUBSET Nat
            BY <1>2
        <3> HIDE DEF Bad
        <3> QED
            BY <3>1, LeastExists
    <2>2. i \in 0..Rounds /\ i \in Nat /\ ~Good(i)
        BY <1>2
    <2> HIDE DEF Good
    <2>3. i # 0
        BY <1>3, <2>2
    <2>4. i - 1 \in 0..Rounds /\ i \in 1..Rounds /\ ~(i <= i - 1)
        BY <1>2, <2>2, <2>3
    <2>5. i - 1 \notin Bad
        <3> HIDE DEF Bad
        <3> QED
            BY <2>1, <2>4
    <2>6. Good(i - 1)
        BY <2>4, <2>5
    <2> QED
        BY <1>4, <2>2, <2>4, <2>6
<1>6. Good(Rounds)
    BY <1>2, <1>5
<1>7. ~Halfway(after[Rounds], b, f, v, Rounds)
    <2> SUFFICES ASSUME Halfway(after[Rounds], b, f, v, Rounds) PROVE FALSE
        OBVIOUS
    <2> DEFINE x == after[Rounds].value
               p == B!Group ^ Rounds
               h == 2 ^ B!Width
    <2>1. PICK w \in Nat : x + w * p = v /\ (Rounds > 0 => w >= 1)
        BY DEF Halfway
    <2>2. x \in Nat
        BY DEF Halfway, Reading
    <2>3. p \in Nat \ {0} /\ h <= p /\ v < h /\ h \in Nat
        <3>1. Rounds \in 0..Rounds
            BY <1>2
        <3> QED
            BY <3>1, GroupPowers, WidthPowers
    <2>4. Rounds > 0
        <3>1. CASE Rounds = 0
            <4>1. p = 1
                BY <3>1, GroupPowers
            <4>2. h = 2 * 2 ^ (B!Width - 1) /\ 2 ^ (B!Width - 1) \in Nat \ {0}
                BY WidthPowers
            <4> HIDE DEF p, h
            <4> QED
                BY <2>3, <4>1, <4>2
        <3> QED
            BY <1>2, <3>1
    <2> HIDE DEF x, p, h
    <2>5. w * p >= p /\ w * p \in Nat
        <3>1. w >= 1
            BY <2>1, <2>4
        <3> QED
            BY <2>3, <3>1
    <2> QED
        BY <2>1, <2>2, <2>3, <2>5
<1>8. Arrived(after[Rounds], b, f, v)
    BY <1>6, <1>7
<1> QED
    BY <1>1, <1>8 DEF Arrived, Back, Reading

\* A string of length 0 at the end of the last block is not read but crashes.
StringBack(r, b, f, v, n) ==
    \/ Back(r, b, f, v, n)
    \/ Kept(r, b, f) /\ r.out = "null" /\ v = <<>> /\ r.b.position = b.capacity /\ b.position + n = b.capacity

\* The bytes of the length.
LengthBytes(b, type, n) == IF type = "StringVint" THEN B!Varint[n] ELSE B!Fixed(b, n, Bytes)

LEMMA ReadStringBack ==
    ASSUME NEW b, NEW f, Stores(b, f), Known(b, f), NEW type, NEW v \in Seq(B!Byte), Len(v) < 2 ^ B!Width,
           Ahead(b, f, LengthBytes(b, type, Len(v)) \o v)
    PROVE  StringBack(B!readString(b, type), b, f, v, Len(LengthBytes(b, type, Len(v)) \o v))
<1> DEFINE length == IF type = "StringVint" THEN B!readUint(b) ELSE B!readFixed(b, Bytes)
           r == B!read(length.b, length.value)
           y == B!readString(b, type)
           c == LengthBytes(b, type, Len(v))
           n == Len(c \o v)
<1>1. y = IF length.out # "ok" THEN [out |-> length.out, value |-> <<>>, b |-> length.b]
          ELSE [out |-> r.out, value |-> r.bytes, b |-> r.b]
    BY DEF B!readString
<1>2. Len(v) \in Nat /\ Bytes \in Nat \ {0} /\ Bytes <= Bytes /\ Bytes \in Nat
    BY PowersAre
<1>3. c \in Seq(B!Byte) /\ (type # "StringVint" => Len(c) = Bytes)
    BY <1>2, VarintBytes, FixedBytes DEF LengthBytes
<1>4. n = Len(c) + Len(v) /\ Len(c) \in Nat
    BY <1>3
<1>5. Ahead(b, f, c)
    <2> DEFINE u == [position |-> b.position + Len(c), size |-> b.size]
    <2>1. u.position = b.position + Len(c) /\ u.size = b.size
        OBVIOUS
    <2>2. Ahead(b, f, c \o v)
        OBVIOUS
    <2> HIDE DEF u, c
    <2> QED
        BY <1>3, <2>1, <2>2, AheadNext
<1>6. Back(length, b, f, Len(v), Len(c))
    <2>1. CASE type = "StringVint"
        <3>1. c = B!Varint[Len(v)] /\ length = B!readUint(b)
            BY <2>1 DEF LengthBytes
        <3> QED
            BY <1>2, <1>5, <3>1, ReadUintBack
    <2>2. CASE type # "StringVint"
        <3>1. c = B!Fixed(b, Len(v), Bytes) /\ length = B!readFixed(b, Bytes) /\ Len(c) = Bytes
            BY <1>3, <2>2 DEF LengthBytes
        <3>2. Len(v) < (2 * B!Group) ^ Bytes
            BY WidthPowers
        <3> QED
            BY <1>2, <1>5, <3>1, <3>2, ReadFixedBack
    <2> QED
        BY <2>1, <2>2
<1> HIDE DEF length, c
<1>7. /\ length.out = "ok" /\ length.value = Len(v) /\ length.b.position = b.position + Len(c)
      /\ Kept(length, b, f)
    BY <1>6 DEF Back
<1>8. Stores(length.b, f) /\ Known(length.b, f) /\ length.b.size = b.size /\ length.b.capacity = b.capacity
    BY <1>7 DEF Kept
<1>9. Ahead(length.b, f, v)
    <2>1. Ahead(b, f, c \o v)
        BY DEF c
    <2> QED
        BY <1>3, <1>7, <1>8, <2>1, AheadNext
<1>10. r = B!read(length.b, Len(v))
    BY <1>7
<1> HIDE DEF r, y
<1>11. /\ Kept(r, length.b, f)
       /\ length.b.position = length.b.capacity => r.out = "null" /\ r.b = length.b /\ Len(v) = 0
       /\ length.b.position # length.b.capacity =>
              r.out = "ok" /\ r.bytes = v /\ r.b.position = length.b.position + Len(v)
    BY <1>8, <1>9, <1>10, ReadAhead
<1>12. y.out = r.out /\ y.b = r.b /\ y.value = r.bytes
    BY <1>1, <1>7
<1>13. Kept(y, b, f)
    <2>1. Kept(r, b, f)
        BY <1>7, <1>11, BackKept
    <2> QED
        BY <1>12, <2>1 DEF Kept
<1>14. b.position \in Nat
    BY DEF Stores, Blocks
<1>15. CASE length.b.position = length.b.capacity
    <2>1. v = <<>> /\ Len(v) = 0
        BY <1>11, <1>15
    <2>2. b.position + n = b.capacity /\ y.b.position = b.capacity /\ y.out = "null"
        BY <1>4, <1>7, <1>8, <1>11, <1>12, <1>14, <1>15, <2>1
    <2>3. StringBack(y, b, f, v, n)
        BY <1>13, <2>1, <2>2 DEF StringBack
    <2> QED
        BY <2>3 DEF y, c
<1>16. CASE length.b.position # length.b.capacity
    <2>1. y.out = "ok" /\ y.value = v /\ y.b.position = b.position + n
        BY <1>4, <1>7, <1>11, <1>12, <1>14, <1>16
    <2>2. StringBack(y, b, f, v, n)
        BY <1>13, <2>1 DEF StringBack, Back
    <2> QED
        BY <2>2 DEF y, c
<1> QED
    BY <1>15, <1>16

\* Whatever the type: the bytes of a value, in the array's byte order.
BytesOf(b, type, v) == B!FlattenSeq(B!Encoded(b, type, v))

\* A read of the type finds the value.
Found(r, b, f, type, v, n) ==
    \/ Kept(r, b, f) /\ r.out = "ok" /\ B!Boxed(type, r.value) = B!Boxed(type, v) /\ r.b.position = b.position + n
    \/ /\ Kept(r, b, f) /\ r.out = "null" /\ B!Boxed(type, v) = <<>> /\ r.b.position = b.capacity
       /\ b.position + n = b.capacity

LEMMA ValueRanges ==
    /\ \A v \in Numbers : v \in Nat /\ v < 2 ^ B!Width
    /\ \A v \in SignedNumbers : v \in -(2 ^ (B!Width - 1))..2 ^ (B!Width - 1) - 1
    /\ \A v \in Strings : v \in Seq(B!Byte) /\ Len(v) < 2 ^ B!Width
BY BoundsAssumption, WidthPowers

LEMMA DecodedBack ==
    ASSUME NEW b, NEW f, Stores(b, f), Known(b, f), NEW type \in B!Type \ {"Raw"}, NEW v \in B!ValuesOf(type),
           Ahead(b, f, BytesOf(b, type, v))
    PROVE  Found(B!Decoded(b, type), b, f, type, v, Len(BytesOf(b, type, v)))
<1>1. 1 \in Nat \ {0} /\ Bytes \in Nat \ {0} /\ 1 <= Bytes /\ Bytes <= Bytes /\ Bytes \in Nat /\ 1 \in Nat
    BY PowersAre
<1> DEFINE c == BytesOf(b, type, v)
           y == B!Decoded(b, type)
<1>2. CASE type = "Fint8"
    <2>1. v \in Nat /\ v \in B!Byte
        BY <1>2, ValueRanges DEF B!ValuesOf
    <2>2. c = B!Fixed(b, v, 1) /\ y = B!readFixed(b, 1)
        BY <1>2, FlattenOne DEF BytesOf, B!Encoded, B!Decoded
    <2>3. v < (2 * B!Group) ^ 1
        <3> DEFINE g == 2 * B!Group
        <3>1. g ^ 1 = g ^ (1 - 1) * g /\ g ^ 0 = 1 /\ 1 - 1 = 0 /\ g \in Nat
            <4>1. 1 \in 1..Bytes
                BY <1>1
            <4> QED
                BY <4>1, PowersAssumption, PowersAre
        <3>2. v \in 0..g - 1
            BY <2>1, PowersAre
        <3> HIDE DEF g
        <3>3. g ^ 1 = g
            BY <3>1
        <3>4. v < g ^ 1
            BY <3>1, <3>2, <3>3
        <3> QED
            BY <3>4 DEF g
    <2>4. Len(c) = 1
        <3> DEFINE n == 1
        <3>1. n \in Nat /\ n <= Bytes /\ c = B!Fixed(b, v, n)
            BY <1>1, <2>2
        <3> HIDE DEF n, c
        <3>2. Len(B!Fixed(b, v, n)) = n
            BY <2>1, <3>1, FixedBytes
        <3> QED
            BY <3>1, <3>2 DEF n
    <2>5. Back(y, b, f, v, 1)
        BY <1>1, <2>1, <2>2, <2>3, ReadFixedBack
    <2> HIDE DEF c, y
    <2>6. Found(y, b, f, type, v, Len(c))
        BY <2>4, <2>5 DEF Found, Back
    <2> QED
        BY <2>6 DEF c, y
<1>3. CASE type = "Fixed"
    <2>1. v \in Nat /\ v < (2 * B!Group) ^ Bytes
        BY <1>3, ValueRanges, WidthPowers DEF B!ValuesOf
    <2>2. c = B!Fixed(b, v, Bytes) /\ y = B!readFixed(b, Bytes)
        BY <1>3, FlattenOne DEF BytesOf, B!Encoded, B!Decoded
    <2>4. Len(c) = Bytes
        BY <1>1, <2>1, <2>2, FixedBytes
    <2>5. Back(y, b, f, v, Bytes)
        BY <1>1, <2>1, <2>2, ReadFixedBack
    <2> HIDE DEF c, y
    <2>6. Found(y, b, f, type, v, Len(c))
        BY <2>4, <2>5 DEF Found, Back
    <2> QED
        BY <2>6 DEF c, y
<1>4. CASE type = "Signed"
    <2> DEFINE x == B!Unsigned(v)
               r == B!readFixed(b, Bytes)
    <2>1. v \in -(2 ^ (B!Width - 1))..2 ^ (B!Width - 1) - 1
        BY <1>4, ValueRanges DEF B!ValuesOf
    <2>2. x \in Nat /\ x < (2 * B!Group) ^ Bytes /\ B!Signed(x) = v
        BY <2>1, SignedBack, WidthPowers
    <2>3. c = B!Fixed(b, x, Bytes) /\ y = [r EXCEPT !.value = B!Signed(@)]
        BY <1>4, FlattenOne DEF BytesOf, B!Encoded, B!Decoded
    <2>4. Len(c) = Bytes
        BY <1>1, <2>2, <2>3, FixedBytes
    <2>5. Back(r, b, f, x, Bytes)
        <3> HIDE DEF x
        <3> QED
            BY <1>1, <2>2, <2>3, ReadFixedBack
    <2>6. r = [out |-> r.out, b |-> r.b, value |-> r.value]
        BY DEF B!readFixed
    <2> HIDE DEF c, y, x, r
    <2>7. y.out = r.out /\ y.b = r.b /\ y.value = B!Signed(r.value)
        BY <2>3, <2>6
    <2>8. y.value = v /\ y.out = "ok" /\ y.b.position = b.position + Bytes
        BY <2>2, <2>5, <2>7 DEF Back
    <2>9. Kept(y, b, f)
        BY <2>5, <2>7 DEF Back, Kept
    <2>10. Found(y, b, f, type, v, Len(c))
        BY <2>4, <2>8, <2>9 DEF Found
    <2> QED
        BY <2>10 DEF c, y
<1>5. CASE type = "Uint"
    <2>1. v \in Nat /\ v < 2 ^ B!Width
        BY <1>5, ValueRanges DEF B!ValuesOf
    <2>2. c = B!Varint[v] /\ y = B!readUint(b)
        BY <1>5, FlattenOne DEF BytesOf, B!Encoded, B!Decoded
    <2>3. Back(y, b, f, v, Len(c))
        BY <2>1, <2>2, ReadUintBack
    <2> HIDE DEF c, y
    <2>4. Found(y, b, f, type, v, Len(c))
        BY <2>3 DEF Found, Back
    <2> QED
        BY <2>4 DEF c, y
<1>6. CASE type = "Int"
    <2> DEFINE x == B!EncodeZigzag(v)
               r == B!readUint(b)
    <2>1. v \in -(2 ^ (B!Width - 1))..2 ^ (B!Width - 1) - 1
        BY <1>6, ValueRanges DEF B!ValuesOf
    <2>2. x \in Nat /\ x < 2 ^ B!Width /\ B!DecodeZigzag(x) = v
        BY <2>1, ZigzagBack
    <2>3. c = B!Varint[x] /\ y = [r EXCEPT !.value = B!DecodeZigzag(@)]
        BY <1>6, FlattenOne DEF BytesOf, B!Encoded, B!Decoded
    <2>4. Back(r, b, f, x, Len(c)) /\ Reading(r, b, f)
        <3> HIDE DEF x
        <3> QED
            BY <2>2, <2>3, ReadUintBack
    <2>5. y.out = r.out /\ y.b = r.b /\ y.value = B!DecodeZigzag(r.value)
        <3>1. r = [out |-> r.out, value |-> r.value, more |-> r.more, b |-> r.b]
            BY <2>4 DEF Reading
        <3> HIDE DEF y, r
        <3> QED
            BY <2>3, <3>1
    <2> HIDE DEF c, y, x, r
    <2>6. y.value = v /\ y.out = "ok" /\ y.b.position = b.position + Len(c)
        BY <2>2, <2>4, <2>5 DEF Back
    <2>7. Kept(y, b, f)
        BY <2>4, <2>5 DEF Back, Kept
    <2>8. Found(y, b, f, type, v, Len(c))
        BY <2>6, <2>7 DEF Found
    <2> QED
        BY <2>8 DEF c, y
<1>7. CASE type \in {"StringF", "StringVint"}
    <2>1. v \in Seq(B!Byte) /\ Len(v) < 2 ^ B!Width
        BY <1>7, ValueRanges DEF B!ValuesOf
    <2>2. c = LengthBytes(b, type, Len(v)) \o v /\ y = B!readString(b, type)
        BY <1>7, FlattenTwo DEF BytesOf, B!Encoded, B!Decoded, LengthBytes
    <2>3. StringBack(y, b, f, v, Len(c))
        BY <2>1, <2>2, ReadStringBack
    <2>4. \A x : B!Boxed(type, x) = x
        BY <1>7 DEF B!Boxed
    <2> HIDE DEF c, y
    <2>5. Found(y, b, f, type, v, Len(c))
        BY <2>3, <2>4 DEF StringBack, Found, Back
    <2> QED
        BY <2>5 DEF c, y
<1> QED
    BY <1>2, <1>3, <1>4, <1>5, <1>6, <1>7 DEF B!Type

-----------------------------------------------------------------------------
(* The values still there *)

\* The item's bytes are where it says, in its byte order.
Stored(it, f) ==
    /\ it.at \in Nat /\ it.length \in Nat /\ it.at + it.length <= Len(f)
    /\ it.type \in B!Type \ {"Raw"}
    /\ \E v \in B!ValuesOf(it.type) :
           /\ it.value = B!Boxed(it.type, v) /\ it.length = Len(BytesOf(it, it.type, v))
           /\ \A k \in 1..it.length : f[it.at + k] = BytesOf(it, it.type, v)[k]

ItemsInv == BytesInv /\ (\A it \in items : Stored(it, flat)) /\ B!RoundTrip

IInv == structure = "bytes" => ItemsInv

\* The bytes depend on the array only through its byte order.
LEMMA BytesOfOrder ==
    ASSUME NEW b, NEW c, b.little = c.little, NEW type, NEW v
    PROVE  BytesOf(b, type, v) = BytesOf(c, type, v)
<1>1. \A x, n : B!Fixed(b, x, n) = B!Fixed(c, x, n)
    BY DEF B!Fixed
<1>2. B!Encoded(b, type, v) = B!Encoded(c, type, v)
    BY <1>1 DEF B!Encoded
<1> QED
    BY <1>2 DEF BytesOf

LEMMA BytesOfIs ==
    ASSUME NEW b, NEW type \in B!Type, NEW v \in B!ValuesOf(type)
    PROVE  BytesOf(b, type, v) \in Seq(B!Byte)
<1>1. PICK c, d : InCalls(B!Encoded(b, type, v), c, d)
    BY EncodedIs
<1>2. c \in Seq(B!Byte) /\ d \in Seq(B!Byte) /\ BytesOf(b, type, v) = c \o d
    BY <1>1 DEF InCalls, BytesOf
<1>3. c \o d \in Seq(B!Byte)
    BY <1>2, Appended
<1> QED
    BY <1>2, <1>3

\* What was not overwritten is still there.
LEMMA StoredStays ==
    ASSUME NEW it, NEW f \in Seq(Cell), Stored(it, f), NEW p \in Nat, NEW bytes \in Seq(B!Byte),
           Len(bytes) = 0 \/ it.at + it.length <= p \/ p + Len(bytes) <= it.at
    PROVE  Stored(it, Over(f, p, bytes))
<1> DEFINE g == Over(f, p, bytes)
<1>1. Len(f) \in Nat /\ Len(bytes) \in Nat /\ it.at \in Nat /\ it.length \in Nat /\ it.at + it.length <= Len(f)
    BY DEF Stored
<1>2. /\ g \in Seq(Cell) /\ Len(g) = B!Larger(Len(f), p + Len(bytes))
      /\ \A i \in 1..B!Larger(Len(f), p + Len(bytes)) : g[i] =
             IF i \in p + 1..p + Len(bytes) THEN bytes[i - p] ELSE IF i <= Len(f) THEN f[i] ELSE B!Unset
    BY OverIs
<1> HIDE DEF g
<1>3. Len(g) \in Nat /\ Len(g) >= Len(f)
    BY <1>1, <1>2, LargerIs
<1>4. ASSUME NEW k \in 1..it.length PROVE g[it.at + k] = f[it.at + k]
    <2> DEFINE i == it.at + k
    <2>1. i \in 1..Len(g) /\ ~(i \in p + 1..p + Len(bytes)) /\ i <= Len(f)
        BY <1>1, <1>3
    <2> HIDE DEF i
    <2>2. g[i] = f[i]
        BY <1>2, <2>1
    <2> QED
        BY <2>2 DEF i
<1>5. PICK v \in B!ValuesOf(it.type) :
           /\ it.value = B!Boxed(it.type, v) /\ it.length = Len(BytesOf(it, it.type, v))
           /\ \A k \in 1..it.length : f[it.at + k] = BytesOf(it, it.type, v)[k]
    BY DEF Stored
<1>6. \A k \in 1..it.length : g[it.at + k] = BytesOf(it, it.type, v)[k]
    BY <1>4, <1>5
<1>7. it.at + it.length <= Len(g)
    BY <1>1, <1>3
<1>8. Stored(it, g)
    BY <1>1, <1>5, <1>6, <1>7 DEF Stored
<1> QED
    BY <1>8 DEF g

LEMMA NothingDue ==
    ASSUME got' = B!Nothing
    PROVE  B!RoundTrip'
<1>1. got'.due = {}
    BY DEF B!Nothing
<1> QED
    BY <1>1 DEF B!RoundTrip

\* The step wrote bytes at p, and the items it touched are gone.
LEMMA ItemsStay ==
    ASSUME ItemsInv, BytesInv', NEW p \in Nat, NEW bytes \in Seq(B!Byte), flat' = B!Overwrite(p, bytes)
    PROVE  \A it \in B!Intact(p, Len(bytes)) : Stored(it, flat')
<1>1. flat' = Over(flat, p, bytes) /\ flat \in Seq(Cell)
    BY OverwriteIs, NumbersOf DEF ItemsInv
<1>2. ASSUME NEW it \in B!Intact(p, Len(bytes)) PROVE Stored(it, flat')
    <2>1. it \in items /\ (it.at + it.length <= p \/ p + Len(bytes) <= it.at)
        BY DEF B!Intact
    <2>2. Stored(it, flat)
        BY <2>1 DEF ItemsInv
    <2> QED
        BY <1>1, <2>1, <2>2, StoredStays
<1> QED
    BY <1>2

LEMMA OverHas ==
    ASSUME NEW f \in Seq(Cell), NEW p \in Nat, NEW bytes \in Seq(B!Byte)
    PROVE  /\ Len(Over(f, p, bytes)) \in Nat /\ Len(Over(f, p, bytes)) >= p + Len(bytes)
           /\ \A k \in 1..Len(bytes) : Over(f, p, bytes)[p + k] = bytes[k]
<1> DEFINE g == Over(f, p, bytes)
<1>1. Len(f) \in Nat /\ Len(bytes) \in Nat
    OBVIOUS
<1>2. /\ g \in Seq(Cell) /\ Len(g) = B!Larger(Len(f), p + Len(bytes))
      /\ \A i \in 1..B!Larger(Len(f), p + Len(bytes)) : g[i] =
             IF i \in p + 1..p + Len(bytes) THEN bytes[i - p]
             ELSE IF i <= Len(f) THEN f[i] ELSE B!Unset
    BY OverIs
<1> HIDE DEF g
<1>3. Len(g) \in Nat /\ Len(g) >= p + Len(bytes)
    <2>1. p + Len(bytes) \in Nat
        BY <1>1
    <2> QED
        BY <1>1, <1>2, <2>1, LargerIs
<1>4. ASSUME NEW k \in 1..Len(bytes) PROVE g[p + k] = bytes[k]
    <2> DEFINE i == p + k
    <2>1. i \in 1..Len(g) /\ i \in p + 1..p + Len(bytes) /\ i - p = k
        BY <1>1, <1>3
    <2> HIDE DEF i
    <2>2. g[i] = bytes[k]
        BY <1>2, <2>1
    <2> QED
        BY <2>2 DEF i
<1> QED
    BY <1>3, <1>4 DEF g

LEMMA WrittenItem ==
    ASSUME ItemsInv, NEW type \in B!Type \ {"Raw"}, NEW v \in B!ValuesOf(type),
           NEW bytes, bytes = BytesOf(ba, type, v), flat' = B!Overwrite(ba.position, bytes),
           NEW it, it = [at |-> ba.position, type |-> type, value |-> B!Boxed(type, v), length |-> Len(bytes),
                         little |-> ba.little]
    PROVE  Stored(it, flat')
<1> DEFINE p == ba.position
           g == Over(flat, p, bytes)
<1>1. it.at = p /\ it.type = type /\ it.value = B!Boxed(type, v) /\ it.length = Len(bytes)
      /\ it.little = ba.little
    OBVIOUS
<1>2. bytes \in Seq(B!Byte) /\ bytes = BytesOf(it, type, v)
    BY <1>1, BytesOfIs, BytesOfOrder
<1>3. flat' = g /\ flat \in Seq(Cell) /\ p \in Nat /\ Len(bytes) \in Nat /\ Len(flat) \in Nat
    BY <1>2, OverwriteIs, NumbersOf DEF ItemsInv
<1> HIDE DEF p
<1>4. Len(g) \in Nat /\ Len(g) >= p + Len(bytes) /\ \A k \in 1..Len(bytes) : g[p + k] = bytes[k]
    BY <1>2, <1>3, OverHas
<1> HIDE DEF g
<1>5. Stored(it, g)
    <2>1. \A k \in 1..it.length : g[it.at + k] = BytesOf(it, type, v)[k]
        BY <1>1, <1>2, <1>4 DEF p
    <2>2. it.at \in Nat /\ it.length \in Nat /\ it.at + it.length <= Len(g)
        BY <1>1, <1>3, <1>4 DEF p
    <2>3. it.length = Len(BytesOf(it, type, v)) /\ it.type = type /\ it.value = B!Boxed(type, v)
        BY <1>1, <1>2
    <2>4. \E w \in B!ValuesOf(it.type) :
              /\ it.value = B!Boxed(it.type, w) /\ it.length = Len(BytesOf(it, it.type, w))
              /\ \A k \in 1..it.length : g[it.at + k] = BytesOf(it, it.type, w)[k]
        BY <2>1, <2>3
    <2> QED
        BY <2>2, <2>3, <2>4 DEF Stored
<1> QED
    BY <1>3, <1>5

LEMMA WriteValueKeeps ==
    ASSUME ItemsInv, NEW type \in B!Type, NEW v \in B!ValuesOf(type), B!WriteValue(type, v)
    PROVE  ItemsInv'
<1> DEFINE bytes == BytesOf(ba, type, v)
           it == [at |-> ba.position, type |-> type, value |-> B!Boxed(type, v), length |-> Len(bytes),
                  little |-> ba.little]
<1>1. BytesInv'
    BY WriteValueStep DEF ItemsInv
<1>2. /\ flat' = B!Overwrite(ba.position, bytes) /\ got' = B!Nothing
      /\ items' = B!Intact(ba.position, Len(bytes)) \cup IF type = "Raw" THEN {} ELSE {it}
    BY DEF B!WriteValue, BytesOf
<1>3. ba.position \in Nat /\ bytes \in Seq(B!Byte)
    BY BytesOfIs, NumbersOf DEF ItemsInv
<1>4. \A x \in B!Intact(ba.position, Len(bytes)) : Stored(x, flat')
    <2> HIDE DEF bytes
    <2> QED
        BY <1>1, <1>2, <1>3, ItemsStay
<1>5. type # "Raw" => Stored(it, flat')
    <2> SUFFICES ASSUME type # "Raw" PROVE Stored(it, flat')
        OBVIOUS
    <2>1. bytes = BytesOf(ba, type, v) /\ type \in B!Type \ {"Raw"}
        OBVIOUS
    <2>2. it = [at |-> ba.position, type |-> type, value |-> B!Boxed(type, v), length |-> Len(bytes),
                little |-> ba.little]
        OBVIOUS
    <2> HIDE DEF bytes, it
    <2> QED
        BY <1>2, <2>1, <2>2, WrittenItem
<1> HIDE DEF bytes, it
<1>6. \A x \in items' : Stored(x, flat')
    BY <1>2, <1>4, <1>5
<1> QED
    BY <1>1, <1>2, <1>6, NothingDue DEF ItemsInv

LEMMA ReadValueKeeps ==
    ASSUME ItemsInv, NEW type \in B!Type \ {"Raw"}, B!ReadValue(type)
    PROVE  ItemsInv'
<1> DEFINE r == B!Decoded(ba, type)
           here == {it \in items : it.at = ba.position /\ it.type = type /\ it.little = ba.little}
           chosen == CHOOSE it \in here : TRUE
<1>1. BytesInv'
    BY ReadValueStep DEF ItemsInv
<1>2. /\ ba' = r.b /\ flat' = flat /\ items' = items
      /\ got' = [out |-> r.out, value |-> B!Boxed(type, r.value), due |-> {it.value : it \in here},
                 end |-> IF here = {} THEN 0 ELSE ba.position + chosen.length, type |-> type]
      /\ \A i \in ba.position + 1..Len(flat) : flat[i] # B!Unset
    BY DEF B!ReadValue
<1>3. Stores(ba, flat) /\ Known(ba, flat) /\ Len(flat) = ba.size /\ ba.position \in Nat
    BY <1>2, NumbersOf DEF ItemsInv, Known
<1>4. ASSUME NEW it \in here
      PROVE  \E v : it.value = B!Boxed(type, v) /\ Found(r, ba, flat, type, v, it.length)
    <2>1. it \in items /\ it.at = ba.position /\ it.type = type /\ it.little = ba.little /\ Stored(it, flat)
        BY DEF ItemsInv
    <2>2. PICK v \in B!ValuesOf(type) :
              /\ it.value = B!Boxed(type, v) /\ it.length = Len(BytesOf(it, type, v))
              /\ \A k \in 1..it.length : flat[ba.position + k] = BytesOf(it, type, v)[k]
        BY <2>1 DEF Stored
    <2> DEFINE c == BytesOf(ba, type, v)
    <2>3. BytesOf(it, type, v) = c
        BY <2>1, BytesOfOrder
    <2>4. c \in Seq(B!Byte)
        BY BytesOfIs
    <2>5. ba.position + Len(c) <= ba.size
        BY <1>3, <2>1, <2>2, <2>3 DEF Stored
    <2>6. Ahead(ba, flat, c)
        BY <2>2, <2>3, <2>4, <2>5 DEF Ahead
    <2>7. Found(r, ba, flat, type, v, Len(c))
        BY <1>3, <2>6, DecodedBack
    <2> QED
        BY <2>2, <2>3, <2>7
<1> HIDE DEF r, here
<1>5. ba'.capacity = ba.capacity \/ here = {}
    BY <1>2, <1>4 DEF Found, Kept
<1>6. B!RoundTrip'
    <2> SUFFICES ASSUME got'.due # {}
                 PROVE  \/ got'.out = "ok" /\ got'.due = {got'.value} /\ ba'.position = got'.end
                        \/ got'.out = "null" /\ got'.due = {<<>>} /\ ba'.position = ba'.capacity /\ got'.end = ba'.capacity
        BY DEF B!RoundTrip
    <2>1. here # {} /\ got'.out = r.out /\ got'.value = B!Boxed(type, r.value) /\ got'.due = {it.value : it \in here}
        BY <1>2
    <2>2. chosen \in here /\ got'.end = ba.position + chosen.length
        BY <1>2, <2>1
    <2> HIDE DEF chosen
    <2>3. CASE r.out = "ok"
        <3>1. \A it \in here : it.value = B!Boxed(type, r.value) /\ ba'.position = ba.position + it.length
            BY <1>2, <1>4, <2>3 DEF Found
        <3>2. {it.value : it \in here} = {B!Boxed(type, r.value)}
            BY <2>1, <3>1
        <3> QED
            BY <2>1, <2>2, <2>3, <3>1, <3>2
    <2>4. CASE r.out # "ok"
        <3>1. \A it \in here : it.value = <<>> /\ r.out = "null" /\ ba'.position = ba.capacity
                               /\ ba.position + it.length = ba.capacity
            BY <1>2, <1>4, <2>4 DEF Found
        <3>2. {it.value : it \in here} = {<<>>} /\ r.out = "null"
            BY <2>1, <3>1
        <3> QED
            BY <1>5, <2>1, <2>2, <3>1, <3>2
    <2> QED
        BY <2>3, <2>4
<1>7. \A it \in items' : Stored(it, flat')
    BY <1>2 DEF ItemsInv
<1> QED
    BY <1>1, <1>6, <1>7 DEF ItemsInv

LEMMA SetPositionKeeps ==
    ASSUME ItemsInv, NEW v \in 0..MaxSize, B!SetPosition(v)
    PROVE  ItemsInv'
<1>1. BytesInv'
    BY SetPositionStep DEF ItemsInv
<1>2. flat' = B!Overwrite(v, <<>>) /\ items' = items /\ got' = B!Nothing /\ v \in Nat
    BY BoundsAssumption DEF B!SetPosition
<1> DEFINE none == <<>>
<1>3. none \in Seq(B!Byte) /\ Len(none) = 0
    OBVIOUS
<1>4. flat' = Over(flat, v, none) /\ flat \in Seq(Cell)
    BY <1>2, OverwriteIs, NumbersOf DEF ItemsInv
<1> HIDE DEF none
<1>5. ASSUME NEW it \in items' PROVE Stored(it, flat')
    <2>1. Stored(it, flat)
        BY <1>2 DEF ItemsInv
    <2> QED
        BY <1>2, <1>3, <1>4, <2>1, StoredStays
<1> QED
    BY <1>1, <1>2, <1>5, NothingDue DEF ItemsInv

LEMMA OtherStepsKeep ==
    ASSUME ItemsInv, BytesInv', flat' = flat, items' = items, got' = B!Nothing
    PROVE  ItemsInv'
BY NothingDue DEF ItemsInv

LEMMA ReadFromFileKeeps ==
    ASSUME ItemsInv, NEW bytes \in Strings, B!ReadFromFile(bytes)
    PROVE  ItemsInv'
<1>1. BytesInv'
    BY ReadFromFileStep DEF ItemsInv
<1>2. flat' = B!Overwrite(ba.position, bytes) /\ items' = B!Intact(ba.position, Len(bytes)) /\ got' = B!Nothing
    BY DEF B!ReadFromFile
<1>3. bytes \in Seq(B!Byte) /\ ba.position \in Nat
    BY ValuesAre, NumbersOf DEF ItemsInv
<1>4. \A it \in items' : Stored(it, flat')
    BY <1>1, <1>2, <1>3, ItemsStay
<1> QED
    BY <1>1, <1>2, <1>4, NothingDue DEF ItemsInv

LEMMA ReceiveKeeps ==
    ASSUME ItemsInv, NEW bytes \in Strings, NEW len \in 1..MaxSize, B!Receive(len, bytes)
    PROVE  ItemsInv'
<1>1. BytesInv'
    BY ReceiveStep DEF ItemsInv
<1>2. flat' = B!Overwrite(ba.position, bytes) /\ items' = B!Intact(ba.position, Len(bytes)) /\ got' = B!Nothing
    BY DEF B!Receive
<1>3. bytes \in Seq(B!Byte) /\ ba.position \in Nat
    BY ValuesAre, NumbersOf DEF ItemsInv
<1>4. \A it \in items' : Stored(it, flat')
    BY <1>1, <1>2, <1>3, ItemsStay
<1> QED
    BY <1>1, <1>2, <1>4, NothingDue DEF ItemsInv

LEMMA ItemsInvariant == Spec => []IInv
<1> DEFINE all == <<structure, bytesVars, listVars>>
<1>1. Init => IInv
    <2> SUFFICES ASSUME Init, structure = "bytes" PROVE ItemsInv
        BY DEF IInv
    <2>1. BytesInv
        BY BytesInit DEF BInv
    <2>2. items = {} /\ got.due = {}
        BY DEF Init, B!Init, B!Nothing
    <2> QED
        BY <2>1, <2>2 DEF ItemsInv, B!RoundTrip
<1>2. ASSUME IInv, [Next]_all
      PROVE  IInv'
    <2> SUFFICES ASSUME structure' = "bytes" PROVE ItemsInv'
        BY DEF IInv
    <2>1. CASE UNCHANGED all
        BY <1>2, <2>1 DEF IInv, ItemsInv, BytesInv, bytesVars, B!RoundTrip
    <2>2. CASE Next
        <3>1. structure' = structure /\ B!Next /\ ItemsInv /\ BytesInv
            BY <1>2, <2>2 DEF Next, IInv, ItemsInv
        <3>2. CASE \E type \in B!Type : \E v \in B!ValuesOf(type) : B!WriteValue(type, v)
            BY <3>1, <3>2, WriteValueKeeps
        <3>3. CASE \E type \in B!Type \ {"Raw"} : B!ReadValue(type)
            BY <3>1, <3>3, ReadValueKeeps
        <3>4. CASE \E v \in 0..MaxSize : B!SetPosition(v)
            BY <3>1, <3>4, SetPositionKeeps
        <3>5. CASE B!Clear
            <4>1. BytesInv' /\ items' = {} /\ got' = B!Nothing
                BY <3>1, <3>5, ClearStep DEF B!Clear
            <4> QED
                BY <4>1, NothingDue DEF ItemsInv
        <3>6. CASE B!SetIsLittleEndian
            <4>1. BytesInv' /\ items' = items /\ flat' = flat /\ got' = B!Nothing
                BY <3>1, <3>6, LittleEndianStep DEF B!SetIsLittleEndian
            <4> QED
                BY <3>1, <4>1, OtherStepsKeep
        <3>7. CASE \E s \in Strings : B!ReadFromFile(s)
            BY <3>1, <3>7, ReadFromFileKeeps
        <3>8. CASE \E s \in Strings, len \in 1..MaxSize : B!Receive(len, s)
            BY <3>1, <3>8, ReceiveKeeps
        <3>9. CASE \E n \in 1..MaxSize : B!Send(n)
            <4>1. PICK n \in 1..MaxSize : B!Send(n)
                BY <3>9
            <4>2. BytesInv' /\ items' = items /\ flat' = flat /\ got' = B!Nothing
                BY <3>1, <4>1, SendStep DEF B!Send
            <4> QED
                BY <3>1, <4>2, OtherStepsKeep
        <3> QED
            BY <3>1, <3>2, <3>3, <3>4, <3>5, <3>6, <3>7, <3>8, <3>9 DEF B!Next
    <2> QED
        BY <1>2, <2>1, <2>2
<1> QED
    BY <1>1, <1>2, PTL DEF Spec

\* The write functions and the read functions of every type are inverse to each
\* other, for every width of the values and every block size: what was written
\* and not overwritten is read back, with the position behind it.
THEOREM ByteArrayRoundTrip == Spec => []RoundTrip
<1>1. IInv => RoundTrip
    BY DEF IInv, ItemsInv, RoundTrip
<1> QED
    BY <1>1, ItemsInvariant, PTL

-----------------------------------------------------------------------------
(* Buffers *)

\* The n sequences are x, cut at the places e.
Strips(seqs, n, e, x) ==
    /\ n \in Nat /\ n >= 1 /\ Len(seqs) = n /\ e[0] = 0 /\ \A i \in 0..n : e[i] \in Nat
    /\ \A i \in 1..n : /\ seqs[i] \in Seq(Cell) /\ e[i] = e[i - 1] + Len(seqs[i])
                       /\ \A k \in 1..Len(seqs[i]) : seqs[i][k] = x[e[i - 1] + k]

LEMMA Joined ==
    ASSUME NEW seqs, NEW n, NEW e, NEW x, Strips(seqs, n, e, x)
    PROVE  /\ B!FlattenSeq(seqs) \in Seq(Cell) /\ Len(B!FlattenSeq(seqs)) = e[n]
           /\ \A k \in 1..e[n] : B!FlattenSeq(seqs)[k] = x[k]
<1>1. n \in Nat /\ n >= 1 /\ Len(seqs) = n /\ e[0] = 0 /\ \A i \in 0..n : e[i] \in Nat
    BY DEF Strips
<1>2. PICK F : /\ B!FlattenSeq(seqs) = F[n] /\ F[1] = seqs[1]
               /\ \A i \in 2..n : F[i] = F[i - 1] \o seqs[i]
    BY <1>1, Flattened
<1> DEFINE Good(i) == F[i] \in Seq(Cell) /\ Len(F[i]) = e[i] /\ \A k \in 1..e[i] : F[i][k] = x[k]
           Bad == {i \in 1..n : ~Good(i)}
<1>3. Good(1)
    <2>1. 1 \in 1..n /\ 1 - 1 = 0
        BY <1>1
    <2>2. seqs[1] \in Seq(Cell) /\ e[1] = e[1 - 1] + Len(seqs[1])
          /\ \A k \in 1..Len(seqs[1]) : seqs[1][k] = x[e[1 - 1] + k]
        BY <2>1 DEF Strips
    <2>3. Len(seqs[1]) \in Nat
        BY <2>2
    <2>4. e[1] = Len(seqs[1]) /\ \A k \in 1..Len(seqs[1]) : seqs[1][k] = x[k]
        BY <1>1, <2>1, <2>2, <2>3
    <2> QED
        BY <1>2, <2>2, <2>4
<1>4. ASSUME NEW i \in 2..n, Good(i - 1) PROVE Good(i)
    <2> DEFINE j == i - 1
               s == F[j]
               t == seqs[i]
    <2>1. i \in 1..n /\ j \in 0..n /\ i \in 0..n
        BY <1>1
    <2>2. t \in Seq(Cell) /\ e[i] = e[j] + Len(t) /\ \A k \in 1..Len(t) : t[k] = x[e[j] + k]
        BY <2>1 DEF Strips
    <2>3. s \in Seq(Cell) /\ Len(s) = e[j] /\ \A k \in 1..e[j] : s[k] = x[k]
        BY <1>4
    <2>4. F[i] = s \o t
        BY <1>2
    <2> HIDE DEF s, t, j
    <2>5. /\ s \o t \in Seq(Cell) /\ Len(s \o t) = Len(s) + Len(t)
          /\ \A c \in 1..Len(s) : (s \o t)[c] = s[c]
          /\ \A c \in 1..Len(t) : (s \o t)[Len(s) + c] = t[c]
        <3>1. s \in Seq(Cell) /\ t \in Seq(Cell)
            BY <2>2, <2>3
        <3> QED
            BY <3>1, Appended
    <2>6. Len(s) \in Nat /\ Len(t) \in Nat /\ e[i] = Len(s) + Len(t)
        BY <2>2, <2>3
    <2> DEFINE u == s \o t
    <2>7. /\ \A c \in 1..Len(s) : u[c] = s[c]
          /\ \A c \in 1..Len(t) : u[Len(s) + c] = t[c]
        BY <2>5
    <2> HIDE DEF u
    <2>8. ASSUME NEW k \in 1..e[i] PROVE u[k] = x[k]
        <3>1. CASE k <= Len(s)
            BY <2>3, <2>6, <2>7, <3>1
        <3>2. CASE k > Len(s)
            <4> DEFINE c == k - Len(s)
            <4>1. c \in 1..Len(t) /\ Len(s) + c = k
                BY <2>6, <3>2
            <4> HIDE DEF c
            <4>2. u[Len(s) + c] = t[c] /\ t[c] = x[Len(s) + c]
                BY <2>2, <2>3, <2>7, <4>1
            <4> QED
                BY <4>1, <4>2
        <3> QED
            BY <2>6, <3>1, <3>2
    <2> QED
        BY <2>4, <2>5, <2>6, <2>8 DEF u
<1>5. Bad = {}
    <2> SUFFICES ASSUME Bad # {} PROVE FALSE
        OBVIOUS
    <2>1. PICK i \in Bad : \A y \in Bad : i <= y
        <3>1. Bad \in SUBSET Nat
            OBVIOUS
        <3> HIDE DEF Bad
        <3> QED
            BY <3>1, LeastExists
    <2>2. i \in 1..n /\ ~Good(i)
        OBVIOUS
    <2> HIDE DEF Good
    <2>3. i \in 2..n /\ i - 1 \in 1..n /\ ~(i <= i - 1)
        BY <1>1, <1>3, <2>2
    <2>4. i - 1 \notin Bad
        <3> HIDE DEF Bad
        <3> QED
            BY <2>1, <2>3
    <2>5. Good(i - 1)
        BY <2>3, <2>4
    <2> QED
        BY <1>4, <2>2, <2>3, <2>5
<1>6. Good(n)
    <2>1. n \in 1..n
        BY <1>1
    <2> HIDE DEF Good
    <2> QED
        BY <1>5, <2>1
<1> QED
    BY <1>2, <1>6

\* The n bytes from position p on.
From(b, p, n) == [k \in 1..n |-> At(b, p + k - 1)]

LEMMA FromIs ==
    ASSUME NEW b, NEW p, NEW n \in Nat, NEW s \in Seq(Cell), Len(s) = n,
           \A k \in 1..n : s[k] = From(b, p, n)[k]
    PROVE  s = From(b, p, n)
<1>1. s = [k \in 1..n |-> s[k]]
    OBVIOUS
<1> DEFINE x == From(b, p, n)
<1>2. x = [k \in 1..n |-> x[k]]
    BY DEF From
<1> HIDE DEF x
<1>3. s = x
    BY <1>1, <1>2 DEF x
<1> QED
    BY <1>3 DEF x

\* Where the i-th piece of n bytes ends that begin at offset npos of a block.
Cut(base, npos, n, last, i) == IF i = 0 THEN 0 ELSE IF i = last + 1 THEN n ELSE base * i - npos

CutAt(base, npos, n, last, i, lo, hi) ==
    /\ lo \in Nat /\ hi \in Nat /\ hi <= base /\ hi - lo \in Nat
    /\ Cut(base, npos, n, last, i) \in Nat /\ Cut(base, npos, n, last, i - 1) \in Nat
    /\ Cut(base, npos, n, last, i) = Cut(base, npos, n, last, i - 1) + (hi - lo)
    /\ npos + Cut(base, npos, n, last, i - 1) = base * (i - 1) + lo
    /\ Cut(base, npos, n, last, i) <= n

LEMMA CutIs ==
    ASSUME NEW base \in Nat \ {0}, NEW npos \in 0..base - 1, NEW n \in Nat, n >= 1,
           NEW last \in Nat, NEW r \in Nat, r < base, npos + n - 1 = base * last + r, NEW i \in 1..last + 1,
           NEW lo, lo = IF i = 1 THEN npos ELSE 0,
           NEW hi, hi = IF i = last + 1 THEN r + 1 ELSE base
    PROVE  CutAt(base, npos, n, last, i, lo, hi)
<1> DEFINE j == i - 1
           x == base * j
           y == base * i
           z == base * last
<1>1. j \in Nat /\ i = j + 1 /\ j <= last /\ i \in Nat
    OBVIOUS
<1>2. x \in Nat /\ y = x + base /\ z \in Nat /\ npos + n - 1 = z + r
    BY <1>1
<1>3. i = 1 => x = 0
    BY <1>1
<1>4. i # 1 => x >= base
    BY <1>1
<1>5. i = last + 1 => x = z
    BY <1>1
<1>6. i # last + 1 => y <= z
    BY <1>1
<1> HIDE DEF x, y, z
<1>7. lo \in Nat /\ hi \in Nat /\ hi <= base /\ lo <= npos
    OBVIOUS
<1> DEFINE d == Cut(base, npos, n, last, i)
           c == Cut(base, npos, n, last, j)
<1>8. c = IF i = 1 THEN 0 ELSE x - npos
    BY <1>1, <1>2 DEF Cut, x
<1>9. d = IF i = last + 1 THEN n ELSE y - npos
    BY <1>1, <1>2 DEF Cut, y
<1> HIDE DEF c, d
<1>10. c \in Nat /\ npos + c = x + lo
    BY <1>2, <1>3, <1>4, <1>8
<1>11. d \in Nat /\ hi - lo \in Nat /\ d = c + (hi - lo)
    <2>1. CASE i = last + 1 /\ i = 1
        BY <1>2, <1>3, <1>5, <1>8, <1>9, <2>1
    <2>2. CASE i = last + 1 /\ i # 1
        BY <1>2, <1>4, <1>5, <1>8, <1>9, <2>2
    <2>3. CASE i # last + 1 /\ i = 1
        BY <1>2, <1>3, <1>6, <1>8, <1>9, <2>3
    <2>4. CASE i # last + 1 /\ i # 1
        BY <1>2, <1>4, <1>6, <1>8, <1>9, <2>4
    <2> QED
        BY <2>1, <2>2, <2>3, <2>4
<1>12. d <= n
    BY <1>2, <1>6, <1>9
<1> QED
    BY <1>7, <1>10, <1>11, <1>12 DEF x, c, d, j, CutAt

\* The k-th byte from position p, offset s of a block, is byte o of the i-th.
KthByte(base, q, s, p, i, o, k) == p = base * q + s /\ s + k = base * (i - 1) + o

FoundAt(base, q, p, i, o, k) == q + i - 1 = (p + k - 1) \div base /\ o - 1 = (p + k - 1) % base

LEMMA CellNumber ==
    ASSUME NEW base \in Nat \ {0}, NEW q \in Nat, NEW s \in Nat, NEW p, NEW i \in Nat, i >= 1, NEW o \in 1..base,
           NEW k \in Int, KthByte(base, q, s, p, i, o, k)
    PROVE  FoundAt(base, q, p, i, o, k)
<1> DEFINE x == p + k - 1
           y == q + i - 1
           t == o - 1
<1>1. base * y = base * q + base * (i - 1) /\ base * q \in Nat /\ base * (i - 1) \in Nat
    OBVIOUS
<1>2. x \in Int /\ y \in Int /\ t \in 0..(base - 1) /\ x = base * y + t
    BY <1>1 DEF KthByte
<1> HIDE DEF x, y, t
<1>3. y = x \div base /\ t = x % base
    BY <1>2, DividedOnce
<1> QED
    BY <1>3 DEF x, y, t, FoundAt

\* Byte o of the block i - 1 blocks behind the block of position p.
LEMMA CellOf ==
    ASSUME NEW b, Blocks(b), NEW p \in Nat, NEW i \in Nat, i >= 1, NEW o \in 1..b.base, NEW k \in Int,
           (p % b.base) + k = b.base * (i - 1) + o
    PROVE  b.mem[p \div b.base + 1 + i - 1][o] = At(b, p + k - 1)
<1> DEFINE base == b.base
           q == p \div base
           s == p % base
           x == p + k - 1
<1>1. base \in Nat \ {0}
    BY DEF Blocks
<1>2. q \in Nat /\ s \in Nat /\ p = base * q + s
    BY <1>1, Divided
<1>3. KthByte(base, q, s, p, i, o, k) /\ o \in 1..base
    BY <1>2 DEF KthByte
<1> HIDE DEF base, q, s
<1>4. FoundAt(base, q, p, i, o, k)
    <2>1. q \in Nat /\ s \in Nat
        BY <1>2
    <2> QED
        BY <1>1, <1>3, <2>1, CellNumber
<1>5. q + 1 + i - 1 = (q + i - 1) + 1 /\ (o - 1) + 1 = o
    BY <1>1, <1>2, <1>3
<1>6. At(b, x) = b.mem[(q + i - 1) + 1][(o - 1) + 1]
    BY <1>4 DEF At, FoundAt, base
<1> QED
    BY <1>5, <1>6 DEF x, q, base

\* The pieces from position p on, which lies in block c, hold the next n bytes.
LEMMA PiecesIs ==
    ASSUME NEW b, Blocks(b), Arranged(b), NEW p \in Nat, NEW c, c = p \div b.base + 1, NEW n \in Nat, n >= 1,
           p + n <= b.capacity
    PROVE  B!InPieces(b, B!Pieces(b, c, p % b.base, n)) = From(b, p, n)
<1> DEFINE base == b.base
           npos == p % base
           last == (npos + n - 1) \div base
           r == (npos + n - 1) % base
           lo(i) == IF i = 1 THEN npos ELSE 0
           hi(i) == IF i = last + 1 THEN r + 1 ELSE base
           e == [i \in 0..last + 1 |-> Cut(base, npos, n, last, i)]
           piece(i) == [k \in 1..hi(i) - lo(i) |-> IF lo(i) + k \in 1..base THEN b.mem[c + i - 1][lo(i) + k] ELSE B!Unset - 1]
           seqs == [i \in 1..last + 1 |-> piece(i)]
           x == From(b, p, n)
<1>1. base \in Nat \ {0} /\ b.capacity \in Nat
    BY DEF Blocks
<1>2. npos \in Nat /\ npos < base
    BY <1>1, Divided
<1>3. last \in Nat /\ r \in Nat /\ r < base /\ npos + n - 1 = base * last + r
    <2> DEFINE m == npos + n - 1
    <2>1. m \in Nat
        BY <1>2
    <2> HIDE DEF m
    <2>2. m \div base \in Nat /\ m % base \in Nat /\ m % base < base /\ m = base * (m \div base) + (m % base)
        BY <1>1, <2>1, Divided
    <2> QED
        BY <2>2 DEF m
<1>4. B!InPieces(b, B!Pieces(b, c, npos, n)) = B!FlattenSeq(seqs)
    <2> DEFINE pieces == B!Pieces(b, c, npos, n)
    <2>1. pieces = [i \in 1..last + 1 |-> <<c + i - 1, lo(i), hi(i) - lo(i)>>]
        BY DEF B!Pieces
    <2>2. Len(pieces) = last + 1
        <3> HIDE DEF last, lo, hi
        <3> QED
            BY <1>3, <2>1
    <2>3. ASSUME NEW i \in 1..last + 1
          PROVE  pieces[i][1] = c + i - 1 /\ pieces[i][2] = lo(i) /\ pieces[i][3] = hi(i) - lo(i)
        <3> HIDE DEF last, lo, hi, pieces
        <3> QED
            BY <2>1
    <2> HIDE DEF pieces, last, lo, hi, npos
    <2>4. [i \in 1..Len(pieces) |-> [k \in 1..pieces[i][3] |->
              IF pieces[i][2] + k \in 1..b.base THEN b.mem[pieces[i][1]][pieces[i][2] + k] ELSE B!Unset - 1]] = seqs
        BY <2>2, <2>3
    <2>5. B!InPieces(b, pieces) = B!FlattenSeq(seqs)
        <3> HIDE DEF seqs
        <3> QED
            BY <2>4 DEF B!InPieces
    <2> QED
        BY <2>5 DEF pieces
<1> HIDE DEF last, r
<1>5. ASSUME NEW i \in 1..last + 1
      PROVE  /\ lo(i) \in Nat /\ hi(i) \in Nat /\ hi(i) <= base /\ hi(i) - lo(i) \in Nat
             /\ e[i] \in Nat /\ e[i - 1] \in Nat /\ e[i] = e[i - 1] + (hi(i) - lo(i))
             /\ npos + e[i - 1] = base * (i - 1) + lo(i) /\ e[i] <= n
    <2>1. i \in 0..last + 1 /\ i - 1 \in 0..last + 1
        BY <1>3
    <2>2. e[i] = Cut(base, npos, n, last, i) /\ e[i - 1] = Cut(base, npos, n, last, i - 1)
        BY <2>1
    <2>3. npos \in 0..base - 1
        BY <1>1, <1>2
    <2> DEFINE l == lo(i)
               h == hi(i)
    <2>4. l = (IF i = 1 THEN npos ELSE 0) /\ h = IF i = last + 1 THEN r + 1 ELSE base
        OBVIOUS
    <2> HIDE DEF e, l, h, npos, base
    <2>5. CutAt(base, npos, n, last, i, l, h)
        BY <1>1, <1>3, <2>3, <2>4, CutIs
    <2> QED
        BY <2>2, <2>5 DEF l, h, CutAt
<1>6. e[0] = 0 /\ e[last + 1] = n
    <2>1. 0 \in 0..last + 1 /\ last + 1 \in 0..last + 1 /\ last + 1 # 0
        BY <1>3
    <2> QED
        BY <2>1 DEF Cut
<1>7. \A i \in 0..last + 1 : e[i] \in Nat
    <2> TAKE i \in 0..last + 1
    <2>1. CASE i = 0
        BY <1>6, <2>1
    <2>2. CASE i # 0
        <3>1. i \in 1..last + 1
            BY <1>3, <2>2
        <3> QED
            BY <1>5, <3>1
    <2> QED
        BY <2>1, <2>2
<1> HIDE DEF e
<1>8. ASSUME NEW i \in 1..last + 1
      PROVE  /\ seqs[i] \in Seq(Cell) /\ Len(seqs[i]) = hi(i) - lo(i)
             /\ \A k \in 1..hi(i) - lo(i) : seqs[i][k] = x[e[i - 1] + k]
    <2> DEFINE l == lo(i)
               m == hi(i) - lo(i)
               a == e[i - 1]
    <2>1. l \in Nat /\ m \in Nat /\ l + m <= base /\ a \in Nat /\ a + m <= n /\ npos + a = base * (i - 1) + l
        BY <1>5
    <2>2. seqs[i] = piece(i)
        OBVIOUS
    <2>3. piece(i) = [k \in 1..m |-> IF l + k \in 1..base THEN b.mem[c + i - 1][l + k] ELSE B!Unset - 1]
        OBVIOUS
    <2> HIDE DEF l, m, a, piece, lo, hi, seqs
    <2>4. ASSUME NEW k \in 1..m
          PROVE  /\ (IF l + k \in 1..base THEN b.mem[c + i - 1][l + k] ELSE B!Unset - 1) = At(b, p + (a + k) - 1)
                 /\ At(b, p + (a + k) - 1) \in Cell /\ x[a + k] = At(b, p + (a + k) - 1)
        <3> DEFINE o == l + k
                   y == a + k
                   z == p + y - 1
        <3>1. o \in 1..base /\ y \in 1..n /\ y \in Int /\ i \in Nat /\ i >= 1 /\ npos + y = base * (i - 1) + o
            <4> DEFINE w == base * (i - 1)
            <4>1. i \in Nat /\ i >= 1 /\ w \in Nat
                BY <1>1, <1>3
            <4>2. npos + a = w + l
                BY <2>1
            <4> HIDE DEF w, npos
            <4>3. npos + y = w + o
                BY <1>2, <2>1, <4>1, <4>2 DEF npos
            <4> QED
                BY <1>1, <2>1, <4>1, <4>3 DEF w
        <3>2. z \in Nat /\ z < b.capacity
            BY <1>1, <3>1
        <3> HIDE DEF o, y
        <3>3. b.mem[p \div b.base + 1 + i - 1][o] = At(b, p + y - 1)
            BY <3>1, CellOf
        <3>4. At(b, z) \in Cell
            <4> HIDE DEF z
            <4> QED
                BY <3>2, CellAt
        <3>5. x[y] = At(b, p + y - 1)
            BY <3>1 DEF From
        <3> QED
            BY <3>1, <3>3, <3>4, <3>5 DEF o, y
    <2>5. piece(i) = [k \in 1..m |-> At(b, p + (a + k) - 1)]
        BY <2>3, <2>4
    <2> DEFINE v(k) == At(b, p + (a + k) - 1)
    <2>6. \A k \in 1..m : v(k) \in Cell /\ x[a + k] = v(k)
        BY <2>4
    <2>7. piece(i) = [k \in 1..m |-> v(k)]
        BY <2>5
    <2> HIDE DEF v, x
    <2>8. piece(i) \in Seq(Cell) /\ Len(piece(i)) = m /\ \A k \in 1..m : piece(i)[k] = x[a + k]
        BY <2>1, <2>6, <2>7
    <2> QED
        BY <2>2, <2>8 DEF m, a
<1>9. Len(seqs) = last + 1
    <2> HIDE DEF piece
    <2> QED
        BY <1>3
<1> HIDE DEF seqs, x, piece
<1>10. Strips(seqs, last + 1, e, x)
    <2> DEFINE N == last + 1
    <2>1. N \in Nat /\ N >= 1
        BY <1>3
    <2>2. ASSUME NEW i \in 1..N
          PROVE  /\ seqs[i] \in Seq(Cell) /\ e[i] = e[i - 1] + Len(seqs[i])
                 /\ \A k \in 1..Len(seqs[i]) : seqs[i][k] = x[e[i - 1] + k]
        <3> HIDE DEF lo, hi
        <3> QED
            BY <1>5, <1>8
    <2>3. Strips(seqs, N, e, x)
        BY <1>6, <1>7, <1>9, <2>1, <2>2 DEF Strips
    <2> QED
        BY <2>3
<1> DEFINE s == B!FlattenSeq(seqs)
<1>11. s \in Seq(Cell) /\ Len(s) = n /\ \A k \in 1..n : s[k] = x[k]
    <2> DEFINE N == last + 1
    <2> HIDE DEF N
    <2>1. Strips(seqs, N, e, x)
        BY <1>10 DEF N
    <2>2. /\ B!FlattenSeq(seqs) \in Seq(Cell) /\ Len(B!FlattenSeq(seqs)) = e[N]
          /\ \A k \in 1..e[N] : B!FlattenSeq(seqs)[k] = x[k]
        BY <2>1, Joined
    <2>3. e[N] = n
        BY <1>6 DEF N
    <2> QED
        BY <2>2, <2>3
<1> HIDE DEF s
<1>12. s = From(b, p, n)
    BY <1>11, FromIs DEF x
<1> QED
    BY <1>4, <1>12 DEF s, npos, base

\* All blocks, one after the other.
LEMMA BlocksJoined ==
    ASSUME NEW b, Blocks(b), Arranged(b)
    PROVE  B!FlattenSeq(b.mem) = From(b, 0, b.capacity)
<1> DEFINE base == b.base
           n == Len(b.mem)
           e == [i \in 0..n |-> base * i]
           x == From(b, 0, b.capacity)
<1>1. base \in Nat \ {0} /\ n \in Nat /\ n >= 1 /\ b.mem \in Seq([1..base -> Cell]) /\ b.capacity = n * base
      /\ b.capacity \in Nat
    BY DEF Blocks, Arranged
<1>2. \A i \in 0..n : e[i] = base * i /\ e[i] \in Nat
    BY <1>1
<1>3. e[0] = 0 /\ e[n] = b.capacity
    <2>1. 0 \in 0..n /\ n \in 0..n /\ base * 0 = 0 /\ base * n = n * base
        BY <1>1
    <2> QED
        BY <1>1, <1>2, <2>1
<1> HIDE DEF e
<1>4. ASSUME NEW i \in 1..n
      PROVE  /\ b.mem[i] \in Seq(Cell) /\ e[i] = e[i - 1] + Len(b.mem[i])
             /\ \A k \in 1..Len(b.mem[i]) : b.mem[i][k] = x[e[i - 1] + k]
    <2>1. b.mem[i] \in [1..base -> Cell]
        BY <1>1
    <2>2. b.mem[i] \in Seq(Cell) /\ Len(b.mem[i]) = base
        BY <1>1, <2>1
    <2> DEFINE w == base * (i - 1)
    <2>3. i \in 0..n /\ i - 1 \in 0..n /\ i \in Nat /\ i >= 1
        BY <1>1
    <2>4. e[i - 1] = w /\ w \in Nat /\ e[i] = w + base /\ w + base <= b.capacity
        <3>1. w \in Nat /\ base * i = w + base /\ base * i <= n * base
            <4> HIDE DEF n
            <4>1. w \in Nat /\ base * i = w + base
                BY <1>1, <2>3
            <4>2. base \in Nat /\ n \in Nat /\ i \in Nat /\ i <= n
                BY <1>1, <2>3
            <4> HIDE DEF base
            <4>3. base * i <= base * n /\ base * n = n * base
                BY <4>2
            <4> QED
                BY <4>1, <4>3
        <3>2. e[i - 1] = w /\ e[i] = base * i
            BY <1>2, <2>3
        <3> QED
            BY <1>1, <3>1, <3>2
    <2>5. ASSUME NEW k \in 1..base PROVE b.mem[i][k] = x[w + k]
        <3> DEFINE y == w + (k - 1)
                   q == i - 1
                   t == k - 1
        <3>1. y \in Int /\ w + k \in 1..b.capacity /\ 0 + (w + k) - 1 = y
            <4>1. base \in Nat /\ b.capacity \in Nat /\ w \in Nat /\ w + base <= b.capacity /\ k \in 1..base
                BY <1>1, <2>4
            <4> HIDE DEF base, w
            <4> QED
                BY <4>1
        <3>2. q \in Int /\ t \in 0..(base - 1) /\ y = base * q + t /\ q + 1 = i /\ t + 1 = k
            <4>1. base \in Nat \ {0} /\ k \in 1..base /\ i \in Nat
                BY <1>1, <2>3
            <4>2. y = base * q + t
                OBVIOUS
            <4> HIDE DEF base, y
            <4> QED
                BY <4>1, <4>2
        <3> HIDE DEF y, q, t
        <3>3. q = y \div base /\ t = y % base
            BY <1>1, <3>1, <3>2, DividedOnce
        <3>4. x[w + k] = At(b, y)
            <4>1. x[w + k] = At(b, 0 + (w + k) - 1)
                BY <3>1 DEF From
            <4> QED
                BY <3>1, <4>1
        <3> QED
            BY <3>2, <3>3, <3>4 DEF At
    <2> QED
        BY <2>2, <2>4, <2>5
<1> HIDE DEF x
<1>5. Strips(b.mem, n, e, x)
    <2> HIDE DEF n
    <2>1. Len(b.mem) = n
        BY DEF n
    <2> QED
        BY <1>1, <1>2, <1>3, <1>4, <2>1 DEF Strips
<1> DEFINE s == B!FlattenSeq(b.mem)
<1>6. s \in Seq(Cell) /\ Len(s) = b.capacity /\ \A k \in 1..b.capacity : s[k] = x[k]
    BY <1>3, <1>5, Joined
<1> HIDE DEF s
<1> DEFINE c == b.capacity
           z == 0
<1>7. c \in Nat /\ Len(s) = c /\ \A k \in 1..c : s[k] = From(b, z, c)[k]
    BY <1>1, <1>6 DEF x
<1> HIDE DEF c, z
<1>8. s = From(b, z, c)
    BY <1>6, <1>7, FromIs
<1> QED
    BY <1>8 DEF s, c, z

\* The first i blocks' length of L bytes.
Upto(base, L, i) == IF base * i > L THEN L ELSE base * i

\* The loop of writeToFile, i blocks on, from position p with L bytes to write.
FileSoFar(s, b, p, L, i) ==
    LET u == Upto(b.base, L, i)
    IN  /\ s.left = L - u /\ s.pos = p + u
        /\ s.bytes \in Seq(Cell) /\ Len(s.bytes) = u /\ \A k \in 1..u : s.bytes[k] = At(b, p + k - 1)

FileStep(b, s, i) ==
    LET cur == b.cur + i - 1
        diff == s.pos % b.base
        len == (IF s.left > b.base THEN b.base ELSE s.left) - diff
    IN  IF s.left <= 0 THEN s
        ELSE IF len <= 0 \/ cur > Len(b.mem) \/ b.cur = B!NULL
        THEN [left |-> 0, pos |-> s.pos, bytes |-> s.bytes \o <<B!Unset - 1>>]
        ELSE [left |-> s.left - len, pos |-> s.pos + len,
              bytes |-> s.bytes \o SubSeq(b.mem[cur], diff + 1, diff + len)]

OneMore(base, L, i, u, w) ==
    /\ u \in 0..L /\ w \in 0..L
    /\ L - u <= 0 => w = u
    /\ L - u > 0 => u = base * (i - 1) /\ w = u + (IF L - u > base THEN base ELSE L - u)

LEMMA UptoIs ==
    ASSUME NEW base \in Nat \ {0}, NEW L \in Nat, NEW i \in Nat, i >= 1, NEW u, u = Upto(base, L, i - 1),
           NEW w, w = Upto(base, L, i)
    PROVE  OneMore(base, L, i, u, w)
<1> DEFINE x == base * (i - 1)
           y == base * i
<1>1. x \in Nat /\ y = x + base
    OBVIOUS
<1>2. u = (IF x > L THEN L ELSE x) /\ w = IF y > L THEN L ELSE y
    BY DEF Upto
<1> HIDE DEF x, y
<1>3. u \in 0..L /\ w \in 0..L
    BY <1>1, <1>2
<1>4. L - u <= 0 => w = u
    BY <1>1, <1>2
<1>5. L - u > 0 => u = x /\ w = u + (IF L - u > base THEN base ELSE L - u)
    BY <1>1, <1>2
<1> QED
    BY <1>3, <1>4, <1>5 DEF x, OneMore

LEMMA BlocksOn ==
    ASSUME NEW base \in Nat \ {0}, NEW q \in Nat, NEW p, p = base * q, NEW i \in Nat, i >= 1, NEW u, u = base * (i - 1)
    PROVE  (p + u) % base = 0 /\ (p + u) \div base = q + (i - 1)
<1> DEFINE x == p + u
           y == q + (i - 1)
           z == 0
<1>1. base * y = base * q + base * (i - 1) /\ base * q \in Nat /\ base * (i - 1) \in Nat
    OBVIOUS
<1>2. x \in Int /\ y \in Int /\ z \in 0..(base - 1) /\ x = base * y + z
    BY <1>1
<1> HIDE DEF x, y, z
<1>3. y = x \div base /\ z = x % base
    BY <1>2, DividedOnce
<1> QED
    BY <1>3 DEF x, y, z

LEMMA FileStepIs ==
    ASSUME NEW b, Blocks(b), Arranged(b), NEW p \in Nat, p = b.position, p % b.base = 0, NEW L \in Nat,
           p + L = b.size, NEW i \in Nat, i >= 1, NEW s, FileSoFar(s, b, p, L, i - 1)
    PROVE  FileSoFar(FileStep(b, s, i), b, p, L, i)
<1> DEFINE base == b.base
           q == p \div base
           u == Upto(base, L, i - 1)
           w == Upto(base, L, i)
           m == Len(b.mem)
<1>1. base \in Nat \ {0} /\ m \in Nat /\ b.capacity = m * base /\ p + L <= b.capacity /\ b.capacity \in Nat
    BY DEF Blocks, Arranged
<1>2. /\ u \in 0..L /\ w \in 0..L /\ (L - u <= 0 => w = u)
      /\ L - u > 0 => u = base * (i - 1) /\ w = u + (IF L - u > base THEN base ELSE L - u)
    <2>1. u = Upto(base, L, i - 1) /\ w = Upto(base, L, i)
        OBVIOUS
    <2> HIDE DEF u, w, base
    <2>2. OneMore(base, L, i, u, w)
        BY <1>1, <2>1, UptoIs
    <2> QED
        BY <2>2 DEF OneMore
<1>3. /\ s.left = L - u /\ s.pos = p + u
      /\ s.bytes \in Seq(Cell) /\ Len(s.bytes) = u /\ \A k \in 1..u : s.bytes[k] = At(b, p + k - 1)
    BY DEF FileSoFar
<1>4. p % base = 0 /\ (p < b.capacity => b.cur = q + 1)
    BY DEF Arranged
<1>5. base \in Nat \ {0}
    BY <1>1
<1> HIDE DEF base, u, w, m
<1>6. CASE L - u <= 0
    <2>1. FileStep(b, s, i) = s
        BY <1>3, <1>6 DEF FileStep
    <2>2. w = u
        BY <1>2, <1>6
    <2> HIDE DEF u, w
    <2>3. /\ s.left = L - w /\ s.pos = p + w
          /\ s.bytes \in Seq(Cell) /\ Len(s.bytes) = w /\ \A k \in 1..w : s.bytes[k] = At(b, p + k - 1)
        BY <1>3, <2>2
    <2> QED
        BY <2>1, <2>3 DEF FileSoFar, w, base
<1>7. CASE L - u > 0
    <2> DEFINE len == IF L - u > base THEN base ELSE L - u
               cur == b.cur + i - 1
               t == SubSeq(b.mem[cur], 1, len)
    <2>1. u = base * (i - 1) /\ w = u + len /\ len \in 1..base /\ u \in Nat /\ u + len <= L
        BY <1>1, <1>2, <1>7
    <2>2. q \in Nat /\ p = base * q /\ p < b.capacity
        <3>1. q \in Nat /\ p = base * q + (p % base)
            BY <1>1, Divided
        <3> HIDE DEF q
        <3>2. base * q \in Nat
            BY <1>1, <3>1
        <3>3. p = base * q
            BY <1>4, <3>1, <3>2
        <3>4. p < b.capacity
            <4> HIDE DEF u
            <4> QED
                BY <1>1, <1>2, <1>7
        <3> QED
            BY <3>1, <3>3, <3>4
    <2> HIDE DEF q
    <2>3. b.cur = q + 1 /\ b.cur # B!NULL
        BY <1>4, <2>2 DEF B!NULL
    <2>4. (p + u) % base = 0 /\ (p + u) \div base = q + (i - 1)
        BY <1>5, <2>1, <2>2, BlocksOn
    <2>5. cur \in 1..m
        <3> DEFINE x == p + u
        <3>1. x \in Nat /\ x < m * base
            <4> HIDE DEF u, m
            <4> QED
                BY <1>1, <1>2, <1>7
        <3> HIDE DEF x, m
        <3>2. x \div base < m
            BY <1>1, <3>1, InBlocks
        <3>3. x \div base = q + (i - 1)
            BY <2>4 DEF x
        <3> HIDE DEF q
        <3> QED
            BY <1>1, <2>2, <2>3, <3>2, <3>3
    <2>6. FileStep(b, s, i) = [left |-> s.left - len, pos |-> s.pos + len, bytes |-> s.bytes \o t]
        <3> DEFINE diff == s.pos % base
        <3>1. diff = 0
            BY <1>3, <2>4
        <3>2. ~(s.left <= 0) /\ (IF s.left > base THEN base ELSE s.left) = len
            BY <1>1, <1>2, <1>3, <1>7
        <3>3. len - diff = len /\ diff + 1 = 1 /\ diff + len = len /\ diff + (len - diff) = len
            BY <2>1, <3>1
        <3>4. ~(len <= 0 \/ cur > m \/ b.cur = B!NULL)
            BY <1>1, <2>1, <2>3, <2>5
        <3> HIDE DEF len, diff, cur, u
        <3> QED
            BY <3>2, <3>3, <3>4 DEF FileStep, diff, cur, base, m
    <2>7. t \in Seq(Cell) /\ Len(t) = len /\ \A k \in 1..len : t[k] = At(b, p + (u + k) - 1)
        <3> DEFINE c == b.mem[cur]
        <3>1. c \in [1..base -> Cell]
            BY <2>5 DEF Blocks, base, m
        <3>2. c \in Seq(Cell) /\ Len(c) = base
            <4> HIDE DEF c, base
            <4> QED
                BY <1>1, <3>1
        <3>5. t = SubSeq(c, 1, len)
            OBVIOUS
        <3> HIDE DEF c, len, t
        <3>3. t \in Seq(Cell) /\ Len(t) = len /\ \A k \in 1..len : t[k] = c[k]
            BY <1>1, <2>1, <3>2, <3>5
        <3>4. ASSUME NEW k \in 1..len PROVE c[k] = At(b, p + (u + k) - 1)
            <4> DEFINE y == u + k
            <4>1. k \in 1..base /\ y \in Int /\ (p % base) + y = base * (i - 1) + k
                <5> DEFINE x == base * (i - 1)
                           z == p % base
                <5>1. u = x /\ z = 0 /\ u \in Nat /\ len \in 1..base /\ base \in Nat
                    BY <1>1, <1>4, <2>1
                <5> HIDE DEF x, z
                <5>2. k \in 1..base /\ y \in Int /\ z + y = x + k
                    BY <5>1
                <5> QED
                    BY <5>2 DEF x, z
            <4> HIDE DEF y
            <4>2. b.mem[p \div b.base + 1 + i - 1][k] = At(b, p + y - 1)
                BY <4>1, CellOf DEF base
            <4>3. p \div b.base + 1 + i - 1 = cur
                BY <2>3 DEF q, base
            <4> QED
                BY <4>2, <4>3 DEF y, c
        <3> HIDE DEF t
        <3> QED
            BY <3>3, <3>4
    <2> DEFINE r == s.bytes \o t
               a == s.bytes
    <2>8. r \in Seq(Cell) /\ Len(r) = u + len /\ \A k \in 1..u + len : r[k] = At(b, p + k - 1)
        <3> HIDE DEF u, len, t
        <3>1. a \in Seq(Cell) /\ t \in Seq(Cell) /\ Len(a) = u /\ Len(t) = len /\ u \in Nat /\ len \in Nat
            BY <1>3, <2>1, <2>7
        <3> HIDE DEF a
        <3>2. /\ a \o t \in Seq(Cell) /\ Len(a \o t) = Len(a) + Len(t)
              /\ \A c \in 1..Len(a) : (a \o t)[c] = a[c]
              /\ \A c \in 1..Len(t) : (a \o t)[Len(a) + c] = t[c]
            <4>1. a \in Seq(Cell) /\ t \in Seq(Cell)
                BY <3>1
            <4> QED
                BY <4>1, Appended
        <3>3. r = a \o t
            BY DEF a
        <3> HIDE DEF r
        <3>4. ASSUME NEW k \in 1..u + len PROVE r[k] = At(b, p + k - 1)
            <4>1. CASE k <= u
                <5>1. k \in 1..u
                    BY <3>1, <4>1
                <5> QED
                    BY <1>3, <3>1, <3>2, <3>3, <5>1 DEF a
            <4>2. CASE k > u
                <5> DEFINE d == k - u
                <5>1. d \in 1..len /\ u + d = k
                    BY <3>1, <4>2
                <5> HIDE DEF d
                <5>2. r[u + d] = t[d]
                    BY <3>1, <3>2, <3>3, <5>1
                <5>3. t[d] = At(b, p + (u + d) - 1)
                    BY <2>7, <5>1
                <5> QED
                    BY <5>1, <5>2, <5>3
            <4> QED
                BY <3>1, <4>1, <4>2
        <3> QED
            BY <3>1, <3>2, <3>3, <3>4
    <2> DEFINE v == FileStep(b, s, i)
    <2>9. v.left = s.left - len /\ v.pos = s.pos + len /\ v.bytes = r
        <3>1. v = [left |-> s.left - len, pos |-> s.pos + len, bytes |-> r]
            BY <2>6
        <3> HIDE DEF v, r, len, t
        <3> QED
            BY <3>1
    <2> HIDE DEF v, r, len, t
    <2>10. /\ v.left = L - w /\ v.pos = p + w
           /\ v.bytes \in Seq(Cell) /\ Len(v.bytes) = w /\ \A k \in 1..w : v.bytes[k] = At(b, p + k - 1)
        <3>1. w = u + len /\ u \in Nat /\ len \in Nat
            BY <1>1, <2>1
        <3>2. v.left = L - w /\ v.pos = p + w
            BY <1>3, <2>9, <3>1
        <3> QED
            BY <2>8, <2>9, <3>1, <3>2
    <2> QED
        BY <2>10 DEF v, w, base, FileSoFar
<1> QED
    BY <1>1, <1>2, <1>6, <1>7

\* From the beginning of a block the file gets all the rest.
LEMMA WriteToFileIs ==
    ASSUME NEW b, NEW f, Stores(b, f), b.position % b.base = 0
    PROVE  B!writeToFile(b) = From(b, b.position, b.size - b.position)
<1> DEFINE p == b.position
           L == b.size - b.position
           N == Len(b.mem) + 1
           none == [left |-> L, pos |-> p, bytes |-> <<>>]
           step(s, i) == FileStep(b, s, i)
           Body(g) == [i \in 0..N |-> IF i = 0 THEN none ELSE step(g[i - 1], i)]
           after == CHOOSE g : g = Body(g)
<1>1. B!writeToFile(b) = after[N].bytes
    BY DEF B!writeToFile, B!getReadSize, FileStep
<1>2. /\ Blocks(b) /\ Arranged(b) /\ p \in Nat /\ L \in Nat /\ p + L = b.size /\ N \in Nat /\ b.base \in Nat \ {0}
      /\ b.size <= Len(b.mem) * b.base /\ Len(b.mem) \in Nat
    BY DEF Stores, Blocks, Arranged
<1>3. ASSUME NEW i \in 1..N, NEW s, FileSoFar(s, b, p, L, i - 1) PROVE FileSoFar(step(s, i), b, p, L, i)
    <2>1. i \in Nat /\ i >= 1
        BY <1>2
    <2> HIDE DEF L
    <2> QED
        BY <1>2, <1>3, <2>1, FileStepIs
<1>4. FileSoFar(none, b, p, L, 0)
    <2>1. Upto(b.base, L, 0) = 0
        BY <1>2 DEF Upto
    <2>2. <<>> \in Seq(Cell) /\ Len(<<>>) = 0
        OBVIOUS
    <2>3. none.left = L /\ none.pos = p /\ none.bytes = <<>>
        OBVIOUS
    <2> HIDE DEF L, p, none
    <2> QED
        BY <1>2, <2>1, <2>2, <2>3 DEF FileSoFar
<1> HIDE DEF none, step
<1> DEFINE Part(m, g) == /\ g = [i \in 0..m |-> g[i]]
                         /\ \A i \in 0..m : g[i] = IF i = 0 THEN none ELSE step(g[i - 1], i)
           U == {m \in Nat : ~\E g : Part(m, g)}
<1>5. U = {}
    <2> SUFFICES ASSUME U # {} PROVE FALSE
        OBVIOUS
    <2>1. PICK m \in U : \A y \in U : m <= y
        <3>1. U \in SUBSET Nat
            OBVIOUS
        <3> HIDE DEF U
        <3> QED
            BY <3>1, LeastExists
    <2>2. m \in Nat
        OBVIOUS
    <2>3. m # 0
        <3> SUFFICES ASSUME m = 0 PROVE FALSE
            OBVIOUS
        <3>1. 0..0 = {0}
            OBVIOUS
        <3>2. Part(0, [i \in {0} |-> none])
            BY <3>1
        <3> QED
            BY <3>2
    <2>4. m - 1 \in Nat /\ m - 1 \notin U
        <3>1. m - 1 \in Nat /\ ~(m <= m - 1)
            BY <2>2, <2>3
        <3> HIDE DEF U
        <3> QED
            BY <2>1, <3>1
    <2>5. PICK g : Part(m - 1, g)
        BY <2>4
    <2> DEFINE h == [i \in 0..m |-> IF i = m THEN step(g[m - 1], m) ELSE g[i]]
    <2>6. /\ \A i \in 0..m : i = m \/ i \in 0..(m - 1)
          /\ \A i \in 0..m : i # 0 => i - 1 \in 0..(m - 1) /\ i - 1 \in 0..m /\ i - 1 # m
        BY <2>2
    <2>7. \A i \in 0..(m - 1) : i \in 0..m /\ h[i] = g[i]
        BY <2>2
    <2>8. m \in 0..m /\ h[m] = step(g[m - 1], m)
        BY <2>2
    <2>9. h = [i \in 0..m |-> h[i]]
        OBVIOUS
    <2>10. \A i \in 0..(m - 1) : g[i] = IF i = 0 THEN none ELSE step(g[i - 1], i)
        BY <2>5
    <2> HIDE DEF h
    <2>11. \A i \in 0..m : h[i] = IF i = 0 THEN none ELSE step(h[i - 1], i)
        BY <2>3, <2>6, <2>7, <2>8, <2>10
    <2>12. Part(m, h)
        BY <2>9, <2>11
    <2> QED
        BY <2>12
<1>6. after = Body(after)
    <2>1. PICK g : Part(N, g)
        BY <1>2, <1>5
    <2>2. g = Body(g)
        BY <2>1
    <2> QED
        BY <2>2
<1> HIDE DEF after
<1>7. \A i \in 0..N : after[i] = IF i = 0 THEN none ELSE step(after[i - 1], i)
    BY <1>6
<1> HIDE DEF Part, U, Body
<1> DEFINE Bad == {i \in 0..N : ~FileSoFar(after[i], b, p, L, i)}
<1>8. Bad = {}
    <2> SUFFICES ASSUME Bad # {} PROVE FALSE
        OBVIOUS
    <2>1. PICK i \in Bad : \A y \in Bad : i <= y
        <3>1. Bad \in SUBSET Nat
            OBVIOUS
        <3> HIDE DEF Bad
        <3> QED
            BY <3>1, LeastExists
    <2>2. i \in 0..N /\ ~FileSoFar(after[i], b, p, L, i)
        OBVIOUS
    <2> HIDE DEF L, p, N
    <2>3. i # 0
        <3>1. after[0] = none
            BY <1>2, <1>7
        <3> QED
            BY <1>4, <2>2, <3>1
    <2>4. i \in 1..N /\ i - 1 \in 0..N /\ ~(i <= i - 1)
        BY <1>2, <2>2, <2>3
    <2>5. i - 1 \notin Bad
        <3> HIDE DEF Bad
        <3> QED
            BY <2>1, <2>4
    <2>6. FileSoFar(after[i - 1], b, p, L, i - 1)
        BY <2>4, <2>5
    <2>7. after[i] = step(after[i - 1], i)
        BY <1>7, <2>2, <2>3
    <2> QED
        BY <1>3, <2>2, <2>4, <2>6, <2>7
<1>9. Upto(b.base, L, N) = L
    <2> DEFINE m == Len(b.mem)
               x == b.base * m
    <2>1. m \in Nat /\ N = m + 1 /\ b.size <= m * b.base /\ m * b.base = x
        BY <1>2
    <2> HIDE DEF m, N, L, p
    <2>2. b.base * N = x + b.base /\ x \in Nat
        BY <1>2, <2>1
    <2> DEFINE y == b.base * N
    <2> HIDE DEF x
    <2>3. y > L
        BY <1>2, <2>1, <2>2
    <2> QED
        BY <2>3 DEF Upto, y
<1> DEFINE s == after[N].bytes
<1>10. s \in Seq(Cell) /\ Len(s) = L /\ \A k \in 1..L : s[k] = At(b, p + k - 1)
    <2>1. N \in 0..N
        BY <1>2
    <2>2. FileSoFar(after[N], b, p, L, N)
        <3> HIDE DEF N
        <3> QED
            BY <1>8, <2>1
    <2> QED
        BY <1>9, <2>2 DEF FileSoFar
<1> HIDE DEF s, L, p
<1>11. \A k \in 1..L : s[k] = From(b, p, L)[k]
    BY <1>10 DEF From
<1>12. s = From(b, p, L)
    BY <1>2, <1>10, <1>11, FromIs
<1> QED
    BY <1>1, <1>12 DEF s, p, L

LEMMA FromNone ==
    ASSUME NEW b, NEW p, NEW s \in Seq(Cell), Len(s) = 0
    PROVE  s = From(b, p, 0)
<1>1. s = [k \in 1..0 |-> s[k]]
    OBVIOUS
<1> QED
    BY <1>1 DEF From

\* The part of f behind the first p cells.
LEMMA PartBehind ==
    ASSUME NEW f \in Seq(Cell), NEW p \in Nat, NEW m \in Nat, p + m = Len(f)
    PROVE  /\ SubSeq(f, p + 1, Len(f)) \in Seq(Cell) /\ Len(SubSeq(f, p + 1, Len(f))) = m
           /\ \A k \in 1..m : SubSeq(f, p + 1, Len(f))[k] = f[p + k]
<1>1. Len(f) \in Nat /\ p <= Len(f) /\ Len(f) - (p + 1) + 1 = m
    OBVIOUS
<1>2. SubSeq(f, p + 1, Len(f)) = [k \in 1..m |-> f[p + k]]
    BY <1>1
<1>3. \A k \in 1..m : p + k \in 1..Len(f)
    BY <1>1
<1> QED
    BY <1>1, <1>2, <1>3

LEMMA Beginning ==
    ASSUME NEW f \in Seq(Cell), NEW n \in Nat, n <= Len(f)
    PROVE  Len(SubSeq(f, 1, n)) = n /\ \A k \in 1..n : SubSeq(f, 1, n)[k] = f[k]
OBVIOUS

LEMMA NumbersOfArray ==
    ASSUME NEW b, NEW f, Stores(b, f)
    PROVE  /\ Blocks(b) /\ Arranged(b) /\ b.base \in Nat \ {0} /\ b.position \in Nat /\ b.size \in Nat /\ b.capacity \in Nat
           /\ b.position <= b.size /\ b.size <= b.capacity /\ b.size - b.position \in Nat
           /\ f \in Seq(Cell) /\ Len(f) = b.size
           /\ b.position < b.capacity => b.cur = b.position \div b.base + 1 /\ b.cur # B!NULL
<1>1. Blocks(b) /\ Arranged(b) /\ f \in Seq(Cell) /\ Len(f) = b.size
    BY DEF Stores
<1>2. b.base \in Nat \ {0} /\ b.position \in Nat /\ b.size \in Nat /\ b.capacity \in Nat
      /\ b.position <= b.size /\ b.size <= b.capacity
    BY <1>1 DEF Blocks, Arranged
<1>3. b.position \div b.base \in Nat
    BY <1>2, Divided
<1>4. b.position < b.capacity => b.cur = b.position \div b.base + 1
    BY <1>1, <1>2 DEF Arranged
<1>5. b.position < b.capacity => b.cur # B!NULL
    BY <1>3, <1>4 DEF B!NULL
<1> QED
    BY <1>1, <1>2, <1>4, <1>5

LEMMA ToStringIs ==
    ASSUME NEW b, NEW f, Stores(b, f)
    PROVE  B!toString(b) = From(b, b.position, b.size - b.position)
<1> DEFINE p == b.position
           n == b.size - p
<1>1. /\ Blocks(b) /\ b.base \in Nat \ {0} /\ p \in Nat /\ n \in Nat /\ p <= b.size /\ b.size <= b.capacity
      /\ b.size \in Nat /\ b.capacity \in Nat
      /\ p < b.capacity => b.cur = p \div b.base + 1 /\ b.cur # B!NULL
    BY NumbersOfArray
<1>2. CASE n = 0
    <2>1. B!toString(b) = <<>>
        BY <1>2 DEF B!toString, B!getReadSize
    <2>2. <<>> \in Seq(Cell) /\ Len(<<>>) = 0
        OBVIOUS
    <2>3. <<>> = From(b, p, 0)
        BY <2>2, FromNone
    <2> QED
        BY <1>2, <2>1, <2>3
<1>3. CASE n # 0
    <2> DEFINE c == 1 + p \div b.base
    <2>1. p < b.capacity /\ ~(n > n)
        BY <1>1, <1>3
    <2>2. B!readAt(b, n, p) = [out |-> "ok", bytes |-> B!Copied(b, c, p % b.base, n)]
        BY <1>1, <2>1 DEF B!readAt
    <2>3. B!toString(b) = B!Copied(b, c, p % b.base, n)
        BY <1>3, <2>2 DEF B!toString, B!getReadSize
    <2>4. c = p \div b.base + 1
        <3>1. p \div b.base \in Nat
            BY <1>1, Divided
        <3> QED
            BY <3>1
    <2> HIDE DEF c, n, p
    <2>5. B!Copied(b, c, p % b.base, n) = [k \in 1..n |-> At(b, p + k - 1)]
        BY <1>1, <2>4, CopiedIs
    <2> QED
        BY <2>3, <2>5 DEF From, n, p
<1> QED
    BY <1>2, <1>3

LEMMA ReadBuffersAre ==
    ASSUME NEW b, NEW f, Stores(b, f), NEW len \in Nat, len >= 1,
           NEW n, n = IF len > b.size - b.position THEN b.size - b.position ELSE len
    PROVE  n \in Nat /\ b.position + n <= b.size /\ B!InPieces(b, B!getReadBuffers(b, len)) = From(b, b.position, n)
<1> DEFINE p == b.position
<1>1. /\ Blocks(b) /\ Arranged(b) /\ b.base \in Nat \ {0} /\ p \in Nat /\ p <= b.size /\ b.size <= b.capacity
      /\ b.size \in Nat /\ b.capacity \in Nat
      /\ p < b.capacity => b.cur = p \div b.base + 1 /\ b.cur # B!NULL
    BY NumbersOfArray
<1>2. n \in Nat /\ p + n <= b.size
    BY <1>1
<1>3. B!getReadBuffers(b, len) = IF n = 0 THEN <<>> ELSE B!Pieces(b, b.cur, p % b.base, n)
    BY DEF B!getReadBuffers, B!getReadSize
<1>4. CASE n = 0
    <2> DEFINE pieces == <<>>
               s == [i \in 1..Len(pieces) |-> [k \in 1..pieces[i][3] |->
                        IF pieces[i][2] + k \in 1..b.base THEN b.mem[pieces[i][1]][pieces[i][2] + k] ELSE B!Unset - 1]]
    <2>1. s \in Seq(Cell) /\ Len(s) = 0
        <3>1. Len(pieces) = 0
            OBVIOUS
        <3> HIDE DEF pieces
        <3> QED
            BY <3>1
    <2>2. B!InPieces(b, pieces) = B!FlattenSeq(s)
        <3> HIDE DEF pieces
        <3> QED
            BY DEF B!InPieces
    <2> HIDE DEF s
    <2>3. B!FlattenSeq(s) = s
        BY <2>1 DEF B!FlattenSeq
    <2>4. s = From(b, p, 0)
        BY <2>1, FromNone
    <2> QED
        BY <1>2, <1>3, <1>4, <2>2, <2>3, <2>4
<1>5. CASE n # 0
    <2>1. p < b.capacity /\ p + n <= b.capacity /\ n >= 1
        BY <1>1, <1>2, <1>5
    <2> DEFINE c == b.cur
    <2>2. c = p \div b.base + 1
        BY <1>1, <2>1
    <2> HIDE DEF p, c
    <2>3. B!InPieces(b, B!Pieces(b, c, p % b.base, n)) = From(b, p, n)
        BY <1>1, <1>2, <2>1, <2>2, PiecesIs
    <2> QED
        BY <1>2, <1>3, <1>5, <2>3 DEF p, c
<1> QED
    BY <1>4, <1>5

LEMMA WriteBuffersAre ==
    ASSUME NEW b, NEW f, Stores(b, f), NEW n \in Nat, n >= 1, NEW w, w = B!getWriteBuffers(b, n)
    PROVE  B!InPieces(w.b, w.pieces) = SubSeq(B!FlattenSeq(w.b.mem), b.position + 1, b.position + n)
<1> DEFINE a == B!addCapacity(b, n)
           p == b.position
<1>1. Stores(a, f) /\ a.position + n <= a.capacity /\ a.base = b.base /\ a.position = p
    BY AddCapacityIs
<1>2. w.b = a /\ w.pieces = B!Pieces(a, a.cur, a.position % a.base, n)
    BY DEF B!getWriteBuffers
<1> HIDE DEF a
<1>3. /\ Blocks(a) /\ Arranged(a) /\ a.base \in Nat \ {0} /\ a.position \in Nat /\ a.capacity \in Nat
      /\ a.position < a.capacity => a.cur = a.position \div a.base + 1
    BY <1>1, NumbersOfArray
<1>4. p \in Nat /\ p + n <= a.capacity /\ p < a.capacity
    BY <1>1, <1>3
<1> DEFINE c == a.cur
           s == B!FlattenSeq(a.mem)
<1>5. c = p \div a.base + 1
    BY <1>1, <1>3, <1>4
<1> HIDE DEF c, p
<1>6. B!InPieces(a, B!Pieces(a, c, p % a.base, n)) = From(a, p, n)
    BY <1>3, <1>4, <1>5, PiecesIs
<1>7. s = From(a, 0, a.capacity)
    BY <1>3, BlocksJoined
<1> HIDE DEF s
<1>8. SubSeq(s, p + 1, p + n) = From(a, p, n)
    <2> DEFINE m == a.capacity
               v(k) == At(a, 0 + k - 1)
    <2>1. s = [k \in 1..m |-> v(k)]
        BY <1>7 DEF From
    <2> HIDE DEF m, v
    <2>2. m \in Nat /\ p + n <= m
        BY <1>3, <1>4 DEF m
    <2>3. SubSeq(s, p + 1, p + n) = [k \in 1..n |-> v(p + k)]
        BY <1>4, <2>1, <2>2
    <2>4. \A k \in 1..n : v(p + k) = At(a, p + k - 1)
        <3> TAKE k \in 1..n
        <3>1. 0 + (p + k) - 1 = p + k - 1
            BY <1>4
        <3> QED
            BY <3>1 DEF v
    <2> QED
        BY <2>3, <2>4 DEF From
<1> QED
    BY <1>1, <1>2, <1>6, <1>8 DEF s, c, p

\* The n bytes from the position on are those of f, where f has any.
LEMMA RestSame ==
    ASSUME NEW b, NEW f, Stores(b, f), NEW n \in Nat, b.position + n <= b.size,
           NEW due, Len(due) = n, \A k \in 1..n : due[k] = f[b.position + k]
    PROVE  B!Same(From(b, b.position, n), due)
<1> DEFINE p == b.position
           x == From(b, p, n)
<1>1. p \in Nat /\ b.size \in Nat /\ Len(f) = b.size /\ \A i \in 1..Len(f) : f[i] = B!Unset \/ At(b, i - 1) = f[i]
    BY NumbersOfArray DEF Stores
<1>2. Len(x) = n /\ \A k \in 1..n : x[k] = At(b, p + k - 1)
    BY DEF From
<1> HIDE DEF x
<1>3. ASSUME NEW k \in 1..n PROVE due[k] = B!Unset \/ x[k] = due[k]
    <2> DEFINE i == p + k
    <2>1. i \in 1..Len(f) /\ i - 1 = p + k - 1
        BY <1>1
    <2>2. due[k] = f[i]
        OBVIOUS
    <2> HIDE DEF i
    <2>3. f[i] = B!Unset \/ At(b, i - 1) = f[i]
        BY <1>1, <2>1
    <2> QED
        BY <1>2, <2>1, <2>2, <2>3
<1> QED
    BY <1>2, <1>3 DEF B!Same, x

LEMMA BuffersAre ==
    ASSUME Stores(ba, flat)
    PROVE  B!BuffersAgree
<1> DEFINE p == ba.position
           L == ba.size - ba.position
           rest == SubSeq(flat, p + 1, ba.size)
<1>1. /\ p \in Nat /\ ba.size \in Nat /\ L \in Nat /\ p + L = ba.size
      /\ flat \in Seq(Cell) /\ Len(flat) = ba.size
    BY NumbersOfArray
<1>2. rest \in Seq(Cell) /\ Len(rest) = L /\ \A k \in 1..L : rest[k] = flat[p + k]
    <2>1. rest = SubSeq(flat, p + 1, Len(flat)) /\ p + L = Len(flat)
        BY <1>1
    <2> HIDE DEF p, L, rest
    <2>2. /\ SubSeq(flat, p + 1, Len(flat)) \in Seq(Cell) /\ Len(SubSeq(flat, p + 1, Len(flat))) = L
          /\ \A k \in 1..L : SubSeq(flat, p + 1, Len(flat))[k] = flat[p + k]
        BY <1>1, <2>1, PartBehind
    <2> QED
        BY <2>1, <2>2
<1> HIDE DEF rest
<1>3. B!Same(From(ba, p, L), rest)
    <2> HIDE DEF L
    <2>1. L \in Nat /\ ba.position + L <= ba.size /\ Len(rest) = L /\ \A k \in 1..L : rest[k] = flat[ba.position + k]
        BY <1>1, <1>2
    <2> QED
        BY <2>1, RestSame
<1>4. B!Same(B!toString(ba), rest)
    BY <1>3, ToStringIs
<1>5. ba.position % ba.base = 0 => B!Same(B!writeToFile(ba), rest)
    BY <1>3, WriteToFileIs
<1>6. ASSUME NEW len \in 1..MaxSize
      PROVE  B!Same(B!InPieces(ba, B!getReadBuffers(ba, len)),
                    SubSeq(rest, 1, IF len > Len(rest) THEN Len(rest) ELSE len))
    <2> DEFINE n == IF len > L THEN L ELSE len
               due == SubSeq(rest, 1, n)
    <2>1. len \in Nat /\ len >= 1
        BY BoundsAssumption
    <2>2. n = (IF len > ba.size - ba.position THEN ba.size - ba.position ELSE len) /\ n <= L
        BY <1>1, <2>1
    <2> HIDE DEF n
    <2>3. n \in Nat /\ p + n <= ba.size /\ B!InPieces(ba, B!getReadBuffers(ba, len)) = From(ba, p, n)
        BY <2>1, <2>2, ReadBuffersAre
    <2>4. Len(due) = n /\ \A k \in 1..n : due[k] = flat[p + k]
        <3>1. n \in Nat /\ n <= Len(rest) /\ \A k \in 1..n : k \in 1..L
            BY <1>1, <1>2, <2>2, <2>3
        <3>2. Len(SubSeq(rest, 1, n)) = n /\ \A k \in 1..n : SubSeq(rest, 1, n)[k] = rest[k]
            BY <1>2, <3>1, Beginning
        <3> HIDE DEF L
        <3> QED
            BY <1>2, <3>1, <3>2
    <2>5. B!Same(From(ba, p, n), due)
        <3> HIDE DEF due
        <3> QED
            BY <2>3, <2>4, RestSame
    <2>6. due = SubSeq(rest, 1, IF len > Len(rest) THEN Len(rest) ELSE len)
        BY <1>2 DEF n
    <2> QED
        BY <2>3, <2>5, <2>6
<1>7. ASSUME NEW n \in 1..MaxSize, NEW w, w = B!getWriteBuffers(ba, n)
      PROVE  B!InPieces(w.b, w.pieces) = SubSeq(B!FlattenSeq(w.b.mem), ba.position + 1, ba.position + n)
    <2>1. n \in Nat /\ n >= 1
        BY BoundsAssumption
    <2> QED
        BY <1>7, <2>1, WriteBuffersAre
<1>8. \A n \in 1..MaxSize :
          B!InPieces(B!getWriteBuffers(ba, n).b, B!getWriteBuffers(ba, n).pieces)
          = SubSeq(B!FlattenSeq(B!getWriteBuffers(ba, n).b.mem), ba.position + 1, ba.position + n)
    BY <1>7
<1> QED
    BY <1>4, <1>5, <1>6, <1>8 DEF B!BuffersAgree, rest

\* The rest of a ByteArray is the same bytes through toString, through the
\* buffers of send and, from the beginning of a block, in the file; the buffers
\* handed to recv are the array's next bytes: for every block size and every
\* sequence of operations.
THEOREM ByteArrayBuffers == Spec => []BuffersAgree
<1>1. BInv => BuffersAgree
    BY BuffersAre DEF BInv, BytesInv, BuffersAgree
<1> QED
    BY <1>1, BytesInvariant, PTL

=============================================================================
