------------------------ MODULE DependencyPathsProofs ------------------------
(***************************************************************************)
(* What DependencyPaths promises, for every set of modules, wherever they  *)
(* are provided, and every sys.path the worker may start with.             *)
(*                                                                         *)
(* The proof rests on what is first on the path for a module (Leads): a    *)
(* removal keeps it unless it is what was removed, and an addition at the  *)
(* end keeps it.  An addition at the front does not; the invariant says    *)
(* why the switch to the customer's packages may do it (SwitchIsSafe).     *)
(***************************************************************************)
EXTENDS DependencyPaths, WellFoundedInduction, TLAPS

USE DependencyAssumption

(* Numbers and sequences **************************************************)

\* A set of naturals has a least one.
LEMMA LeastNumber ==
    ASSUME NEW T, T \subseteq Nat, T # {}
    PROVE  \E i \in T : \A j \in T : i <= j
  <1> DEFINE R == OpToRel(<, Nat)
  <1>1. IsWellFoundedOn(R, Nat)
    BY NatLessThanWellFounded
  <1>2. PICK x \in T : \A y \in T : ~(<<y, x>> \in R)
    BY <1>1, WFMin
  <1>3. \A y \in T : ~(y < x)
    BY <1>2 DEF OpToRel
  <1> QED
    BY <1>3

\* What is true of 0 and passes from a number to the next is true of all of
\* them: T is the set of those for which it is not.
LEMMA NoLeastNumber ==
    ASSUME NEW T, T \subseteq Nat, 0 \notin T,
           \A n \in Nat : n + 1 \in T => n \in T
    PROVE  T = {}
  <1> SUFFICES ASSUME T # {} PROVE FALSE
    OBVIOUS
  <1>1. PICK i \in T : \A j \in T : i <= j
    BY LeastNumber
  <1>2. i - 1 \in Nat /\ (i - 1) + 1 = i
    OBVIOUS
  <1>3. i - 1 \in T
    BY <1>2
  <1> QED
    BY <1>1, <1>3

(* The filter of sys.path *************************************************)

KeptBy(path, p, n, F) ==
    F = [i \in 0..n |->
            IF i = 0 THEN <<>>
            ELSE IF path[i] # p THEN Append(F[i - 1], path[i]) ELSE F[i - 1]]

LEMMA KeptExists ==
    ASSUME NEW path, NEW p, NEW n \in Nat
    PROVE  \E F : KeptBy(path, p, n, F)
  <1> DEFINE T == {k \in Nat : ~\E F : KeptBy(path, p, k, F)}
  <1>1. 0 \notin T
    <2> DEFINE F0 == [i \in 0..0 |-> <<>>]
    <2>1. KeptBy(path, p, 0, F0)
      BY DEF KeptBy
    <2> QED
      BY <2>1
  <1>2. ASSUME NEW k \in Nat, k \notin T
        PROVE  k + 1 \notin T
    <2>1. PICK F : KeptBy(path, p, k, F)
      BY <1>2
    <2> DEFINE last == IF path[k + 1] # p THEN Append(F[k], path[k + 1]) ELSE F[k]
               G == [i \in 0..(k + 1) |-> IF i = k + 1 THEN last ELSE F[i]]
               H == [i \in 0..(k + 1) |->
                        IF i = 0 THEN <<>>
                        ELSE IF path[i] # p THEN Append(G[i - 1], path[i]) ELSE G[i - 1]]
    <2>2. \A i \in 0..k : G[i] = F[i]
      OBVIOUS
    <2>3. G[k + 1] = last
      OBVIOUS
    <2>4. ASSUME NEW i \in 0..k
          PROVE  F[i] = IF i = 0 THEN <<>>
                        ELSE IF path[i] # p THEN Append(F[i - 1], path[i]) ELSE F[i - 1]
      BY <2>1, <2>4 DEF KeptBy
    <2>5. ASSUME NEW i \in 0..(k + 1)
          PROVE  G[i] = H[i]
      <3>1. H[i] = IF i = 0 THEN <<>>
                   ELSE IF path[i] # p THEN Append(G[i - 1], path[i]) ELSE G[i - 1]
        OBVIOUS
      <3>2. i = 0 \/ i - 1 \in 0..k
        OBVIOUS
      <3>3. i = 0 \/ G[i - 1] = F[i - 1]
        BY <2>2, <3>2
      <3>4. CASE i = k + 1
        <4>1. i # 0 /\ i - 1 = k
          BY <3>4
        <4>2. G[i - 1] = F[k]
          BY <3>3, <4>1
        <4> HIDE DEF G, H
        <4> QED
          BY <2>3, <3>1, <3>4, <4>1, <4>2
      <3>5. CASE i # k + 1
        <4>1. i \in 0..k
          BY <3>5
        <4>2. G[i] = F[i]
          BY <2>2, <4>1
        <4> HIDE DEF G, H
        <4> QED
          BY <2>4, <3>1, <3>3, <4>1, <4>2
      <3> QED
        BY <3>4, <3>5
    <2>6. G = H
      <3>1. DOMAIN G = 0..(k + 1) /\ DOMAIN H = 0..(k + 1)
        OBVIOUS
      <3>2. G = [i \in 0..(k + 1) |-> G[i]] /\ H = [i \in 0..(k + 1) |-> H[i]]
        OBVIOUS
      <3> HIDE DEF G, H
      <3> QED
        BY <2>5, <3>2
    <2>7. KeptBy(path, p, k + 1, G)
      <3> HIDE DEF G
      <3> QED
        BY <2>6 DEF KeptBy
    <2> QED
      BY <2>7
  <1>3. T = {}
    <2> HIDE DEF T
    <2>1. T \subseteq Nat
      BY DEF T
    <2> QED
      BY <1>1, <1>2, <2>1, NoLeastNumber
  <1> QED
    BY <1>3

\* short has the entries of path before place n that are not p, in their
\* order: before each of them are only such as are before it in path.
Keeps(path, p, n, short) ==
    /\ short \in Seq(Paths)
    /\ \A k \in 1..Len(short) : short[k] # p /\ \E i \in 1..n : path[i] = short[k]
    /\ \A i \in 1..n : path[i] # p =>
            \E k \in 1..Len(short) :
                /\ short[k] = path[i]
                /\ \A j \in 1..(k - 1) : \E h \in 1..(i - 1) : path[h] = short[j]

LEMMA KeepsNext ==
    ASSUME NEW path \in Seq(Paths), NEW p, NEW n \in Nat, n + 1 \in 1..Len(path),
           NEW short, Keeps(path, p, n, short)
    PROVE  Keeps(path, p, n + 1,
                 IF path[n + 1] # p THEN Append(short, path[n + 1]) ELSE short)
  <1>0. /\ path[n + 1] \in Paths /\ Len(short) \in Nat
        /\ short \in Seq(Paths)
    BY DEF Keeps
  <1>1. CASE path[n + 1] = p
    <2>1. \A i \in 1..(n + 1) : i \in 1..n \/ i = n + 1
      OBVIOUS
    <2>2. \A i \in 1..n : i \in 1..(n + 1)
      OBVIOUS
    <2> QED
      BY <1>1, <2>1, <2>2 DEF Keeps
  <1>2. CASE path[n + 1] # p
    <2> DEFINE long == Append(short, path[n + 1])
    <2>1. /\ long \in Seq(Paths) /\ Len(long) = Len(short) + 1
          /\ \A k \in 1..Len(short) : long[k] = short[k]
          /\ long[Len(short) + 1] = path[n + 1]
      BY <1>0
    <2> HIDE DEF long
    <2>2. ASSUME NEW k \in 1..Len(long)
          PROVE  long[k] # p /\ \E i \in 1..(n + 1) : path[i] = long[k]
      <3>1. CASE k \in 1..Len(short)
        <4>1. PICK i \in 1..n : path[i] = short[k]
          BY <3>1 DEF Keeps
        <4>2. i \in 1..(n + 1)
          OBVIOUS
        <4> QED
          BY <2>1, <3>1, <4>1, <4>2 DEF Keeps
      <3>2. CASE k = Len(short) + 1
        BY <1>2, <2>1, <3>2
      <3> QED
        BY <1>0, <2>1, <3>1, <3>2
    <2>3. ASSUME NEW i \in 1..(n + 1), path[i] # p
          PROVE  \E k \in 1..Len(long) :
                    /\ long[k] = path[i]
                    /\ \A j \in 1..(k - 1) : \E h \in 1..(i - 1) : path[h] = long[j]
      <3>1. CASE i \in 1..n
        <4>1. PICK k \in 1..Len(short) :
                    /\ short[k] = path[i]
                    /\ \A j \in 1..(k - 1) : \E h \in 1..(i - 1) : path[h] = short[j]
          BY <2>3, <3>1 DEF Keeps
        <4>2. k \in 1..Len(long) /\ \A j \in 1..(k - 1) : j \in 1..Len(short)
          BY <1>0, <2>1
        <4> QED
          BY <2>1, <4>1, <4>2
      <3>2. CASE i = n + 1
        <4>1. \A j \in 1..Len(short) : \E h \in 1..n : path[h] = short[j]
          BY DEF Keeps
        <4>2. Len(short) + 1 \in 1..Len(long)
          BY <1>0, <2>1
        <4>3. (Len(short) + 1) - 1 = Len(short) /\ i - 1 = n
          BY <1>0, <3>2
        <4>4. \A j \in 1..((Len(short) + 1) - 1) : \E h \in 1..(i - 1) : path[h] = long[j]
          BY <2>1, <4>1, <4>3
        <4>5. long[Len(short) + 1] = path[i]
          BY <2>1, <3>2
        <4> QED
          BY <4>2, <4>4, <4>5
      <3> QED
        BY <3>1, <3>2
    <2>4. Keeps(path, p, n + 1, long)
      BY <2>1, <2>2, <2>3 DEF Keeps
    <2> QED
      BY <1>2, <2>4 DEF long
  <1> QED
    BY <1>1, <1>2

LEMMA WithoutKeeps ==
    ASSUME NEW path \in Seq(Paths), NEW p
    PROVE  Keeps(path, p, Len(path), Without(path, p))
  <1> DEFINE F == CHOOSE f : KeptBy(path, p, Len(path), f)
  <1>1. Without(path, p) = F[Len(path)]
    BY DEF Without, KeptBy
  <1>2. KeptBy(path, p, Len(path), F)
    BY KeptExists
  <1> HIDE DEF F
  <1> DEFINE T == {n \in Nat : n <= Len(path) /\ ~Keeps(path, p, n, F[n])}
  <1>3. 0 \notin T
    <2>1. F[0] = <<>>
      BY <1>2 DEF KeptBy
    <2>2. <<>> \in Seq(Paths) /\ Len(<<>>) = 0 /\ 1..0 = {}
      OBVIOUS
    <2>3. Keeps(path, p, 0, <<>>)
      BY <2>2 DEF Keeps
    <2> QED
      BY <2>1, <2>3
  <1>4. ASSUME NEW n \in Nat, n + 1 \in T
        PROVE  n \in T
    <2>1. F[n + 1] = IF path[n + 1] # p THEN Append(F[n], path[n + 1]) ELSE F[n]
      <3>1. n + 1 \in 0..Len(path) /\ n + 1 # 0 /\ (n + 1) - 1 = n
        BY <1>4
      <3> QED
        BY <1>2, <3>1 DEF KeptBy
    <2>2. n + 1 \in 1..Len(path)
      BY <1>4
    <2>3. ~Keeps(path, p, n, F[n])
      BY <1>4, <2>1, <2>2, KeepsNext
    <2> QED
      BY <2>2, <2>3
  <1>5. T = {}
    <2>1. T \subseteq Nat
      OBVIOUS
    <2> HIDE DEF T
    <2> QED
      BY <1>3, <1>4, <2>1, NoLeastNumber
  <1> QED
    BY <1>1, <1>5


(* Imports ****************************************************************)

PySet == [path : Seq(Paths), modules : [Modules -> Paths \cup {NotLoaded}]]

\* The first entry of the path that has the module is q.
Leads(path, m, q) ==
    \E i \in 1..Len(path) :
        /\ path[i] = q /\ q \in Provides[m]
        /\ \A j \in 1..(i - 1) : path[j] \notin Provides[m]

LEMMA FoundLeads ==
    ASSUME NEW s \in PySet, NEW m, Finds(s, m) # {}
    PROVE  Leads(s.path, m, Found(s, m)) /\ Found(s, m) \in Paths
  <1> DEFINE T == Finds(s, m)
             i == Min(T)
  <1>1. T \subseteq 1..Len(s.path) /\ Len(s.path) \in Nat /\ s.path \in Seq(Paths)
    BY DEF Finds, PySet
  <1>2. \E x \in T : \A y \in T : x <= y
    <2>1. T \subseteq Nat
      BY <1>1
    <2> QED
      BY <2>1, LeastNumber
  <1>3. i \in T /\ \A y \in T : i <= y
    BY <1>2 DEF Min
  <1> HIDE DEF i
  <1>4. \A j \in 1..(i - 1) : s.path[j] \notin Provides[m]
    <2>1. \A j \in 1..(i - 1) : j \in 1..Len(s.path) /\ ~(i <= j)
      BY <1>1, <1>3
    <2> QED
      BY <1>3, <2>1 DEF Finds
  <1>5. i \in 1..Len(s.path) /\ s.path[i] \in Provides[m] /\ s.path[i] \in Paths
    BY <1>1, <1>3 DEF Finds
  <1>6. Found(s, m) = s.path[i]
    BY DEF Found, i
  <1> QED
    BY <1>4, <1>5, <1>6 DEF Leads

LEMMA OneLeads ==
    ASSUME NEW path \in Seq(Paths), NEW m, NEW p, NEW q, Leads(path, m, p), Leads(path, m, q)
    PROVE  p = q
  <1>1. PICK i \in 1..Len(path) :
            /\ path[i] = p /\ p \in Provides[m]
            /\ \A j \in 1..(i - 1) : path[j] \notin Provides[m]
    BY DEF Leads
  <1>2. PICK k \in 1..Len(path) :
            /\ path[k] = q /\ q \in Provides[m]
            /\ \A j \in 1..(k - 1) : path[j] \notin Provides[m]
    BY DEF Leads
  <1>3. ~(i < k) /\ ~(k < i)
    BY <1>1, <1>2
  <1> QED
    BY <1>1, <1>2, <1>3

LEMMA LeadsIsFound ==
    ASSUME NEW s \in PySet, NEW m, NEW q
    PROVE  Leads(s.path, m, q) <=> Finds(s, m) # {} /\ q = Found(s, m)
  <1>1. s.path \in Seq(Paths)
    BY DEF PySet
  <1>2. Leads(s.path, m, q) => Finds(s, m) # {}
    BY DEF Leads, Finds
  <1> QED
    BY <1>1, <1>2, FoundLeads, OneLeads

\* The modules that are loaded are those an import would find now.
Coherent(s) == \A m \in Modules : s.modules[m] # NotLoaded => Leads(s.path, m, s.modules[m])

Has(path, p) == \E i \in 1..Len(path) : path[i] = p

LEMMA HasIsOnPath ==
    ASSUME NEW s \in PySet, NEW p
    PROVE  OnPath(s, p) <=> Has(s.path, p)
  <1>1. s.path \in Seq(Paths) /\ DOMAIN s.path = 1..Len(s.path)
    BY DEF PySet
  <1> QED
    BY <1>1 DEF OnPath, Has, ToSet

LEMMA LeadsHas ==
    ASSUME NEW path, NEW m, NEW q, Leads(path, m, q)
    PROVE  Has(path, q) /\ q \in Provides[m]
  BY DEF Leads, Has

\* The path with an entry at its end, and without another.
LEMMA LeadsAppend ==
    ASSUME NEW path \in Seq(Paths), NEW p \in Paths, NEW m, NEW q, Leads(path, m, q)
    PROVE  Leads(Append(path, p), m, q)
  <1> DEFINE long == Append(path, p)
  <1>1. /\ Len(long) = Len(path) + 1 /\ Len(path) \in Nat
        /\ \A k \in 1..Len(path) : long[k] = path[k]
    OBVIOUS
  <1> HIDE DEF long
  <1>2. PICK i \in 1..Len(path) :
            /\ path[i] = q /\ q \in Provides[m]
            /\ \A j \in 1..(i - 1) : path[j] \notin Provides[m]
    BY DEF Leads
  <1>3. i \in 1..Len(long) /\ long[i] = q
    BY <1>1, <1>2
  <1>4. \A j \in 1..(i - 1) : long[j] \notin Provides[m]
    BY <1>1, <1>2
  <1>5. Leads(long, m, q)
    BY <1>2, <1>3, <1>4 DEF Leads
  <1> QED
    BY <1>5 DEF long

LEMMA LeadsWithout ==
    ASSUME NEW path \in Seq(Paths), NEW p, NEW m, NEW q, q # p, Leads(path, m, q)
    PROVE  Leads(Without(path, p), m, q)
  <1> DEFINE short == Without(path, p)
  <1>1. Keeps(path, p, Len(path), short)
    BY WithoutKeeps
  <1> HIDE DEF short
  <1>2. PICK i \in 1..Len(path) :
            /\ path[i] = q /\ q \in Provides[m]
            /\ \A j \in 1..(i - 1) : path[j] \notin Provides[m]
    BY DEF Leads
  <1>3. PICK k \in 1..Len(short) :
            /\ short[k] = path[i]
            /\ \A j \in 1..(k - 1) : \E h \in 1..(i - 1) : path[h] = short[j]
    BY <1>1, <1>2 DEF Keeps
  <1>4. Leads(short, m, q)
    BY <1>2, <1>3 DEF Leads
  <1> QED
    BY <1>4 DEF short

LEMMA HasAfter ==
    ASSUME NEW path \in Seq(Paths), NEW p \in Paths, NEW q
    PROVE  /\ Append(path, p) \in Seq(Paths) /\ <<p>> \o path \in Seq(Paths)
           /\ Without(path, p) \in Seq(Paths)
           /\ Has(Append(path, p), q) <=> q = p \/ Has(path, q)
           /\ Has(<<p>> \o path, q) <=> q = p \/ Has(path, q)
           /\ Has(Without(path, p), q) <=> q # p /\ Has(path, q)
  <1>1. Append(path, p) \in Seq(Paths) /\ <<p>> \o path \in Seq(Paths)
    OBVIOUS
  <1>2. Has(Append(path, p), q) <=> q = p \/ Has(path, q)
    <2> DEFINE long == Append(path, p)
    <2>1. /\ Len(long) = Len(path) + 1 /\ Len(path) \in Nat
          /\ \A k \in 1..Len(path) : long[k] = path[k]
          /\ long[Len(path) + 1] = p
      OBVIOUS
    <2> HIDE DEF long
    <2>2. \A k : k \in 1..Len(long) <=> k \in 1..Len(path) \/ k = Len(path) + 1
      BY <2>1
    <2>3. Has(long, q) <=> q = p \/ Has(path, q)
      BY <2>1, <2>2 DEF Has
    <2> QED
      BY <2>3 DEF long
  <1>3. Has(<<p>> \o path, q) <=> q = p \/ Has(path, q)
    <2> DEFINE long == <<p>> \o path
    <2>1. /\ Len(long) = Len(path) + 1 /\ Len(path) \in Nat
          /\ \A k \in 1..Len(path) : long[k + 1] = path[k]
          /\ long[1] = p
      OBVIOUS
    <2> HIDE DEF long
    <2>2. ASSUME Has(long, q)
          PROVE  q = p \/ Has(path, q)
      <3>1. PICK k \in 1..Len(long) : long[k] = q
        BY <2>2 DEF Has
      <3>2. k = 1 \/ (k - 1 \in 1..Len(path) /\ (k - 1) + 1 = k)
        BY <2>1
      <3> QED
        BY <2>1, <3>1, <3>2 DEF Has
    <2>3. ASSUME Has(path, q)
          PROVE  Has(long, q)
      <3>1. PICK k \in 1..Len(path) : path[k] = q
        BY <2>3 DEF Has
      <3>2. k + 1 \in 1..Len(long) /\ long[k + 1] = q
        BY <2>1, <3>1
      <3> QED
        BY <3>2 DEF Has
    <2>4. q = p => Has(long, q)
      <3>1. 1 \in 1..Len(long)
        BY <2>1
      <3> QED
        BY <2>1, <3>1 DEF Has
    <2> QED
      BY <2>2, <2>3, <2>4 DEF long
  <1>4. Keeps(path, p, Len(path), Without(path, p))
    BY WithoutKeeps
  <1>5. Without(path, p) \in Seq(Paths)
    BY <1>4 DEF Keeps
  <1>6. Has(Without(path, p), q) <=> q # p /\ Has(path, q)
    <2> DEFINE short == Without(path, p)
    <2>1. Keeps(path, p, Len(path), short)
      BY <1>4
    <2> HIDE DEF short
    <2>2. Has(short, q) <=> q # p /\ Has(path, q)
      BY <2>1 DEF Keeps, Has
    <2> QED
      BY <2>2 DEF short
  <1> QED
    BY <1>1, <1>2, <1>3, <1>5, <1>6

(* Changes of sys.path ****************************************************)

\* No module is loaded from another path than before.
Sheds(t, s) == \A m \in Modules : t.modules[m] \in {s.modules[m], NotLoaded}

LEMMA RemoveModuleCacheFacts ==
    ASSUME NEW s \in PySet, NEW p
    PROVE  LET t == RemoveModuleCache(s, p) IN
           /\ t \in PySet /\ t.path = s.path /\ Sheds(t, s)
           /\ \A m \in Modules : t.modules[m] # NotLoaded => ~Under(t.modules[m], p)
  <1> DEFINE f == [m \in Modules |-> IF s.modules[m] # NotLoaded /\ Under(s.modules[m], p)
                                     THEN NotLoaded ELSE s.modules[m]]
  <1>1. f \in [Modules -> Paths \cup {NotLoaded}]
    BY DEF PySet
  <1>2. \A m \in Modules : /\ f[m] \in {s.modules[m], NotLoaded}
                           /\ f[m] # NotLoaded => ~Under(f[m], p)
    OBVIOUS
  <1> HIDE DEF f
  <1> DEFINE t == [s EXCEPT !.modules = f]
  <1>3. t = RemoveModuleCache(s, p)
    BY DEF RemoveModuleCache, f
  <1>4. t \in PySet /\ t.path = s.path /\ t.modules = f
    BY <1>1 DEF PySet
  <1> HIDE DEF t
  <1>5. /\ t \in PySet /\ t.path = s.path /\ Sheds(t, s)
        /\ \A m \in Modules : t.modules[m] # NotLoaded => ~Under(t.modules[m], p)
    BY <1>2, <1>4 DEF Sheds
  <1> QED
    BY <1>3, <1>5

LEMMA WithPath ==
    ASSUME NEW s \in PySet, NEW path \in Seq(Paths)
    PROVE  LET t == [s EXCEPT !.path = path] IN
           t \in PySet /\ t.path = path /\ t.modules = s.modules
  BY DEF PySet

LEMMA RemoveFacts ==
    ASSUME NEW s \in PySet, NEW p \in Paths \cup {NoPath}
    PROVE  LET t == RemoveFromSysPath(s, p) IN
           /\ t \in PySet /\ Sheds(t, s)
           /\ Coherent(s) => Coherent(t)
           /\ \A q \in Paths : Has(t.path, q) <=> q # p /\ Has(s.path, q)
           /\ \A m \in Modules : t.modules[m] # NotLoaded => t.modules[m] # p
  <1> DEFINE t == RemoveFromSysPath(s, p)
  <1>1. NoPath \notin Paths
    BY DEF Paths, NoPath
  <1>2. s.path \in Seq(Paths) /\ \A m \in Modules : s.modules[m] \in Paths \cup {NotLoaded}
    BY DEF PySet
  <1>3. CASE p = NoPath
    <2>1. t = s
      BY <1>3 DEF RemoveFromSysPath
    <2> HIDE DEF t
    <2>2. /\ t \in PySet /\ Sheds(t, s)
          /\ Coherent(s) => Coherent(t)
          /\ \A q \in Paths : Has(t.path, q) <=> q # p /\ Has(s.path, q)
          /\ \A m \in Modules : t.modules[m] # NotLoaded => t.modules[m] # p
      BY <1>1, <1>2, <1>3, <2>1 DEF Sheds
    <2> QED
      BY <2>2 DEF t
  <1>4. CASE p \in Paths
    <2> DEFINE u == [s EXCEPT !.path = Without(s.path, p)]
    <2>1. u \in PySet /\ u.path = Without(s.path, p) /\ u.modules = s.modules
      BY <1>2, <1>4, HasAfter, WithPath
    <2>2. t = RemoveModuleCache(u, p)
      BY <1>1, <1>4 DEF RemoveFromSysPath
    <2> HIDE DEF t, u
    <2>3. /\ t \in PySet /\ t.path = u.path /\ Sheds(t, u)
          /\ \A m \in Modules : t.modules[m] # NotLoaded => ~Under(t.modules[m], p)
      BY <2>1, <2>2, RemoveModuleCacheFacts
    <2>4. Sheds(t, s)
      BY <2>1, <2>3 DEF Sheds
    <2>5. \A m \in Modules : t.modules[m] # NotLoaded => t.modules[m] # p
      BY <2>3 DEF Under
    <2>6. \A q \in Paths : Has(t.path, q) <=> q # p /\ Has(s.path, q)
      <3>1. t.path = Without(s.path, p)
        BY <2>1, <2>3
      <3>2. \A q : Has(Without(s.path, p), q) <=> q # p /\ Has(s.path, q)
        BY <1>2, <1>4, HasAfter
      <3> QED
        BY <3>1, <3>2
    <2>7. Coherent(s) => Coherent(t)
      <3> SUFFICES ASSUME Coherent(s), NEW m \in Modules, t.modules[m] # NotLoaded
                   PROVE  Leads(t.path, m, t.modules[m])
        BY DEF Coherent
      <3>1. t.modules[m] = s.modules[m] /\ t.modules[m] # p
        BY <2>4, <2>5 DEF Sheds
      <3>2. Leads(s.path, m, t.modules[m])
        BY <3>1 DEF Coherent
      <3> QED
        BY <1>2, <2>1, <2>3, <3>1, <3>2, LeadsWithout
    <2>8. /\ t \in PySet /\ Sheds(t, s)
          /\ Coherent(s) => Coherent(t)
          /\ \A q \in Paths : Has(t.path, q) <=> q # p /\ Has(s.path, q)
          /\ \A m \in Modules : t.modules[m] # NotLoaded => t.modules[m] # p
      BY <2>3, <2>4, <2>5, <2>6, <2>7
    <2> QED
      BY <2>8 DEF t
  <1> QED
    BY <1>3, <1>4

\* What may be added at the front: a path that is there already, or one
\* that no module loaded from elsewhere can be found on.
MayLead(s, p) ==
    \/ p = NoPath
    \/ OnPath(s, p)
    \/ \A m \in Modules : s.modules[m] = NotLoaded

LEMMA AddFacts ==
    ASSUME NEW s \in PySet, NEW p \in Paths \cup {NoPath}, NEW first \in BOOLEAN
    PROVE  LET t == AddToSysPath(s, p, first) IN
           /\ t \in PySet /\ Sheds(t, s)
           /\ Coherent(s) /\ (first => MayLead(s, p)) => Coherent(t)
           /\ \A q \in Paths : Has(t.path, q) <=> q = p \/ Has(s.path, q)
  <1> DEFINE t == AddToSysPath(s, p, first)
  <1>1. NoPath \notin Paths
    BY DEF Paths, NoPath
  <1>2. s.path \in Seq(Paths)
    BY DEF PySet
  <1>3. CASE p = NoPath \/ OnPath(s, p)
    <2>1. t = s
      BY <1>3 DEF AddToSysPath
    <2> HIDE DEF t
    <2>2. /\ t \in PySet /\ Sheds(t, s)
          /\ Coherent(s) /\ (first => MayLead(s, p)) => Coherent(t)
          /\ \A q \in Paths : Has(t.path, q) <=> q = p \/ Has(s.path, q)
      BY <1>1, <1>3, <2>1, HasIsOnPath DEF Sheds
    <2> QED
      BY <2>2 DEF t
  <1>4. CASE p \in Paths /\ ~OnPath(s, p)
    <2> DEFINE long == IF first THEN <<p>> \o s.path ELSE Append(s.path, p)
    <2>1. long \in Seq(Paths)
      BY <1>2, <1>4
    <2>2. \A q \in Paths : Has(long, q) <=> q = p \/ Has(s.path, q)
      BY <1>2, <1>4, HasAfter
    <2>3. ~first => long = Append(s.path, p)
      OBVIOUS
    <2> DEFINE u == [s EXCEPT !.path = long]
    <2>4. t = RemoveModuleCache(u, p)
      BY <1>1, <1>4 DEF AddToSysPath
    <2> HIDE DEF t, long
    <2>5. u \in PySet /\ u.path = long /\ u.modules = s.modules
      BY <2>1, WithPath
    <2> HIDE DEF u
    <2>6. t \in PySet /\ t.path = u.path /\ Sheds(t, u)
      BY <2>4, <2>5, RemoveModuleCacheFacts
    <2>7. Sheds(t, s)
      BY <2>5, <2>6 DEF Sheds
    <2>8. ASSUME Coherent(s), first => MayLead(s, p)
          PROVE  Coherent(t)
      <3> SUFFICES ASSUME NEW m \in Modules, t.modules[m] # NotLoaded
                   PROVE  Leads(t.path, m, t.modules[m])
        BY DEF Coherent
      <3>1. t.modules[m] = s.modules[m]
        BY <2>7 DEF Sheds
      <3>2. ~first
        BY <1>1, <1>4, <2>8, <3>1 DEF MayLead
      <3>3. Leads(s.path, m, t.modules[m])
        BY <2>8, <3>1 DEF Coherent
      <3>4. t.path = Append(s.path, p)
        BY <2>3, <2>5, <2>6, <3>2
      <3>5. Leads(Append(s.path, p), m, t.modules[m])
        BY <1>2, <1>4, <3>3, LeadsAppend
      <3> QED
        BY <3>4, <3>5
    <2>9. /\ t \in PySet /\ Sheds(t, s)
          /\ Coherent(s) /\ (first => MayLead(s, p)) => Coherent(t)
          /\ \A q \in Paths : Has(t.path, q) <=> q = p \/ Has(s.path, q)
      BY <2>2, <2>5, <2>6, <2>7, <2>8
    <2> QED
      BY <2>9 DEF t
  <1> QED
    BY <1>3, <1>4

\* The switch to the customer's packages: the worker's stay on the path.
LEMMA PrioritizeFacts ==
    ASSUME NEW s \in PySet, NEW isolate \in BOOLEAN,
           NEW directory \in Paths \cup {NoPath}, NEW root \in Paths \cup {NoPath},
           {cx_deps_path, cx_working_dir} \subseteq Paths \cup {NoPath},
           worker_deps_path = "worker", Has(s.path, "worker")
    PROVE  LET t == prioritize_customer_dependencies(s, isolate, directory, root) IN
           /\ t \in PySet
           /\ Has(t.path, "worker")
           /\ ~isolate => t = s
           /\ isolate => \A q \in Paths : q = cx_deps_path => Has(t.path, q)
           /\ Coherent(s) /\ (\/ cx_deps_path = NoPath
                              \/ cx_deps_path # "worker" /\ Has(s.path, cx_deps_path)
                              \/ \A m \in Modules : s.modules[m] \in {NotLoaded, "worker"})
              => Coherent(t)
  <1> DEFINE dir == IF directory # NoPath THEN directory
                    ELSE IF cx_working_dir # NoPath THEN cx_working_dir ELSE root
             s1 == RemoveFromSysPath(s, worker_deps_path)
             s2 == AddToSysPath(s1, cx_deps_path, TRUE)
             s3 == AddToSysPath(s2, worker_deps_path, FALSE)
             s4 == AddToSysPath(s3, dir, FALSE)
             t == prioritize_customer_dependencies(s, isolate, directory, root)
             Safe == \/ cx_deps_path = NoPath
                     \/ cx_deps_path # "worker" /\ Has(s.path, cx_deps_path)
                     \/ \A m \in Modules : s.modules[m] \in {NotLoaded, "worker"}
  <1>1. dir \in Paths \cup {NoPath} /\ "worker" \in Paths
    BY DEF Paths
  <1>2. t = IF isolate THEN s4 ELSE s
    BY DEF prioritize_customer_dependencies
  <1> HIDE DEF t, dir
  <1>3. /\ s1 \in PySet /\ Sheds(s1, s)
        /\ Coherent(s) => Coherent(s1)
        /\ \A q \in Paths : Has(s1.path, q) <=> q # "worker" /\ Has(s.path, q)
        /\ \A m \in Modules : s1.modules[m] # NotLoaded => s1.modules[m] # "worker"
    BY <1>1, RemoveFacts
  <1> HIDE DEF s1
  <1>4. /\ s2 \in PySet
        /\ Coherent(s1) /\ MayLead(s1, cx_deps_path) => Coherent(s2)
        /\ \A q \in Paths : Has(s2.path, q) <=> q = cx_deps_path \/ Has(s1.path, q)
    BY <1>3, AddFacts
  <1>5. Coherent(s) /\ Safe => MayLead(s1, cx_deps_path)
    <2> SUFFICES ASSUME Safe, cx_deps_path # NoPath PROVE MayLead(s1, cx_deps_path)
      BY DEF MayLead
    <2>1. CASE cx_deps_path # "worker" /\ Has(s.path, cx_deps_path)
      BY <1>3, <2>1, HasIsOnPath DEF MayLead
    <2>2. CASE \A m \in Modules : s.modules[m] \in {NotLoaded, "worker"}
      BY <1>3, <2>2 DEF MayLead, Sheds
    <2> QED
      BY <2>1, <2>2
  <1> HIDE DEF s2
  <1>6. /\ s3 \in PySet
        /\ Coherent(s2) => Coherent(s3)
        /\ \A q \in Paths : Has(s3.path, q) <=> q = "worker" \/ Has(s2.path, q)
    BY <1>1, <1>4, AddFacts
  <1> HIDE DEF s3
  <1>7. /\ s4 \in PySet
        /\ Coherent(s3) => Coherent(s4)
        /\ \A q \in Paths : Has(s4.path, q) <=> q = dir \/ Has(s3.path, q)
    BY <1>1, <1>6, AddFacts
  <1> HIDE DEF s4
  <1>8. /\ t \in PySet
        /\ Has(t.path, "worker")
        /\ ~isolate => t = s
        /\ isolate => \A q \in Paths : q = cx_deps_path => Has(t.path, q)
        /\ Coherent(s) /\ Safe => Coherent(t)
    BY <1>1, <1>2, <1>3, <1>4, <1>5, <1>6, <1>7
  <1> QED
    BY <1>8 DEF t

LEMMA ImportedFacts ==
    ASSUME NEW s \in PySet, NEW m \in Modules
    PROVE  LET t == Imported(s, m) IN
           /\ t \in PySet /\ t.path = s.path
           /\ Coherent(s) => Coherent(t)
  <1> DEFINE t == Imported(s, m)
  <1>1. CASE s.modules[m] = NotLoaded /\ Finds(s, m) # {}
    <2> DEFINE q == Found(s, m)
    <2>1. t = [s EXCEPT !.modules[m] = q]
      BY <1>1 DEF Imported
    <2> HIDE DEF t
    <2>2. Leads(s.path, m, q) /\ q \in Paths
      BY <1>1, FoundLeads
    <2> HIDE DEF q
    <2>3. /\ t \in PySet /\ t.path = s.path /\ t.modules[m] = q
          /\ \A n \in Modules : n # m => t.modules[n] = s.modules[n]
      BY <2>1, <2>2 DEF PySet
    <2>4. Coherent(s) => Coherent(t)
      BY <2>2, <2>3 DEF Coherent
    <2> QED
      BY <2>3, <2>4 DEF t
  <1>2. CASE ~(s.modules[m] = NotLoaded /\ Finds(s, m) # {})
    <2>1. t = s
      BY <1>2 DEF Imported
    <2> HIDE DEF t
    <2> QED
      BY <2>1 DEF t
  <1> QED
    BY <1>1, <1>2

LEMMA NamespaceFacts ==
    ASSUME NEW s \in PySet
    PROVE  LET t == reload_azure_google_namespace(s) IN t \in PySet /\ t.path = s.path
  <1> DEFINE f == [m \in Modules |->
                        IF m \in Reloaded /\ s.modules[m] # NotLoaded /\ Finds(s, m) # {}
                        THEN Found(s, m) ELSE s.modules[m]]
  <1>1. \A m \in Modules : s.modules[m] \in Paths \cup {NotLoaded}
    BY DEF PySet
  <1>2. f \in [Modules -> Paths \cup {NotLoaded}]
    BY <1>1, FoundLeads
  <1>3. reload_azure_google_namespace(s) = [s EXCEPT !.modules = f]
    BY DEF reload_azure_google_namespace
  <1> HIDE DEF f
  <1> QED
    BY <1>2, <1>3 DEF PySet

(* The invariant **********************************************************)

\* What main computed; nothing is imported before it.
Attributes ==
    IF phase = "started"
    THEN \A m \in Modules : py.modules[m] = NotLoaded
    ELSE worker_deps_path = "worker" /\ cx_deps_path \in {"deps", NoPath}

WorkerStays == Has(py.path, "worker")

\* Until the switch the customer's packages are on the path, or nothing is
\* but the worker's.
SwitchIsSafe ==
    phase \in {"main", "initialized"} =>
        \/ cx_deps_path = NoPath
        \/ Has(py.path, "deps")
        \/ \A q \in Paths : Has(py.path, q) => q = "worker"

\* Only a reload without isolation may leave a module that an import would
\* find elsewhere.
StaysCoherent == phase # "reloaded" \/ env.isolate => Coherent(py)

IInv == TypeOK /\ Attributes /\ WorkerStays /\ SwitchIsSafe /\ StaysCoherent

LEMMA PyIsTyped == TypeOK => py \in PySet
  BY DEF TypeOK, PySet

LEMMA InitHolds == Init => IInv
  <1> SUFFICES ASSUME Init PROVE IInv
    OBVIOUS
  <1>1. PICK layout \in Layouts :
            py = [path |-> layout, modules |-> [m \in Modules |-> NotLoaded]]
    BY DEF Init
  <1>2. layout \in Seq(Paths) /\ "worker" \in ToSet(layout)
    OBVIOUS
  <1>3. py.path = layout /\ \A m \in Modules : py.modules[m] = NotLoaded
    BY <1>1
  <1>4. py \in PySet
    BY <1>1, <1>2 DEF PySet
  <1>5. TypeOK
    BY <1>4 DEF Init, TypeOK, Phases, PySet
  <1>6. WorkerStays
    BY <1>2, <1>3 DEF WorkerStays, Has, ToSet
  <1>7. Attributes /\ SwitchIsSafe /\ StaysCoherent
    BY <1>3 DEF Init, Attributes, SwitchIsSafe, StaysCoherent, Coherent
  <1> QED
    BY <1>5, <1>6, <1>7 DEF IInv

LEMMA MainKeeps == IInv /\ Main => IInv'
  <1> SUFFICES ASSUME IInv, Main PROVE IInv'
    OBVIOUS
  <1> USE DEF IInv
  <1>1. py \in PySet /\ env \in Environments
    BY PyIsTyped DEF TypeOK
  <1>2. cx_deps_path' \in {"deps", NoPath} /\ (cx_deps_path' = "deps" => OnPath(py, "deps"))
    BY DEF Main, GetCxDepsPath, NoPath
  <1>3. cx_deps_path' = "deps" => cx_working_dir' = "dir"
    BY <1>1 DEF Main, GetCxDepsPath, Environments, NoPath
  <1>4. cx_working_dir' \in {"dir", NoPath} /\ env.isolate \in BOOLEAN
    BY <1>1 DEF Main, Environments
  <1>5. /\ phase = "started" /\ phase' = "main" /\ env' = env
        /\ worker_deps_path' = "worker"
    BY DEF Main
  <1>6. \A m \in Modules : py.modules[m] = NotLoaded
    BY <1>5 DEF Attributes
  <1> DEFINE deps == cx_deps_path'
             dir == cx_working_dir'
             s1 == RemoveFromSysPath(py, deps)
             s2 == RemoveFromSysPath(s1, dir)
             s3 == AddToSysPath(s2, "worker", TRUE)
  <1>7. py' = IF env.isolate THEN s3 ELSE py
    BY <1>5 DEF Main, use_worker_dependencies
  <1>8. deps \in Paths \cup {NoPath} /\ dir \in Paths \cup {NoPath} /\ "worker" \in Paths
    BY <1>2, <1>4 DEF Paths
  <1> HIDE DEF deps, dir
  <1>9. /\ s1 \in PySet /\ Sheds(s1, py)
        /\ \A q \in Paths : Has(s1.path, q) <=> q # deps /\ Has(py.path, q)
    BY <1>1, <1>8, RemoveFacts
  <1> HIDE DEF s1
  <1>10. /\ s2 \in PySet /\ Sheds(s2, s1)
         /\ \A q \in Paths : Has(s2.path, q) <=> q # dir /\ Has(s1.path, q)
    BY <1>8, <1>9, RemoveFacts
  <1> HIDE DEF s2
  <1>11. /\ s3 \in PySet /\ Sheds(s3, s2)
         /\ \A q \in Paths : Has(s3.path, q) <=> q = "worker" \/ Has(s2.path, q)
    BY <1>8, <1>10, AddFacts
  <1> HIDE DEF s3
  <1>12. \A m \in Modules : s3.modules[m] = NotLoaded
    BY <1>6, <1>9, <1>10, <1>11 DEF Sheds
  <1>13. py' \in PySet /\ \A m \in Modules : py'.modules[m] = NotLoaded
    BY <1>1, <1>6, <1>7, <1>11, <1>12
  <1>14. TypeOK'
    BY <1>4, <1>5, <1>8, <1>13 DEF TypeOK, PySet, Phases, deps, dir
  <1>15. Attributes'
    BY <1>2, <1>5 DEF Attributes
  <1>16. WorkerStays'
    BY <1>7, <1>8, <1>11 DEF WorkerStays
  <1>17. SwitchIsSafe'
    <2> SUFFICES ASSUME deps # NoPath
                 PROVE  Has(py'.path, "deps") \/ \A q \in Paths : Has(py'.path, q) => q = "worker"
      BY <1>2 DEF SwitchIsSafe, deps
    <2>1. deps = "deps" /\ dir = "dir"
      BY <1>2, <1>3 DEF deps, dir
    <2>2. CASE env.isolate
      <3>1. \A q \in Paths : Has(s3.path, q) => q = "worker"
        BY <1>9, <1>10, <1>11, <2>1 DEF Paths
      <3> QED
        BY <1>7, <2>2, <3>1
    <2>3. CASE ~env.isolate
      <3>1. Has(py.path, "deps")
        BY <1>1, <1>2, <2>1, HasIsOnPath DEF deps
      <3> QED
        BY <1>7, <2>3, <3>1
    <2> QED
      BY <2>2, <2>3
  <1>18. StaysCoherent'
    BY <1>13 DEF StaysCoherent, Coherent
  <1> QED
    BY <1>14, <1>15, <1>16, <1>17, <1>18

LEMMA WorkerInitKeeps == IInv /\ WorkerInit => IInv'
  <1> SUFFICES ASSUME IInv, WorkerInit PROVE IInv'
    OBVIOUS
  <1> USE DEF IInv
  <1>1. py \in PySet /\ env \in Environments
    BY PyIsTyped DEF TypeOK
  <1>2. /\ phase = "main" /\ phase' = "initialized"
        /\ UNCHANGED <<env, cx_deps_path, cx_working_dir, worker_deps_path>>
    BY DEF WorkerInit
  <1>3. /\ worker_deps_path = "worker" /\ cx_deps_path \in {"deps", NoPath}
        /\ {cx_deps_path, cx_working_dir} \subseteq Paths \cup {NoPath}
    BY <1>2 DEF Attributes, TypeOK
  <1>4. /\ env.isolate \in BOOLEAN /\ env.script_root \in Paths \cup {NoPath}
        /\ NoPath \in Paths \cup {NoPath}
    BY <1>1 DEF Environments, Paths
  <1>5. Coherent(py)
    BY <1>2 DEF StaysCoherent
  <1> DEFINE t == prioritize_customer_dependencies(py, env.isolate, NoPath, env.script_root)
             s == IF should_load_cx_dependencies THEN t ELSE py
  <1>6. \/ cx_deps_path = NoPath
        \/ cx_deps_path # "worker" /\ Has(py.path, cx_deps_path)
        \/ \A m \in Modules : py.modules[m] \in {NotLoaded, "worker"}
    <2>1. CASE \A q \in Paths : Has(py.path, q) => q = "worker"
      <3>1. \A m \in Modules : py.modules[m] # NotLoaded =>
                /\ py.modules[m] \in Paths
                /\ Has(py.path, py.modules[m])
        BY <1>1, <1>5, LeadsHas DEF Coherent, PySet
      <3> QED
        BY <2>1, <3>1
    <2>2. CASE cx_deps_path = "deps" /\ Has(py.path, "deps")
      BY <2>2
    <2> QED
      BY <1>2, <1>3, <2>1, <2>2 DEF SwitchIsSafe
  <1>7. /\ t \in PySet /\ Has(t.path, "worker") /\ Coherent(t)
        /\ ~env.isolate => t = py
        /\ env.isolate => \A q \in Paths : q = cx_deps_path => Has(t.path, q)
    BY <1>1, <1>3, <1>4, <1>5, <1>6, PrioritizeFacts DEF WorkerStays
  <1>8. py' = Imported(s, AzureFunctions)
    BY DEF WorkerInit
  <1> HIDE DEF t
  <1>9. s \in PySet /\ Has(s.path, "worker") /\ Coherent(s)
    BY <1>1, <1>5, <1>7 DEF WorkerStays
  <1>10. \/ cx_deps_path = NoPath
         \/ Has(s.path, "deps")
         \/ \A q \in Paths : Has(s.path, q) => q = "worker"
    <2>1. "deps" \in Paths
      BY DEF Paths
    <2>2. \/ cx_deps_path = NoPath
          \/ Has(py.path, "deps")
          \/ \A q \in Paths : Has(py.path, q) => q = "worker"
      BY <1>2 DEF SwitchIsSafe
    <2>3. CASE s = py
      BY <2>2, <2>3
    <2>4. CASE s = t /\ env.isolate
      BY <1>3, <1>7, <2>1, <2>4
    <2> QED
      BY <1>4, <1>7, <2>3, <2>4
  <1> HIDE DEF s
  <1>11. py' \in PySet /\ py'.path = s.path /\ Coherent(py')
    BY <1>8, <1>9, ImportedFacts
  <1>12. TypeOK'
    BY <1>2, <1>11 DEF TypeOK, PySet, Phases
  <1>13. Attributes' /\ WorkerStays' /\ SwitchIsSafe' /\ StaysCoherent'
    BY <1>2, <1>3, <1>9, <1>10, <1>11
       DEF Attributes, WorkerStays, SwitchIsSafe, StaysCoherent
  <1> QED
    BY <1>12, <1>13

LEMMA EnvironmentReloadKeeps ==
    ASSUME IInv, NEW isolate \in BOOLEAN, EnvironmentReload(isolate)
    PROVE  IInv'
  <1> USE DEF IInv
  <1>1. py \in PySet
    BY PyIsTyped
  <1>2. /\ phase = "initialized" /\ phase' = "reloaded"
        /\ UNCHANGED <<cx_deps_path, cx_working_dir, worker_deps_path>>
        /\ env' = [script_root |-> "dir", isolate |-> isolate,
                   container |-> TRUE, placeholder |-> FALSE]
    BY DEF EnvironmentReload
  <1>3. /\ worker_deps_path = "worker" /\ cx_deps_path \in {"deps", NoPath}
        /\ {cx_deps_path, cx_working_dir} \subseteq Paths \cup {NoPath}
    BY <1>2 DEF Attributes, TypeOK
  <1>4. Coherent(py)
    BY <1>2 DEF StaysCoherent
  <1>5. "dir" \in Paths /\ "worker" \in Paths /\ "deps" \in Paths /\ py.path \in Seq(Paths)
    BY <1>1 DEF Paths, PySet
  <1> DEFINE s == [py EXCEPT !.path = Append(py.path, "dir")]
             t == prioritize_customer_dependencies(s, isolate, "dir", "dir")
             u == reload_azure_google_namespace(s)
             v == IF isolate THEN t ELSE u
  <1>6. s \in PySet /\ s.path = Append(py.path, "dir") /\ s.modules = py.modules
    BY <1>1, <1>5, HasAfter, WithPath
  <1>7. py' = Imported(v, AzureFunctions)
    BY DEF EnvironmentReload, reload_customer_libraries
  <1> HIDE DEF s
  <1>8. Coherent(s)
    BY <1>4, <1>5, <1>6, LeadsAppend DEF Coherent
  <1>9. \A q : Has(s.path, q) <=> q = "dir" \/ Has(py.path, q)
    <2>1. \A q : Has(Append(py.path, "dir"), q) <=> q = "dir" \/ Has(py.path, q)
      BY <1>5, HasAfter
    <2> QED
      BY <1>6, <2>1
  <1>10. \/ cx_deps_path = NoPath
         \/ cx_deps_path # "worker" /\ Has(s.path, cx_deps_path)
         \/ \A m \in Modules : s.modules[m] \in {NotLoaded, "worker"}
    <2>1. CASE \A q \in Paths : Has(py.path, q) => q = "worker"
      <3>1. \A m \in Modules : py.modules[m] # NotLoaded =>
                /\ py.modules[m] \in Paths
                /\ Has(py.path, py.modules[m])
        BY <1>1, <1>4, LeadsHas DEF Coherent, PySet
      <3> QED
        BY <1>6, <2>1, <3>1
    <2>2. CASE cx_deps_path = "deps" /\ Has(py.path, "deps")
      BY <1>9, <2>2
    <2> QED
      BY <1>2, <1>3, <2>1, <2>2 DEF SwitchIsSafe
  <1>11. Has(s.path, "worker")
    BY <1>9 DEF WorkerStays
  <1>12. t \in PySet /\ Has(t.path, "worker") /\ Coherent(t)
    BY <1>3, <1>5, <1>6, <1>8, <1>10, <1>11, PrioritizeFacts
  <1>13. u \in PySet /\ u.path = s.path
    BY <1>6, NamespaceFacts
  <1> HIDE DEF t, u
  <1>14. v \in PySet /\ Has(v.path, "worker") /\ (isolate => Coherent(v))
    BY <1>11, <1>12, <1>13
  <1> HIDE DEF v
  <1>15. py' \in PySet /\ py'.path = v.path /\ (isolate => Coherent(py'))
    BY <1>7, <1>14, ImportedFacts
  <1>16. TypeOK'
    BY <1>2, <1>15 DEF TypeOK, PySet, Phases, Environments
  <1>17. Attributes' /\ WorkerStays' /\ SwitchIsSafe' /\ StaysCoherent'
    BY <1>2, <1>3, <1>14, <1>15
       DEF Attributes, WorkerStays, SwitchIsSafe, StaysCoherent
  <1> QED
    BY <1>16, <1>17

LEMMA ImportKeeps ==
    ASSUME IInv, NEW m \in Modules, Import(m)
    PROVE  IInv'
  <1> USE DEF IInv
  <1>1. py \in PySet
    BY PyIsTyped
  <1>2. /\ phase # "started" /\ py' = Imported(py, m)
        /\ UNCHANGED <<phase, env, cx_deps_path, cx_working_dir, worker_deps_path>>
    BY DEF Import
  <1>3. py' \in PySet /\ py'.path = py.path /\ (Coherent(py) => Coherent(py'))
    BY <1>1, <1>2, ImportedFacts
  <1>4. TypeOK'
    BY <1>2, <1>3 DEF TypeOK, PySet
  <1>5. Attributes' /\ WorkerStays' /\ SwitchIsSafe' /\ StaysCoherent'
    BY <1>2, <1>3 DEF Attributes, WorkerStays, SwitchIsSafe, StaysCoherent
  <1> QED
    BY <1>4, <1>5

\* Every step keeps the invariant.
THEOREM Invariance == Spec => []IInv
  <1>1. IInv /\ [Next]_vars => IInv'
    <2> SUFFICES ASSUME IInv, [Next]_vars PROVE IInv'
      OBVIOUS
    <2>1. CASE Main
      BY <2>1, MainKeeps
    <2>2. CASE WorkerInit
      BY <2>2, WorkerInitKeeps
    <2>3. ASSUME NEW isolate \in BOOLEAN, EnvironmentReload(isolate)
          PROVE  IInv'
      BY <2>3, EnvironmentReloadKeeps
    <2>4. ASSUME NEW m \in Modules, Import(m)
          PROVE  IInv'
      BY <2>4, ImportKeeps
    <2>5. CASE UNCHANGED vars
      BY <2>5 DEF vars, IInv, TypeOK, Attributes, WorkerStays, SwitchIsSafe,
                  StaysCoherent, Coherent
    <2> QED
      BY <2>1, <2>2, <2>3, <2>4, <2>5 DEF Next
  <1> QED
    BY InitHolds, <1>1, PTL DEF Spec

(* The properties *********************************************************)

\* Only paths the worker was given enter sys.path, the empty one never does,
\* and a module is loaded from one of them.
THEOREM TypeCorrect == Spec => []TypeOK
  <1>1. IInv => TypeOK
    BY DEF IInv
  <1> QED
    BY Invariance, <1>1, PTL

\* After a switch to the customer's packages each loaded module is the one an
\* import would find: none of the worker's copies hides the customer's.
THEOREM CacheCoherentAlways == Spec => []CacheCoherent
  <1>1. IInv => CacheCoherent
    <2> SUFFICES ASSUME IInv, Prioritized, NEW m \in Modules, py.modules[m] # NotLoaded
                 PROVE  Finds(py, m) # {} /\ py.modules[m] = Found(py, m)
      BY DEF CacheCoherent
    <2>1. py \in PySet /\ Coherent(py)
      BY PyIsTyped DEF IInv, StaysCoherent, Prioritized
    <2>2. Leads(py.path, m, py.modules[m])
      BY <2>1 DEF Coherent
    <2> QED
      BY <2>1, <2>2, LeadsIsFound
  <1> QED
    BY Invariance, <1>1, PTL

\* The packages the worker is shipped with can be imported at any time.
THEOREM WorkerPackagesFoundAlways == Spec => []WorkerPackagesFound
  <1>1. IInv => WorkerPackagesFound
    BY DEF IInv, WorkerStays, WorkerPackagesFound, Has, Finds
  <1> QED
    BY Invariance, <1>1, PTL

=============================================================================
