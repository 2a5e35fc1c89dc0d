----------------------- MODULE FunctionRegistryProofs -----------------------
(***************************************************************************)
(* Proofs about FunctionRegistry: whatever functions are added, in whatever*)
(* order, with whatever bindings, annotations and converters, the registry *)
(* satisfies TypeOK, CallMatchesSignature, HttpTriggerRecognised,          *)
(* OrderIndependent and StaysRegistered.                                   *)
(***************************************************************************)
EXTENDS FunctionRegistry, FiniteSetTheorems, WellFoundedInduction, TLAPS

\* An entry is what was made of a function that passed the checks.
Entries ==
    \A id \in Registered :
        /\ IsFunction(source[id]) /\ Accepted(source[id])
        /\ functions[id] = FunctionInfo(source[id])

\* The flag was set when a function with deferred bindings was registered.
FlagSet ==
    (\E id \in Registered : functions[id].deferred_bindings_enabled) => deferred_bindings_enabled

Types ==
    /\ Registered \subseteq Ids
    /\ DOMAIN source = Registered
    /\ deferred_bindings_enabled \in BOOLEAN
    /\ http_v2 \in BOOLEAN
    /\ loads \in 0..Len(Candidates)

IInv == Types /\ Entries /\ FlagSet

(* The bindings of a function *********************************************)

\* A set of naturals has a least one.
LEMMA LeastNumber ==
    ASSUME NEW T, T \subseteq Nat, T # {}
    PROVE  \E i \in T : \A j \in T : i <= j
  <1> DEFINE R == OpToRel(<, Nat)
  <1>1. IsWellFoundedOn(R, Nat)
    BY NatLessThanWellFounded
  <1>2. PICK x \in T : \A y \in T : ~(<<y, x>> \in R)
    BY <1>1, WFMin
  <1>3. \A y \in T : ~(y < x)
    BY <1>2 DEF OpToRel
  <1> QED
    BY <1>3

\* A set of places has a last one.
LEMMA PlacesHaveLast ==
    ASSUME NEW n \in Nat, NEW S \in SUBSET (1..n), S # {}
    PROVE  \E i \in S : \A j \in S : j <= i
  <1> DEFINE T == {n - i : i \in S}
  <1>1. T \subseteq Nat /\ T # {}
    <2>1. \A i \in S : n - i \in Nat
      OBVIOUS
    <2>2. T \subseteq Nat
      BY <2>1
    <2>3. PICK i : i \in S
      OBVIOUS
    <2>4. n - i \in T
      BY <2>3
    <2> QED
      BY <2>2, <2>4
  <1>2. PICK x \in T : \A y \in T : x <= y
    <2> HIDE DEF T
    <2> QED
      BY <1>1, LeastNumber
  <1>3. PICK i \in S : x = n - i
    OBVIOUS
  <1>4. ASSUME NEW j \in S
        PROVE  j <= i
    <2>1. n - i <= n - j
      BY <1>2, <1>3
    <2>2. n \in Int /\ i \in Int /\ j \in Int
      OBVIOUS
    <2> HIDE DEF T
    <2> QED
      BY SMTT(60), <2>1, <2>2
  <1> QED
    BY <1>4

Places(f) == 1..Len(f.bindings)

LastPlace(f, i) ==
    /\ i \in Places(f)
    /\ \A j \in (i + 1)..Len(f.bindings) : f.bindings[j].name # f.bindings[i].name

\* The binding that is kept of a name, the host's and the registry's.
LEMMA BoundIsLast ==
    ASSUME NEW f, IsFunction(f), NEW name, \E i \in Places(f) : f.bindings[i].name = name
    PROVE  \E i : LastPlace(f, i) /\ f.bindings[i].name = name /\ Bound(f, name) = f.bindings[i]
  <1> DEFINE n == Len(f.bindings)
             S == {i \in 1..n : f.bindings[i].name = name}
             P(i) == /\ f.bindings[i].name = name
                     /\ \A j \in (i + 1)..n : f.bindings[j].name # name
             c == CHOOSE i \in 1..n : P(i)
  <1>1. n \in Nat
    BY DEF IsFunction
  <1>2. S \in SUBSET (1..n) /\ S # {}
    BY DEF Places
  <1>3. PICK i \in S : \A j \in S : j <= i
    BY <1>1, <1>2, PlacesHaveLast
  <1>4. i \in 1..n /\ P(i)
    BY <1>1, <1>3
  <1>5. c \in 1..n /\ P(c)
    BY <1>4
  <1>6. Bound(f, name) = f.bindings[c]
    BY DEF Bound
  <1> HIDE DEF c
  <1> QED
    BY <1>5, <1>6 DEF LastPlace, Places

LEMMA OneLast ==
    ASSUME NEW f, IsFunction(f), NEW i, NEW j, LastPlace(f, i), LastPlace(f, j),
           f.bindings[i].name = f.bindings[j].name
    PROVE  i = j
  BY DEF LastPlace, Places, IsFunction

LEMMA HostBinding ==
    ASSUME NEW f, IsFunction(f), NEW b
    PROVE  /\ b \in HostBindings(f) <=> \E i : LastPlace(f, i) /\ b = f.bindings[i]
           /\ b \in HostBindings(f) => Bound(f, b.name) = b
           /\ b \in HostBindings(f) => \E i \in Places(f) : b = f.bindings[i]
  <1>1. b \in HostBindings(f) <=> \E i : LastPlace(f, i) /\ b = f.bindings[i]
    BY DEF HostBindings, LastPlace, Places
  <1>2. ASSUME NEW i, LastPlace(f, i), b = f.bindings[i]
        PROVE  Bound(f, b.name) = b
    <2>1. i \in Places(f)
      BY <1>2 DEF LastPlace
    <2>2. PICK j : LastPlace(f, j) /\ f.bindings[j].name = b.name /\ Bound(f, b.name) = f.bindings[j]
      BY <1>2, <2>1, BoundIsLast
    <2> QED
      BY <1>2, <2>2, OneLast
  <1> QED
    BY <1>1, <1>2 DEF LastPlace

\* The names of the host's bindings, but for the return value, are the bound
\* parameters, and each has the binding the registry kept.
LEMMA HostNames ==
    ASSUME NEW f, IsFunction(f), NEW p
    PROVE  p \in BoundNames(f) <=>
                p # "$return" /\ \E b \in HostBindings(f) : b.name = p /\ b = Bound(f, p)
  <1>1. ASSUME p \in BoundNames(f)
        PROVE  p # "$return" /\ \E b \in HostBindings(f) : b.name = p /\ b = Bound(f, p)
    <2>1. p # "$return" /\ \E i \in Places(f) : f.bindings[i].name = p
      BY <1>1 DEF BoundNames, Places
    <2>2. PICK i : LastPlace(f, i) /\ f.bindings[i].name = p /\ Bound(f, p) = f.bindings[i]
      BY <2>1, BoundIsLast
    <2>3. f.bindings[i] \in HostBindings(f)
      BY <2>2, HostBinding
    <2> QED
      BY <2>1, <2>2, <2>3
  <1>2. ASSUME p # "$return", NEW b \in HostBindings(f), b.name = p
        PROVE  p \in BoundNames(f)
    <2>1. PICK i \in Places(f) : b = f.bindings[i]
      BY HostBinding
    <2> QED
      BY <1>2, <2>1 DEF BoundNames, Places
  <1> QED
    BY <1>1, <1>2

LEMMA Directed ==
    ASSUME NEW f, IsFunction(f), Accepted(f), NEW b \in HostBindings(f)
    PROVE  /\ b.direction \in {"in", "out"}
           /\ b.name = "$return" => b.direction = "out"
  <1>1. PICK i \in Places(f) : b = f.bindings[i]
    BY HostBinding
  <1> QED
    BY <1>1 DEF Accepted, ValidDirection, IsFunction, Directions, Places

\* The parameters the handler passes are the inputs and the outputs the host
\* was told of.
LEMMA HostParameters ==
    ASSUME NEW f, IsFunction(f), Accepted(f)
    PROVE  LET outputs == {p \in Params(f) : Bound(f, p).direction = "out"}
               sent == {b.name : b \in {b \in HostBindings(f) : b.direction = "in"}}
               expected == {b.name : b \in {b \in HostBindings(f) : b.direction = "out"}}
           IN /\ sent = Params(f) \ outputs
              /\ expected \ {"$return"} = outputs
              /\ sent \cup outputs = Params(f)
  <1> DEFINE outputs == {p \in Params(f) : Bound(f, p).direction = "out"}
             sent == {b.name : b \in {b \in HostBindings(f) : b.direction = "in"}}
             expected == {b.name : b \in {b \in HostBindings(f) : b.direction = "out"}}
  <1>1. Params(f) = BoundNames(f)
    BY DEF Accepted
  <1>2. \A p : p \in sent <=> \E b \in HostBindings(f) : b.direction = "in" /\ b.name = p
    OBVIOUS
  <1>3. \A p : p \in expected <=> \E b \in HostBindings(f) : b.direction = "out" /\ b.name = p
    OBVIOUS
  <1>4. \A p : p \in outputs <=> p \in BoundNames(f) /\ Bound(f, p).direction = "out"
    BY <1>1
  <1> HIDE DEF outputs, sent, expected
  <1>5. ASSUME NEW p
        PROVE  /\ p \in sent <=> p \in Params(f) \ outputs
               /\ p \in expected \ {"$return"} <=> p \in outputs
    <2>1. ASSUME NEW b \in HostBindings(f), b.name = p, p # "$return"
          PROVE  p \in BoundNames(f) /\ Bound(f, p) = b /\ b.direction \in {"in", "out"}
      BY <2>1, HostNames, HostBinding, Directed
    <2>2. p \in sent => p \in Params(f) \ outputs
      BY <1>1, <1>2, <1>4, <2>1, Directed
    <2>3. p \in expected \ {"$return"} => p \in outputs
      BY <1>3, <1>4, <2>1
    <2>4. ASSUME p \in BoundNames(f)
          PROVE  \E b \in HostBindings(f) : b.name = p /\ b = Bound(f, p) /\ p # "$return"
                                                /\ b.direction \in {"in", "out"}
      BY <2>4, HostNames, Directed
    <2>5. p \in Params(f) \ outputs => p \in sent
      BY <1>1, <1>2, <1>4, <2>4
    <2>6. p \in outputs => p \in expected \ {"$return"}
      BY <1>3, <1>4, <2>4
    <2> QED
      BY <2>2, <2>3, <2>5, <2>6
  <1>6. outputs \subseteq Params(f)
    BY <1>1, <1>4
  <1> QED
    BY <1>5, <1>6 DEF outputs, sent, expected

LEMMA InfoFields ==
    ASSUME NEW f
    PROVE  LET outputs == {p \in Params(f) : Bound(f, p).direction = "out"}
               info == FunctionInfo(f)
           IN /\ info.requires_context = RequiresContext(f)
              /\ info.requires_context \in BOOLEAN
              /\ info.has_return \in BOOLEAN
              /\ info.deferred_bindings_enabled \in BOOLEAN
              /\ info.input_types = [p \in Params(f) \ outputs |-> TypeInfo(f, p)]
              /\ info.output_types = [p \in outputs |-> TypeInfo(f, p)]
              /\ info.trigger_param = HttpTriggerParam(info.input_types)
  <1> DEFINE outputs == {p \in Params(f) : Bound(f, p).direction = "out"}
             inputs == [p \in Params(f) \ outputs |-> TypeInfo(f, p)]
             hasReturn == HasExplicitReturn(f) \/ HasImplicitReturn(f)
             deferred == \E p \in Params(f) : SupportsDeferred(f.params[p])
             return == IF hasReturn THEN ReturnBinding(f).type ELSE None
             trigger == HttpTriggerParam(inputs)
  <1>1. FunctionInfo(f) =
            [requires_context |-> RequiresContext(f), has_return |-> hasReturn,
             deferred_bindings_enabled |-> deferred, input_types |-> inputs,
             output_types |-> [p \in outputs |-> TypeInfo(f, p)],
             return_type |-> return, trigger_param |-> trigger]
    BY DEF FunctionInfo
  <1>2. RequiresContext(f) \in BOOLEAN /\ hasReturn \in BOOLEAN /\ deferred \in BOOLEAN
    BY DEF RequiresContext
  <1> HIDE DEF outputs, inputs, hasReturn, deferred, return, trigger
  <1>3. /\ FunctionInfo(f).requires_context = RequiresContext(f)
        /\ FunctionInfo(f).has_return = hasReturn
        /\ FunctionInfo(f).deferred_bindings_enabled = deferred
        /\ FunctionInfo(f).input_types = inputs
        /\ FunctionInfo(f).output_types = [p \in outputs |-> TypeInfo(f, p)]
        /\ FunctionInfo(f).trigger_param = trigger
    BY <1>1
  <1> QED
    BY <1>2, <1>3 DEF inputs, outputs, trigger

(* The return value *******************************************************)

\* What is true of 0 and passes from a number to the next is true of all of
\* them: T is the set of those for which it is not.
LEMMA NoLeastNumber ==
    ASSUME NEW T, T \subseteq Nat, 0 \notin T,
           \A n \in Nat : n + 1 \in T => n \in T
    PROVE  T = {}
  <1> SUFFICES ASSUME T # {} PROVE FALSE
    OBVIOUS
  <1>1. PICK i \in T : \A j \in T : i <= j
    BY LeastNumber
  <1>2. i - 1 \in Nat /\ (i - 1) + 1 = i
    OBVIOUS
  <1>3. i - 1 \in T
    BY <1>2
  <1> QED
    BY <1>1, <1>3

\* The loop over the bindings, up to place n.
Undecided == [type |-> None, explicit |-> FALSE]

LoopTo(f, n, F) ==
    F = [i \in 0..n |-> IF i = 0 THEN Undecided ELSE get_return_binding(F[i - 1], f.bindings[i])]

LEMMA LoopExists ==
    ASSUME NEW f, NEW n \in Nat
    PROVE  \E F : LoopTo(f, n, F)
  <1> DEFINE T == {k \in Nat : ~\E F : LoopTo(f, k, F)}
  <1>1. 0 \notin T
    <2> DEFINE F0 == [i \in 0..0 |-> Undecided]
    <2>1. LoopTo(f, 0, F0)
      BY DEF LoopTo
    <2> QED
      BY <2>1
  <1>2. ASSUME NEW k \in Nat, k \notin T
        PROVE  k + 1 \notin T
    <2>1. PICK F : LoopTo(f, k, F)
      BY <1>2
    <2> DEFINE last == get_return_binding(F[k], f.bindings[k + 1])
               G == [i \in 0..(k + 1) |-> IF i = k + 1 THEN last ELSE F[i]]
               H == [i \in 0..(k + 1) |->
                        IF i = 0 THEN Undecided ELSE get_return_binding(G[i - 1], f.bindings[i])]
    <2>2. \A i \in 0..k : G[i] = F[i]
      OBVIOUS
    <2>3. G[k + 1] = last
      OBVIOUS
    <2>4. ASSUME NEW i \in 0..k
          PROVE  F[i] = IF i = 0 THEN Undecided ELSE get_return_binding(F[i - 1], f.bindings[i])
      BY <2>1, <2>4 DEF LoopTo
    <2>5. ASSUME NEW i \in 0..(k + 1)
          PROVE  G[i] = H[i]
      <3>1. H[i] = IF i = 0 THEN Undecided ELSE get_return_binding(G[i - 1], f.bindings[i])
        OBVIOUS
      <3>2. i = 0 \/ i - 1 \in 0..k
        OBVIOUS
      <3>3. i = 0 \/ G[i - 1] = F[i - 1]
        BY <2>2, <3>2
      <3>4. CASE i = k + 1
        <4>1. i # 0 /\ i - 1 = k
          BY <3>4
        <4>2. G[i - 1] = F[k]
          BY <3>3, <4>1
        <4> HIDE DEF G, H
        <4> QED
          BY <2>3, <3>1, <3>4, <4>1, <4>2
      <3>5. CASE i # k + 1
        <4>1. i \in 0..k
          BY <3>5
        <4>2. G[i] = F[i]
          BY <2>2, <4>1
        <4> HIDE DEF G, H
        <4> QED
          BY <2>4, <3>1, <3>3, <4>1, <4>2
      <3> QED
        BY <3>4, <3>5
    <2>6. G = H
      <3>1. G = [i \in 0..(k + 1) |-> G[i]] /\ H = [i \in 0..(k + 1) |-> H[i]]
        OBVIOUS
      <3> HIDE DEF G, H
      <3> QED
        BY <2>5, <3>1
    <2>7. LoopTo(f, k + 1, G)
      <3> HIDE DEF G
      <3> QED
        BY <2>6 DEF LoopTo
    <2> QED
      BY <2>7
  <1>3. T = {}
    <2> HIDE DEF T
    <2>1. T \subseteq Nat
      BY DEF T
    <2> QED
      BY <1>1, <1>2, <2>1, NoLeastNumber
  <1> QED
    BY <1>3

IsReturn(f, i) == f.bindings[i].name = "$return"

IsImplicit(f, i) == ~IsReturn(f, i) /\ has_implicit_output(f.bindings[i].type)

\* What the loop knows after n bindings: the type of a "$return", or else of a
\* binding with an implicit output, if there is one.
Decided(f, n, s) ==
    /\ s \in [type : {s.type}, explicit : BOOLEAN]
    /\ s.explicit <=> \E i \in 1..n : IsReturn(f, i)
    /\ s.explicit => \E i \in 1..n : IsReturn(f, i) /\ s.type = f.bindings[i].type
    /\ ~s.explicit /\ (\E i \in 1..n : IsImplicit(f, i)) =>
           \E i \in 1..n : IsImplicit(f, i) /\ s.type = f.bindings[i].type

LEMMA DecidedNext ==
    ASSUME NEW f, NEW n \in Nat, NEW s, Decided(f, n, s)
    PROVE  Decided(f, n + 1, get_return_binding(s, f.bindings[n + 1]))
  <1> DEFINE b == f.bindings[n + 1]
             t == get_return_binding(s, b)
  <1>0. \A i : i \in 1..(n + 1) <=> i \in 1..n \/ i = n + 1
    OBVIOUS
  <1>1. /\ IsReturn(f, n + 1) <=> b.name = "$return"
        /\ IsImplicit(f, n + 1) <=> b.name # "$return" /\ has_implicit_output(b.type)
    BY DEF IsReturn, IsImplicit
  <1>2. CASE s.explicit
    <2>1. t = s
      BY <1>2 DEF get_return_binding
    <2> HIDE DEF t
    <2> QED
      BY <1>0, <1>2, <2>1 DEF Decided, t
  <1>3. CASE ~s.explicit /\ b.name = "$return"
    <2>1. t = [type |-> b.type, explicit |-> TRUE]
      BY <1>3 DEF get_return_binding
    <2>2. t.type = b.type /\ t.explicit /\ t \in [type : {t.type}, explicit : BOOLEAN]
      BY <2>1
    <2> HIDE DEF t
    <2>3. Decided(f, n + 1, t)
      BY <1>0, <1>1, <1>3, <2>2 DEF Decided
    <2> QED
      BY <2>3 DEF t
  <1>4. CASE ~s.explicit /\ b.name # "$return" /\ has_implicit_output(b.type)
    <2>1. t = [s EXCEPT !.type = b.type]
      BY <1>4 DEF get_return_binding
    <2>2. t.type = b.type /\ ~t.explicit /\ t \in [type : {t.type}, explicit : BOOLEAN]
      BY <1>4, <2>1 DEF Decided
    <2> HIDE DEF t
    <2>3. Decided(f, n + 1, t)
      BY <1>0, <1>1, <1>4, <2>2 DEF Decided
    <2> QED
      BY <2>3 DEF t
  <1>5. CASE ~s.explicit /\ b.name # "$return" /\ ~has_implicit_output(b.type)
    <2>1. t = s
      BY <1>5 DEF get_return_binding
    <2> HIDE DEF t
    <2>2. Decided(f, n + 1, s)
      BY <1>0, <1>1, <1>5 DEF Decided
    <2> QED
      BY <2>1, <2>2 DEF t
  <1> QED
    BY <1>2, <1>3, <1>4, <1>5

LEMMA ReturnIsDecided ==
    ASSUME NEW f, Len(f.bindings) \in Nat
    PROVE  Decided(f, Len(f.bindings), ReturnBinding(f))
  <1> DEFINE m == Len(f.bindings)
             F == CHOOSE G : LoopTo(f, m, G)
  <1>1. ReturnBinding(f) = F[m]
    BY DEF ReturnBinding, LoopTo, Undecided
  <1>2. LoopTo(f, m, F)
    BY LoopExists
  <1> HIDE DEF F, m
  <1>0. m \in Nat
    BY DEF m
  <1> DEFINE T == {n \in Nat : n <= m /\ ~Decided(f, n, F[n])}
  <1>3. 0 \notin T
    <2>1. F[0] = Undecided
      BY <1>0, <1>2 DEF LoopTo
    <2>2. Undecided.explicit = FALSE /\ Undecided \in [type : {Undecided.type}, explicit : BOOLEAN]
      BY DEF Undecided
    <2>3. Decided(f, 0, Undecided)
      BY <2>2 DEF Decided
    <2> QED
      BY <2>1, <2>3
  <1>4. ASSUME NEW n \in Nat, n + 1 \in T
        PROVE  n \in T
    <2>1. F[n + 1] = get_return_binding(F[n], f.bindings[n + 1])
      <3>1. n + 1 \in 0..m /\ n + 1 # 0 /\ (n + 1) - 1 = n
        BY <1>0, <1>4
      <3> QED
        BY <1>2, <3>1 DEF LoopTo
    <2>2. ~Decided(f, n, F[n])
      BY <1>4, <2>1, DecidedNext
    <2> QED
      BY <1>0, <1>4, <2>2
  <1>5. T = {}
    <2>1. T \subseteq Nat
      OBVIOUS
    <2> HIDE DEF T
    <2> QED
      BY <1>3, <1>4, <2>1, NoLeastNumber
  <1> QED
    BY <1>0, <1>1, <1>5 DEF m

(* The order of the bindings **********************************************)

\* g has the bindings of f in another order.
Reordered(f, o, g) ==
    /\ o \in [Places(f) -> Places(f)]
    /\ \A i, j \in Places(f) : o[i] = o[j] => i = j
    /\ g = [f EXCEPT !.bindings = [i \in Places(f) |-> f.bindings[o[i]]]]

LEMMA OrderIsOnto ==
    ASSUME NEW n \in Nat, NEW o \in [1..n -> 1..n], \A i, j \in 1..n : o[i] = o[j] => i = j
    PROVE  \A k \in 1..n : \E i \in 1..n : o[i] = k
  <1>1. IsFiniteSet(1..n)
    BY FS_Interval
  <1>2. o \in Injection(1..n, 1..n)
    BY DEF Injection, IsInjective
  <1>3. o \in Surjection(1..n, 1..n)
    BY <1>1, <1>2, FS_Injection
  <1> QED
    BY <1>3 DEF Surjection

\* Each binding of one is in one place of the other.
LEMMA ReorderedFields ==
    ASSUME NEW f, IsFunction(f), NEW o, NEW g, Reordered(f, o, g)
    PROVE  /\ IsFunction(g) /\ Places(g) = Places(f)
           /\ g.params = f.params /\ g.return_anno = f.return_anno
           /\ \A i \in Places(f) : o[i] \in Places(f) /\ g.bindings[i] = f.bindings[o[i]]
           /\ \A k \in Places(f) : \E i \in Places(f) : o[i] = k
  <1> DEFINE n == Len(f.bindings)
             bs == [i \in 1..n |-> f.bindings[o[i]]]
  <1>1. n \in Nat /\ Places(f) = 1..n
    BY DEF IsFunction, Places
  <1>2. o \in [1..n -> 1..n] /\ \A i, j \in 1..n : o[i] = o[j] => i = j
    BY <1>1 DEF Reordered
  <1>3. \A k \in 1..n : \E i \in 1..n : o[i] = k
    BY <1>1, <1>2, OrderIsOnto
  <1>4. g = [f EXCEPT !.bindings = bs]
    BY <1>1 DEF Reordered
  <1>5. Len(bs) = n /\ \A i \in 1..n : bs[i] = f.bindings[o[i]]
    BY <1>1
  <1> HIDE DEF bs
  <1>6. /\ g.bindings = bs /\ g.params = f.params /\ g.return_anno = f.return_anno
        /\ DOMAIN g = DOMAIN f
    BY <1>4 DEF IsFunction
  <1>7. \A i \in 1..n : g.bindings[i].direction \in Directions
    BY <1>1, <1>2, <1>5, <1>6 DEF IsFunction
  <1>8. IsFunction(g)
    BY <1>1, <1>5, <1>6, <1>7 DEF IsFunction
  <1> QED
    BY <1>1, <1>2, <1>3, <1>5, <1>6, <1>8 DEF Places

Distinct(f) == \A i, j \in Places(f) : f.bindings[i].name = f.bindings[j].name => i = j

LEMMA ReorderedBound ==
    ASSUME NEW f, IsFunction(f), NEW o, NEW g, Reordered(f, o, g), Distinct(f)
    PROVE  /\ BoundNames(g) = BoundNames(f)
           /\ \A p \in BoundNames(f) : Bound(g, p) = Bound(f, p)
           /\ HasExplicitReturn(g) <=> HasExplicitReturn(f)
           /\ HasImplicitReturn(g) <=> HasImplicitReturn(f)
  <1>1. /\ IsFunction(g) /\ Places(g) = Places(f)
        /\ \A i \in Places(f) : o[i] \in Places(f) /\ g.bindings[i] = f.bindings[o[i]]
        /\ \A k \in Places(f) : \E i \in Places(f) : o[i] = k
    BY ReorderedFields
  <1>2. /\ \A i \in Places(f) : \E k \in Places(f) : g.bindings[i] = f.bindings[k]
        /\ \A k \in Places(f) : \E i \in Places(f) : g.bindings[i] = f.bindings[k]
    BY <1>1
  <1>3. BoundNames(g) = BoundNames(f)
    <2>1. ASSUME NEW h, NEW p
          PROVE  p \in BoundNames(h) <=> p # "$return" /\ \E i \in Places(h) : h.bindings[i].name = p
      BY DEF BoundNames, Places
    <2>2. ASSUME NEW p, NEW i \in Places(g), g.bindings[i].name = p
          PROVE  \E k \in Places(f) : f.bindings[k].name = p
      BY <1>1, <2>2
    <2>3. ASSUME NEW p, NEW k \in Places(f), f.bindings[k].name = p
          PROVE  \E i \in Places(g) : g.bindings[i].name = p
      <3>1. PICK i \in Places(f) : g.bindings[i] = f.bindings[k]
        BY <1>2
      <3> QED
        BY <1>1, <2>3, <3>1
    <2>4. ASSUME NEW p
          PROVE  p \in BoundNames(g) <=> p \in BoundNames(f)
      BY <2>1, <2>2, <2>3
    <2> QED
      BY <2>4
  <1>4. ASSUME NEW p \in BoundNames(f)
        PROVE  Bound(g, p) = Bound(f, p)
    <2>1. /\ \E i \in Places(f) : f.bindings[i].name = p
          /\ \E i \in Places(g) : g.bindings[i].name = p
      BY <1>3 DEF BoundNames, Places
    <2>2. PICK i : i \in Places(f) /\ f.bindings[i].name = p /\ Bound(f, p) = f.bindings[i]
      BY <2>1, BoundIsLast DEF LastPlace
    <2>3. PICK j : j \in Places(g) /\ g.bindings[j].name = p /\ Bound(g, p) = g.bindings[j]
      BY <1>1, <2>1, BoundIsLast DEF LastPlace
    <2>4. o[j] = i
      BY <1>1, <2>2, <2>3 DEF Distinct
    <2> QED
      BY <1>1, <2>2, <2>3, <2>4
  <1>5. /\ HasExplicitReturn(g) <=> HasExplicitReturn(f)
        /\ HasImplicitReturn(g) <=> HasImplicitReturn(f)
    <2>1. ASSUME NEW h
          PROVE  /\ HasExplicitReturn(h) <=> \E i \in Places(h) : IsReturn(h, i)
                 /\ HasImplicitReturn(h) <=> \E i \in Places(h) : IsImplicit(h, i)
      BY DEF HasExplicitReturn, HasImplicitReturn, Places, IsReturn, IsImplicit
    <2>2. ASSUME NEW i \in Places(g)
          PROVE  \E k \in Places(f) : /\ IsReturn(g, i) <=> IsReturn(f, k)
                                      /\ IsImplicit(g, i) <=> IsImplicit(f, k)
      <3>1. o[i] \in Places(f) /\ g.bindings[i] = f.bindings[o[i]]
        BY <1>1
      <3> QED
        BY <3>1 DEF IsReturn, IsImplicit
    <2>3. ASSUME NEW k \in Places(f)
          PROVE  \E i \in Places(g) : /\ IsReturn(g, i) <=> IsReturn(f, k)
                                      /\ IsImplicit(g, i) <=> IsImplicit(f, k)
      <3>1. PICK i \in Places(f) : g.bindings[i] = f.bindings[k]
        BY <1>2
      <3> QED
        BY <1>1, <3>1 DEF IsReturn, IsImplicit
    <2> QED
      BY <2>1, <2>2, <2>3
  <1> QED
    BY <1>3, <1>4, <1>5

\* At most one binding can stand for the return value.
Implicit(f) == {i \in Places(f) : has_implicit_output(f.bindings[i].type)}

LEMMA OneImplicit ==
    ASSUME NEW f, IsFunction(f), Cardinality(Implicit(f)) <= 1,
           NEW i \in Implicit(f), NEW j \in Implicit(f)
    PROVE  i = j
  <1>1. IsFiniteSet(Places(f))
    <2>1. Len(f.bindings) \in Int /\ 1 \in Int
      BY DEF IsFunction
    <2> QED
      BY <2>1, FS_Interval DEF Places
  <1>2. IsFiniteSet(Implicit(f)) /\ Implicit(f) \in SUBSET Places(f)
    BY <1>1, FS_Subset DEF Implicit
  <1>3. Cardinality(Implicit(f)) = 1
    BY <1>2, FS_CardinalityType, FS_EmptySet
  <1>4. PICK x : Implicit(f) = {x}
    BY <1>2, <1>3, FS_Singleton
  <1> QED
    BY <1>4

LEMMA ReorderedReturn ==
    ASSUME NEW f, IsFunction(f), NEW o, NEW g, Reordered(f, o, g), Distinct(f),
           HasExplicitReturn(f) \/ Cardinality(Implicit(f)) <= 1,
           HasExplicitReturn(f) \/ HasImplicitReturn(f)
    PROVE  ReturnBinding(g).type = ReturnBinding(f).type
  <1> DEFINE s == ReturnBinding(f)
             t == ReturnBinding(g)
  <1>1. /\ IsFunction(g) /\ Places(g) = Places(f)
        /\ \A i \in Places(f) : o[i] \in Places(f) /\ g.bindings[i] = f.bindings[o[i]]
    BY ReorderedFields
  <1>2. Decided(f, Len(f.bindings), s) /\ Decided(g, Len(g.bindings), t)
    BY <1>1, ReturnIsDecided DEF IsFunction
  <1> HIDE DEF s, t
  <1>3. /\ HasExplicitReturn(g) <=> HasExplicitReturn(f)
        /\ HasImplicitReturn(g) <=> HasImplicitReturn(f)
    BY ReorderedBound
  <1>4. /\ s.explicit <=> HasExplicitReturn(f)
        /\ t.explicit <=> HasExplicitReturn(g)
    BY <1>2 DEF Decided, HasExplicitReturn, IsReturn
  <1>5. CASE HasExplicitReturn(f)
    <2>1. PICK i \in Places(f) : IsReturn(f, i) /\ s.type = f.bindings[i].type
      BY <1>2, <1>4, <1>5 DEF Decided, Places
    <2>2. PICK j \in Places(g) : IsReturn(g, j) /\ t.type = g.bindings[j].type
      BY <1>2, <1>3, <1>4, <1>5 DEF Decided, Places
    <2>3. o[j] = i
      BY <1>1, <2>1, <2>2 DEF Distinct, IsReturn
    <2>4. s.type = t.type
      BY <1>1, <2>1, <2>2, <2>3
    <2> QED
      BY <2>4 DEF s, t
  <1>6. CASE ~HasExplicitReturn(f)
    <2>1. PICK i \in Places(f) : IsImplicit(f, i) /\ s.type = f.bindings[i].type
      BY <1>2, <1>4, <1>6 DEF Decided, HasImplicitReturn, IsImplicit, IsReturn, Places
    <2>2. PICK j \in Places(g) : IsImplicit(g, j) /\ t.type = g.bindings[j].type
      BY <1>2, <1>3, <1>4, <1>6 DEF Decided, HasImplicitReturn, IsImplicit, IsReturn, Places
    <2>3. i \in Implicit(f) /\ o[j] \in Implicit(f)
      BY <1>1, <2>1, <2>2 DEF IsImplicit, Implicit
    <2>4. o[j] = i
      BY <1>6, <2>3, OneImplicit
    <2>5. s.type = t.type
      BY <1>1, <2>1, <2>2, <2>4
    <2> QED
      BY <2>5 DEF s, t
  <1> QED
    BY <1>5, <1>6

\* The bindings enter what is recorded only through those bound to parameters
\* and that of the return value.
LEMMA ReorderedInfo ==
    ASSUME NEW f, IsFunction(f), Params(f) = BoundNames(f), NEW o, NEW g, Reordered(f, o, g),
           Distinct(f), HasExplicitReturn(f) \/ Cardinality(Implicit(f)) <= 1
    PROVE  FunctionInfo(g) = FunctionInfo(f)
  <1>1. g.params = f.params
    BY ReorderedFields
  <1>2. /\ BoundNames(g) = BoundNames(f)
        /\ \A p \in BoundNames(f) : Bound(g, p) = Bound(f, p)
        /\ HasExplicitReturn(g) <=> HasExplicitReturn(f)
        /\ HasImplicitReturn(g) <=> HasImplicitReturn(f)
    BY ReorderedBound
  <1>3. RequiresContext(g) = RequiresContext(f) /\ Params(g) = Params(f)
    BY <1>1, <1>2 DEF RequiresContext, Params
  <1>4. \A p \in Params(f) : Bound(g, p) = Bound(f, p) /\ TypeInfo(g, p) = TypeInfo(f, p)
    BY <1>1, <1>2 DEF TypeInfo, ParamBindType, IsText
  <1> DEFINE Outputs(h) == {p \in Params(h) : Bound(h, p).direction = "out"}
             Inputs(h) == [p \in Params(h) \ Outputs(h) |-> TypeInfo(h, p)]
             OutputsOf(h) == [p \in Outputs(h) |-> TypeInfo(h, p)]
             HasReturn(h) == HasExplicitReturn(h) \/ HasImplicitReturn(h)
             Deferred(h) == \E p \in Params(h) : SupportsDeferred(h.params[p])
             Return(h) == IF HasReturn(h) THEN ReturnBinding(h).type ELSE None
             Trigger(h) == HttpTriggerParam(Inputs(h))
  <1>5. Outputs(g) = Outputs(f)
    BY <1>3, <1>4
  <1>6. Inputs(g) = Inputs(f) /\ OutputsOf(g) = OutputsOf(f)
    <2> HIDE DEF Outputs
    <2>1. Outputs(f) \subseteq Params(f)
      BY DEF Outputs
    <2> QED
      BY <1>3, <1>4, <1>5, <2>1
  <1>7. HasReturn(g) = HasReturn(f) /\ Deferred(g) = Deferred(f)
    BY <1>1, <1>2, <1>3
  <1>8. Return(g) = Return(f)
    BY <1>7, ReorderedReturn
  <1>9. Trigger(g) = Trigger(f)
    BY <1>6
  <1>10. \A h : FunctionInfo(h) =
            [requires_context |-> RequiresContext(h), has_return |-> HasReturn(h),
             deferred_bindings_enabled |-> Deferred(h), input_types |-> Inputs(h),
             output_types |-> OutputsOf(h), return_type |-> Return(h), trigger_param |-> Trigger(h)]
    BY DEF FunctionInfo
  <1> HIDE DEF Outputs, Inputs, OutputsOf, HasReturn, Deferred, Return, Trigger
  <1> QED
    BY <1>3, <1>6, <1>7, <1>8, <1>9, <1>10

(* The registry ***********************************************************)

LEMMA InitIInv ==
    ASSUME Init
    PROVE  IInv
  <1>1. Registered = {} /\ DOMAIN source = {}
    BY DEF Init, Registered
  <1>2. loads \in 0..Len(Candidates)
    BY RegistryAssumption DEF Init
  <1>3. deferred_bindings_enabled \in BOOLEAN /\ http_v2 \in BOOLEAN
    BY DEF Init
  <1> QED
    BY <1>1, <1>2, <1>3 DEF IInv, Types, Entries, FlagSet

\* What a step does: it registers a function that passed the checks, or it
\* leaves the registry alone.
LEMMA StepKinds ==
    ASSUME Types, [Next]_vars
    PROVE  \/ \E id \in Ids : \E f :
                /\ IsFunction(f) /\ Accepted(f) /\ Register(id, f)
                /\ http_v2' = http_v2 /\ loads' \in 0..Len(Candidates)
           \/ /\ UNCHANGED <<functions, source, deferred_bindings_enabled, http_v2>>
              /\ loads' \in 0..Len(Candidates)
  <1>1. CASE Next
    <2>1. PICK f \in Candidates[loads + 1] :
                \/ \E id \in Ids : add_function(id, f)
                \/ add_indexed_function(f)
                \/ \E id \in Ids : Reject(id, f)
      BY <1>1 DEF Next
    <2>2. loads + 1 \in 1..Len(Candidates) /\ loads + 1 \in 0..Len(Candidates)
      BY <1>1, RegistryAssumption DEF Next, Types
    <2>3. IsFunction(f) /\ f.name \in Ids
      BY <2>1, <2>2, RegistryAssumption
    <2>4. http_v2' = http_v2 /\ loads' \in 0..Len(Candidates)
      BY <2>1, <2>2 DEF add_function, add_indexed_function, Reject, CountLoad
    <2> QED
      BY <2>1, <2>3, <2>4 DEF add_function, add_indexed_function, Reject
  <1>2. CASE UNCHANGED vars
    BY <1>2 DEF vars, Types
  <1> QED
    BY <1>1, <1>2

\* Whether a function passes the checks changes only with the streaming mode.
LEMMA StillAccepted ==
    ASSUME NEW f, Accepted(f), http_v2' = http_v2
    PROVE  Accepted(f)'
  <1>1. \A t, py : check_output_type_annotation(t, py)' <=> check_output_type_annotation(t, py)
    BY DEF check_output_type_annotation
  <1>2. \A t, py, d : check_input_type_annotation(t, py, d)' <=>
                        check_input_type_annotation(t, py, d)
    BY DEF check_input_type_annotation
  <1>3. ValidReturn(f)'
    BY <1>1 DEF Accepted, ValidReturn
  <1>4. \A p : ValidParam(f, p)' <=> ValidParam(f, p)
    BY <1>1, <1>2 DEF ValidParam
  <1> QED
    BY <1>3, <1>4 DEF Accepted

LEMMA Registering ==
    ASSUME NEW id, NEW f, Register(id, f)
    PROVE  /\ Registered' = Registered \cup {id}
           /\ functions'[id] = FunctionInfo(f)
           /\ \A x \in Registered : x # id => functions'[x] = functions[x]
           /\ DOMAIN source' = DOMAIN source \cup {id}
           /\ source'[id] = f
           /\ \A x \in DOMAIN source : x # id => source'[x] = source[x]
  BY DEF Register, With, Registered

LEMMA NextIInv ==
    ASSUME IInv, [Next]_vars
    PROVE  IInv'
  <1>1. ASSUME NEW id \in Ids, NEW f, IsFunction(f), Accepted(f), Register(id, f),
               http_v2' = http_v2, loads' \in 0..Len(Candidates)
        PROVE  IInv'
    <2>1. Types'
      <3>1. deferred_bindings_enabled' \in BOOLEAN
        BY <1>1 DEF Register
      <3> QED
        BY <1>1, <3>1, Registering DEF IInv, Types
    <2>2. Entries'
      <3>1. ASSUME NEW x \in Registered'
            PROVE  /\ IsFunction(source'[x]) /\ Accepted(source'[x])
                   /\ functions'[x] = FunctionInfo(source'[x])
        <4>1. CASE x = id
          BY <1>1, <4>1, Registering
        <4>2. CASE x # id
          BY ZenonT(60), <1>1, <4>2, Registering DEF IInv, Types, Entries
        <4> QED
          BY <4>1, <4>2
      <3>2. \A h : Accepted(h) => Accepted(h)'
        BY <1>1, StillAccepted
      <3> QED
        BY <3>1, <3>2 DEF Entries
    <2>3. FlagSet'
      <3>1. deferred_bindings_enabled \in BOOLEAN
                /\ FunctionInfo(f).deferred_bindings_enabled \in BOOLEAN
        BY InfoFields DEF IInv, Types
      <3>2. deferred_bindings_enabled' <=>
                (deferred_bindings_enabled \/ FunctionInfo(f).deferred_bindings_enabled)
        BY <1>1 DEF Register
      <3>3. ASSUME NEW x \in Registered', functions'[x].deferred_bindings_enabled
            PROVE  deferred_bindings_enabled'
        <4>1. CASE x = id
          <5>1. functions'[x] = FunctionInfo(f)
            BY <1>1, <4>1, Registering
          <5>2. FunctionInfo(f).deferred_bindings_enabled
            BY <3>3, <5>1
          <5> QED
            BY <3>2, <5>2
        <4>2. CASE x # id
          <5>1. x \in Registered /\ functions'[x] = functions[x]
            <6>1. Registered' = Registered \cup {id}
              BY <1>1, Registering
            <6>2. \A y \in Registered : y # id => functions'[y] = functions[y]
              BY <1>1, Registering
            <6>3. x \in Registered
              BY <4>2, <6>1
            <6> QED
              BY <4>2, <6>2, <6>3
          <5>2. functions[x].deferred_bindings_enabled
            BY <3>3, <5>1
          <5>3. deferred_bindings_enabled
            BY <5>1, <5>2 DEF IInv, FlagSet
          <5> QED
            BY <3>2, <5>3
        <4> QED
          BY <4>1, <4>2
      <3> QED
        BY <3>3 DEF FlagSet
    <2> QED
      BY <2>1, <2>2, <2>3 DEF IInv
  <1>2. ASSUME UNCHANGED <<functions, source, deferred_bindings_enabled, http_v2>>,
               loads' \in 0..Len(Candidates)
        PROVE  IInv'
    <2>1. \A h : Accepted(h) => Accepted(h)'
      BY <1>2, StillAccepted
    <2>2. Entries'
      BY <1>2, <2>1 DEF IInv, Entries, Registered
    <2> QED
      BY <1>2, <2>2 DEF IInv, Types, FlagSet, Registered
  <1> QED
    BY <1>1, <1>2, StepKinds DEF IInv

\* The inductive invariant holds in every reachable state.
THEOREM Invariance == Spec => []IInv
  <1>1. Init => IInv
    BY InitIInv
  <1>2. IInv /\ [Next]_vars => IInv'
    BY NextIInv
  <1> QED
    BY <1>1, <1>2, PTL DEF Spec

\* The registry has its type: a function that was rejected leaves no part of an
\* entry behind.
THEOREM TypeCorrect == Spec => []TypeOK
  <1>1. IInv => TypeOK
    BY InfoFields DEF IInv, Types, Entries, TypeOK, Registered
  <1> QED
    BY <1>1, Invariance, PTL

\* What the host sends, what it expects and the context are the parameters of
\* the user's function, for any bindings, two of one name among them.
THEOREM CallMatchesSignatureAlways == Spec => []CallMatchesSignature
  <1>1. ASSUME IInv
        PROVE  CallMatchesSignature
    <2> SUFFICES ASSUME NEW id \in Registered
                 PROVE  LET info == functions[id]
                            sent == {b.name : b \in {b \in HostBindings(source[id]) : b.direction = "in"}}
                            expected == {b.name : b \in {b \in HostBindings(source[id]) : b.direction = "out"}}
                            outputs == DOMAIN info.output_types
                            context == IF info.requires_context THEN {"context"} ELSE {}
                        IN  /\ sent = DOMAIN info.input_types
                            /\ expected \ {"$return"} = outputs
                            /\ sent \cup outputs \cup context = DOMAIN source[id].params
      BY DEF CallMatchesSignature
    <2> DEFINE f == source[id]
               info == functions[id]
               sent == {b.name : b \in {b \in HostBindings(f) : b.direction = "in"}}
               expected == {b.name : b \in {b \in HostBindings(f) : b.direction = "out"}}
               outs == {p \in Params(f) : Bound(f, p).direction = "out"}
               context == IF info.requires_context THEN {"context"} ELSE {}
    <2>1. IsFunction(f) /\ Accepted(f) /\ info = FunctionInfo(f)
      BY <1>1 DEF IInv, Entries
    <2>2. /\ sent = Params(f) \ outs
          /\ expected \ {"$return"} = outs
          /\ sent \cup outs = Params(f)
      BY <2>1, HostParameters
    <2>6. /\ info.input_types = [p \in Params(f) \ outs |-> TypeInfo(f, p)]
          /\ info.output_types = [p \in outs |-> TypeInfo(f, p)]
          /\ info.requires_context = RequiresContext(f)
      BY <2>1, InfoFields
    <2>3. /\ DOMAIN info.input_types = Params(f) \ outs
          /\ DOMAIN info.output_types = outs
          /\ info.requires_context = RequiresContext(f)
      BY <2>6
    <2>4. Params(f) \cup context = DOMAIN f.params
      BY <2>3 DEF Params, RequiresContext
    <2> HIDE DEF f, info, sent, expected, outs, context
    <2>5. /\ sent = DOMAIN info.input_types
          /\ expected \ {"$return"} = DOMAIN info.output_types
          /\ sent \cup DOMAIN info.output_types \cup context = DOMAIN f.params
      BY <2>2, <2>3, <2>4
    <2> QED
      BY <2>5 DEF f, info, sent, expected, context
  <1> QED
    BY <1>1, Invariance, PTL

\* An HTTP trigger whose parameter is not annotated with str or bytes is one to
\* the handler, and what is one to the handler is an HTTP trigger.
THEOREM HttpTriggerRecognisedAlways == Spec => []HttpTriggerRecognised
  <1>1. ASSUME IInv, NEW id \in Registered
        PROVE  LET f == source[id]
                   trigger == functions[id].trigger_param
                   IsTrigger(p) == p \in DOMAIN functions[id].input_types
                                       /\ Bound(f, p).type = "httpTrigger"
               IN  /\ (\E b \in HostBindings(f) :
                           b.type = "httpTrigger" /\ b.direction = "in" /\ ~IsText(f, b.name)) =>
                       IsTrigger(trigger)
                   /\ trigger # None => IsTrigger(trigger)
    <2> DEFINE f == source[id]
               types == functions[id].input_types
               trigger == functions[id].trigger_param
               IsHttp(p) == p \in DOMAIN types /\ types[p].binding_name = "httpTrigger"
               outs == {p \in Params(f) : Bound(f, p).direction = "out"}
    <2>1. IsFunction(f) /\ Accepted(f) /\ functions[id] = FunctionInfo(f)
      BY <1>1 DEF IInv, Entries
    <2>2. types = [p \in Params(f) \ outs |-> TypeInfo(f, p)] /\ trigger = HttpTriggerParam(types)
      BY <2>1, InfoFields
    <2>3. DOMAIN types = Params(f) \ outs
      BY <2>2
    <2>4. \A p \in DOMAIN types : types[p].binding_name = ParamBindType(f, p)
      BY <2>2 DEF TypeInfo
    <2>5. \A p : IsHttp(p) => Bound(f, p).type = "httpTrigger"
      BY <2>4 DEF ParamBindType
    <2>6. trigger = IF \E p \in DOMAIN types : types[p].binding_name = "httpTrigger"
                    THEN CHOOSE p \in DOMAIN types : types[p].binding_name = "httpTrigger"
                    ELSE None
      BY <2>2 DEF HttpTriggerParam
    <2>7. (\E p : IsHttp(p)) => IsHttp(trigger)
      BY <2>6
    <2>8. trigger # None => IsHttp(trigger)
      BY <2>6
    <2>9. ASSUME NEW b \in HostBindings(f), b.type = "httpTrigger", b.direction = "in",
                 ~IsText(f, b.name)
          PROVE  IsHttp(b.name)
      <3>1. b.name \in {c.name : c \in {c \in HostBindings(f) : c.direction = "in"}}
        BY <2>9
      <3>2. b.name \in DOMAIN types
        BY <2>1, <2>3, <3>1, HostParameters
      <3>3. ParamBindType(f, b.name) = "httpTrigger"
        BY <2>1, <2>9, HostBinding DEF ParamBindType
      <3> QED
        BY <2>4, <3>2, <3>3
    <2> QED
      BY <2>5, <2>7, <2>8, <2>9
  <1>2. IInv => HttpTriggerRecognised
    BY <1>1 DEF HttpTriggerRecognised
  <1> QED
    BY <1>2, Invariance, PTL

\* What is recorded of a function does not depend on the order of its bindings,
\* if their names differ and at most one of them can give the return value.
THEOREM OrderIndependentAlways == Spec => []OrderIndependent
  <1>1. ASSUME IInv, NEW id \in Registered
        PROVE  LET f == source[id]
                   places == 1..Len(f.bindings)
                   implicit == {i \in places : has_implicit_output(f.bindings[i].type)}
                   orders == {o \in [places -> places] : \A i, j \in places : o[i] = o[j] => i = j}
                   distinct == \A i, j \in places : f.bindings[i].name = f.bindings[j].name => i = j
               IN  distinct /\ (HasExplicitReturn(f) \/ Cardinality(implicit) <= 1) =>
                       \A o \in orders :
                           FunctionInfo([f EXCEPT !.bindings = [i \in places |-> f.bindings[o[i]]]])
                               = functions[id]
    <2> DEFINE f == source[id]
               orders == {o \in [Places(f) -> Places(f)] :
                             \A i, j \in Places(f) : o[i] = o[j] => i = j}
               Order(o) == [f EXCEPT !.bindings = [i \in Places(f) |-> f.bindings[o[i]]]]
    <2>1. IsFunction(f) /\ Accepted(f) /\ functions[id] = FunctionInfo(f)
      BY <1>1 DEF IInv, Entries
    <2>2. ASSUME Distinct(f), HasExplicitReturn(f) \/ Cardinality(Implicit(f)) <= 1,
                 NEW o \in orders
          PROVE  FunctionInfo(Order(o)) = functions[id]
      <3>1. Reordered(f, o, Order(o))
        BY DEF Reordered
      <3>2. Params(f) = BoundNames(f)
        BY <2>1 DEF Accepted
      <3> HIDE DEF f, Order
      <3> QED
        BY <2>1, <2>2, <3>1, <3>2, ReorderedInfo
    <2> QED
      BY <2>2 DEF Distinct, Implicit, Places
  <1>2. IInv => OrderIndependent
    BY <1>1 DEF OrderIndependent
  <1> QED
    BY <1>2, Invariance, PTL

\* A registered function stays one and is replaced only by one that passed the
\* checks, and deferred bindings stay announced while a function has them.
THEOREM StaysRegisteredAlways == Spec => StaysRegistered
  <1>1. ASSUME IInv, [Next]_vars
        PROVE  [/\ \A id \in Registered :
                     /\ id \in Registered'
                     /\ functions'[id] # functions[id] => Accepted(source'[id])
                /\ (\E id \in Registered : functions[id].deferred_bindings_enabled) =>
                     deferred_bindings_enabled']_vars
    <2>1. ASSUME NEW i \in Ids, NEW f, Accepted(f), Register(i, f)
          PROVE  /\ \A id \in Registered :
                      /\ id \in Registered'
                      /\ functions'[id] # functions[id] => Accepted(source'[id])
                 /\ deferred_bindings_enabled => deferred_bindings_enabled'
      <3>1. deferred_bindings_enabled => deferred_bindings_enabled'
        BY <2>1 DEF Register
      <3> QED
        BY ZenonT(60), <2>1, <3>1, Registering
    <2>2. ASSUME UNCHANGED <<functions, source, deferred_bindings_enabled, http_v2>>
          PROVE  /\ \A id \in Registered : id \in Registered' /\ functions'[id] = functions[id]
                 /\ deferred_bindings_enabled => deferred_bindings_enabled'
      BY <2>2 DEF Registered
    <2> QED
      BY <1>1, <2>1, <2>2, StepKinds DEF IInv, FlagSet
  <1> QED
    BY <1>1, Invariance, PTL DEF Spec, StaysRegistered

=============================================================================
