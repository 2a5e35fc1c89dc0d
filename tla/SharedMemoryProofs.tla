-------------------------- MODULE SharedMemoryProofs --------------------------
(***************************************************************************)
(* The worker keeps its maps until the host has had them closed, reads what*)
(* was written and leaves no file, for any names, directories, values,     *)
(* numbers of outputs and failures.                                        *)
(*                                                                         *)
(* The safety properties speak of the maps a response names or the host    *)
(* disposes of.  IInv adds where each map is: an unused name has no file   *)
(* (Fresh); a map is tracked, at the host's disposal or freed, never two of*)
(* them (Homes); no two responses name the same map (Batches); and the     *)
(* files of a map that is tracked or at the host's disposal hold what was  *)
(* written, in a single directory if a file can be given its size          *)
(* (Columned).                                                             *)
(***************************************************************************)
EXTENDS SharedMemory, FiniteSetTheorems, TLAPS

-----------------------------------------------------------------------------
(* The markers of a file's content are distinct.                           *)

LEMMA AtMostThree ==
    ASSUME NEW a, NEW b, NEW c
    PROVE  Cardinality({a, b, c}) # 4
<1>1. IsFiniteSet({a}) /\ Cardinality({a}) = 1
    BY FS_Singleton
<1>2. IsFiniteSet({a} \cup {b}) /\ Cardinality({a} \cup {b}) \in {1, 2}
    BY <1>1, FS_AddElement
<1>3. Cardinality(({a} \cup {b}) \cup {c}) \in {1, 2, 3}
    BY <1>2, FS_AddElement
<1>4. {a, b, c} = ({a} \cup {b}) \cup {c}
    OBVIOUS
<1> QED
    BY <1>3, <1>4

LEMMA DistinctMarkers ==
    /\ Absent # Blank /\ Absent # Partial /\ Absent # NoData
    /\ Blank # Partial /\ Blank # NoData /\ Partial # NoData
    /\ \A x \in Data : x \notin {Absent, Blank, Partial, NoData}
<1> DEFINE S == {Absent, Blank, Partial, NoData}
<1>1. ASSUME NEW a, NEW b, NEW c, S = {a, b, c} PROVE FALSE
    BY <1>1, AtMostThree, SharedMemoryAssumption
<1>2. Absent # Blank
    <2>1. Absent = Blank => S = {Blank, Partial, NoData}
        OBVIOUS
    <2> QED
        BY <1>1, <2>1
<1>3. Absent # Partial
    <2>1. Absent = Partial => S = {Blank, Partial, NoData}
        OBVIOUS
    <2> QED
        BY <1>1, <2>1
<1>4. Absent # NoData
    <2>1. Absent = NoData => S = {Blank, Partial, NoData}
        OBVIOUS
    <2> QED
        BY <1>1, <2>1
<1>5. Blank # Partial
    <2>1. Blank = Partial => S = {Absent, Partial, NoData}
        OBVIOUS
    <2> QED
        BY <1>1, <2>1
<1>6. Blank # NoData
    <2>1. Blank = NoData => S = {Absent, Partial, NoData}
        OBVIOUS
    <2> QED
        BY <1>1, <2>1
<1>7. Partial # NoData
    <2>1. Partial = NoData => S = {Absent, Blank, NoData}
        OBVIOUS
    <2> QED
        BY <1>1, <2>1
<1>8. \A x \in Data : x \notin {Absent, Blank, Partial, NoData}
    BY SharedMemoryAssumption
<1> QED
    BY <1>2, <1>3, <1>4, <1>5, <1>6, <1>7, <1>8

-----------------------------------------------------------------------------
(* The file accessor.                                                      *)

Columns == [Dirs -> Contents]

Sized == NoneOf({"truncate_error"})

\* The files of a map with content x hold it, all of it or nothing.
Whole(column, x) == \A d \in Dirs : column[d] \in {Absent, Blank, x}

\* x is in a single directory, and there is no other file.
Single(column, x) ==
    \E k \in Dirs : column = [d \in Dirs |-> IF d = k THEN x ELSE Absent]

LEMMA SingleIsWhole ==
    ASSUME NEW column, NEW x, Single(column, x)
    PROVE  Whole(column, x)
BY DEF Single, Whole

LEMMA DirsAreNaturals == Dirs \subseteq Nat
BY SharedMemoryAssumption DEF Dirs

\* The attempts to create a file: what they leave, and that they leave nothing
\* but the file when it can be given its size.
LEMMA FailedAttemptLeaves ==
    /\ FailedAttempt \subseteq {Absent, Blank}
    /\ Sized => FailedAttempt \subseteq {Absent}
BY DEF FailedAttempt, Sized, NoneOf

LEMMA CreatedColumns ==
    ASSUME NEW x \in Data \cup {Partial}, NEW column \in Created(x)
    PROVE  /\ column \in Columns
           /\ Whole(column, x)
           /\ Sized => Single(column, x)
<1>1. /\ column \in [Dirs -> {Absent, Blank, x}]
      /\ \E k \in Dirs : \A d \in Dirs :
            /\ d < k => column[d] \in FailedAttempt
            /\ d = k => column[d] = x
            /\ d > k => column[d] = Absent
    BY DEF Created
<1>2. column \in Columns
    BY <1>1 DEF Columns, Contents
<1>3. Whole(column, x)
    BY <1>1 DEF Whole
<1>4. ASSUME Sized PROVE Single(column, x)
    <2>1. PICK k \in Dirs : \A d \in Dirs :
            /\ d < k => column[d] \in FailedAttempt
            /\ d = k => column[d] = x
            /\ d > k => column[d] = Absent
        BY <1>1
    <2>2. \A d \in Dirs : d < k \/ d = k \/ d > k
        BY DirsAreNaturals
    <2>3. \A d \in Dirs : column[d] = IF d = k THEN x ELSE Absent
        BY <1>4, <2>1, <2>2, FailedAttemptLeaves
    <2>4. column = [d \in Dirs |-> IF d = k THEN x ELSE Absent]
        BY <1>1, <2>3
    <2> QED
        BY <2>4 DEF Single
<1> QED
    BY <1>2, <1>3, <1>4

LEMMA NotCreatedColumns ==
    ASSUME NEW column \in NotCreated
    PROVE  /\ column \in Columns
           /\ Sized => column = NoFile
<1>1. column \in [Dirs -> FailedAttempt]
    BY DEF NotCreated
<1>2. column \in Columns
    BY <1>1, FailedAttemptLeaves DEF Columns, Contents
<1>3. ASSUME Sized PROVE column = NoFile
    BY <1>1, <1>3, FailedAttemptLeaves DEF NoFile
<1> QED
    BY <1>2, <1>3

\* The search of the directories finds at most one file.
LEMMA FoundOne ==
    ASSUME NEW column, NEW u
    PROVE  /\ Found(column, u) \subseteq Holding(column) \ u
           /\ \A d, e \in Found(column, u) : d = e
<1>1. Found(column, u) \subseteq Holding(column) \ u /\ Holding(column) \subseteq Dirs
    BY DEF Found, Holding
<1>2. ASSUME NEW d \in Found(column, u), NEW e \in Found(column, u) PROVE d = e
    <2>1. d <= e /\ e <= d
        BY <1>1 DEF Found
    <2>2. d \in Nat /\ e \in Nat
        BY <1>1, DirsAreNaturals
    <2> QED
        BY <2>1, <2>2
<1> QED
    BY <1>1, <1>2

\* With a single file, it is found where it is, if it can be opened.
LEMMA FoundSingle ==
    ASSUME NEW column, NEW x, x # Absent, NEW k \in Dirs,
           column = [d \in Dirs |-> IF d = k THEN x ELSE Absent], NEW u
    PROVE  /\ Found(column, u) \subseteq {k}
           /\ k \notin u => Found(column, u) = {k}
<1>1. Holding(column) = {k}
    BY DEF Holding
<1>2. k <= k
    BY DirsAreNaturals
<1> QED
    BY <1>1, <1>2 DEF Found

\* Deleting a map: nothing but the file that is found goes.
LEMMA DeleteColumns ==
    ASSUME NEW column \in Columns, NEW r \in delete_mem_map(column)
    PROVE  r.column \in Columns
<1>1. PICK u \in Unopenable : r \in Removal(column, Found(column, u))
    BY DEF delete_mem_map
<1>2. \/ r.column = column
      \/ r.column = [d \in Dirs |-> IF d \in Found(column, u) THEN Absent ELSE column[d]]
    BY <1>1 DEF Removal
<1> QED
    BY <1>2 DEF Columns, Contents

\* The only file is gone when the removal is reported to have succeeded, and
\* it is when files can be opened and removed.
LEMMA DeleteSingle ==
    ASSUME NEW column, NEW x, x # Absent, Single(column, x),
           NEW r \in delete_mem_map(column)
    PROVE  /\ r.success => r.column = NoFile
           /\ NoneOf({"open_error", "remove_error"}) => r.success
<1>1. PICK k \in Dirs : column = [d \in Dirs |-> IF d = k THEN x ELSE Absent]
    BY DEF Single
<1>2. PICK u \in Unopenable : r \in Removal(column, Found(column, u))
    BY DEF delete_mem_map
<1> DEFINE found == Found(column, u)
           gone == [d \in Dirs |-> IF d \in found THEN Absent ELSE column[d]]
<1>3. found \subseteq {k} /\ (k \notin u => found = {k})
    BY <1>1, FoundSingle
<1>4. found = {k} => gone = NoFile
    BY <1>1 DEF NoFile
<1>5. \/ found = {} /\ r = [column |-> column, success |-> FALSE]
      \/ found # {} /\ r = [column |-> gone, success |-> TRUE]
      \/ found # {} /\ "remove_error" \in faults /\ r = [column |-> column, success |-> FALSE]
    BY <1>2 DEF Removal
<1>6. NoneOf({"open_error", "remove_error"}) => u = {} /\ "remove_error" \notin faults
    BY <1>2 DEF NoneOf, Unopenable
<1> HIDE DEF found, gone
<1>7. r.success => r.column = NoFile
    BY <1>3, <1>4, <1>5
<1>8. NoneOf({"open_error", "remove_error"}) => r.success
    BY <1>3, <1>5, <1>6
<1> QED
    BY <1>7, <1>8

\* Reading a map gives what was written or nothing.
LEMMA ReadsWhole ==
    ASSUME NEW n, NEW x, x # Absent, Whole(files[n], x), NEW value \in Reads(n)
    PROVE  value \in {x, NoData}
<1>1. PICK u \in Unopenable :
        value = IF \E d \in Found(files[n], u) : files[n][d] # Blank
                THEN files[n][CHOOSE d \in Found(files[n], u) : TRUE]
                ELSE NoData
    BY DEF Reads
<1> DEFINE found == Found(files[n], u)
           e == CHOOSE d \in found : TRUE
<1>2. found \subseteq Holding(files[n]) /\ \A d, f \in found : d = f
    BY FoundOne
<1>3. CASE \E d \in found : files[n][d] # Blank
    <2>1. e \in found
        BY <1>3
    <2>2. files[n][e] # Blank /\ files[n][e] # Absent /\ e \in Dirs
        BY <1>2, <1>3, <2>1 DEF Holding
    <2>3. value = files[n][e]
        BY <1>1, <1>3
    <2> QED
        BY <2>2, <2>3 DEF Whole
<1>4. CASE ~ \E d \in found : files[n][d] # Blank
    BY <1>1, <1>4
<1> QED
    BY <1>3, <1>4

LEMMA ReadsSingle ==
    ASSUME NEW n, NEW x, x \notin {Absent, Blank}, Single(files[n], x),
           NoneOf({"open_error"})
    PROVE  Reads(n) = {x}
<1>1. PICK k \in Dirs : files[n] = [d \in Dirs |-> IF d = k THEN x ELSE Absent]
    BY DEF Single
<1>2. Unopenable = {{}}
    BY DEF NoneOf, Unopenable
<1>3. Found(files[n], {}) = {k}
    BY <1>1, FoundSingle
<1>4. (CHOOSE d \in {k} : TRUE) = k
    OBVIOUS
<1>5. files[n][k] = x
    BY <1>1
<1> QED
    BY <1>2, <1>3, <1>4, <1>5 DEF Reads

-----------------------------------------------------------------------------
(* The inductive invariant.                                                *)

\* The maps made for the outputs of the invocation that is encoding them.
Done == IF encoding = Idle THEN {} ELSE encoding.done

\* A name that was never used has no file and is in nobody's hands.
Fresh ==
    \A n \in Names : Unused(n) =>
        files[n] = NoFile /\ n \notin allocated \cup owned \cup freed

\* A map is tracked, at the host's disposal or freed; one that is freed may be
\* left to the host.
Homes == allocated \cap (owned \cup freed) = {}

\* The maps of the responses, of the close requests and of the outputs that
\* are being encoded are different, and tracked.
Batches ==
    /\ responses \cap closing = {}
    /\ \A a, b \in responses \cup closing : a # b => a \cap b = {}
    /\ Held \cup Done \subseteq allocated
    /\ Held \cap Done = {}
    /\ NoneOf({"map_error", "encode_error"}) => allocated = Held \cup Done

\* What the files of a map in use hold.
Columned ==
    \A n \in allocated \cup owned :
        /\ Whole(files[n], written[n])
        /\ Sized => Single(files[n], written[n])

\* No file is left behind, at any point.
NothingLeft ==
    NoneOf({"truncate_error", "map_error", "open_error", "remove_error"}) =>
        \A n \in Names : files[n] # NoFile => n \in allocated \cup owned

FreedAreGone == Sized /\ ~cacheEnabled => \A n \in freed : files[n] = NoFile

ArgumentWritten ==
    argument # NoData =>
        /\ ~Unused(argument.name)
        /\ argument.value \in {written[argument.name], NoData}

FileInv == Fresh /\ Homes /\ Columned /\ NothingLeft /\ FreedAreGone /\ ArgumentWritten

IInv == TypeOK /\ Batches /\ FileInv

LEMMA InitIInv == Init => IInv
<1> SUFFICES ASSUME Init PROVE IInv
    OBVIOUS
<1>1. TypeOK
    <2>1. NoFile \in [Dirs -> Contents]
        BY DEF NoFile, Contents
    <2> QED
        BY <2>1 DEF Init, TypeOK
<1>2. Held = {} /\ Done = {}
    BY DEF Init, Held, Done
<1>3. Batches
    BY <1>2 DEF Init, Batches
<1>4. FileInv
    BY DEF Init, FileInv, Fresh, Homes, Columned, NothingLeft, FreedAreGone, ArgumentWritten, Unused
<1> QED
    BY <1>1, <1>3, <1>4 DEF IInv

\* Steps that touch no file and leave every map where it is.
LEMMA FilesUntouched ==
    ASSUME FileInv, UNCHANGED <<files, allocated, written, freed, owned, argument,
                                cacheEnabled, faults>>
    PROVE  FileInv'
BY DEF FileInv, Fresh, Homes, Columned, NothingLeft, FreedAreGone, ArgumentWritten, Unused,
       Sized, NoneOf

\* A value is written under a name that was not used before: the map becomes
\* tracked or the host's, or no more than its name is used up.
LEMMA FileWritten ==
    ASSUME TypeOK, FileInv, NEW n \in Names, Unused(n), NEW x \in Data,
           NEW column \in Columns,
           written' = [written EXCEPT ![n] = x],
           files' = [files EXCEPT ![n] = column],
           UNCHANGED <<freed, argument, cacheEnabled, faults>>,
           \/ allocated' = allocated \cup {n} /\ owned' = owned
           \/ allocated' = allocated /\ owned' = owned \cup {n}
           \/ allocated' = allocated /\ owned' = owned,
           n \in allocated' \cup owned' => Whole(column, x) /\ (Sized => Single(column, x)),
           n \notin allocated' \cup owned' =>
                (NoneOf({"truncate_error", "map_error", "open_error", "remove_error"}) =>
                    column = NoFile)
    PROVE  FileInv'
<1>1. /\ written'[n] = x /\ files'[n] = column
      /\ \A m \in Names \ {n} : written'[m] = written[m] /\ files'[m] = files[m]
    BY DEF TypeOK, Columns
<1>2. n \notin allocated \cup owned \cup freed /\ files[n] = NoFile
    BY DEF FileInv, Fresh
<1>3. x # NoData /\ \A m \in Names : Unused(m)' <=> (m # n /\ Unused(m))
    BY <1>1, DistinctMarkers DEF Unused
<1>4. Fresh'
    BY <1>1, <1>3 DEF FileInv, Fresh
<1>5. Homes'
    BY <1>2 DEF FileInv, Homes
<1>6. Columned'
    <2>1. ASSUME NEW m \in (allocated \cup owned)'
          PROVE  Whole(files'[m], written'[m]) /\ (Sized => Single(files'[m], written'[m]))
        <3>1. m \in Names
            BY <2>1 DEF TypeOK
        <3>2. CASE m = n
            BY <1>1, <2>1, <3>2
        <3>3. CASE m # n
            BY <1>1, <2>1, <3>1, <3>3 DEF FileInv, Columned
        <3> QED
            BY <3>2, <3>3
    <2> QED
        BY <2>1 DEF Columned, Sized, NoneOf
<1>7. NothingLeft'
    BY <1>1 DEF FileInv, NothingLeft, NoneOf
<1>8. FreedAreGone'
    BY <1>1, <1>2 DEF FileInv, FreedAreGone, Sized, NoneOf, TypeOK
<1>9. ArgumentWritten'
    <2>1. argument # NoData => argument.name \in Names
        BY DEF TypeOK
    <2> QED
        BY <1>1, <1>3, <2>1 DEF FileInv, ArgumentWritten
<1> QED
    BY <1>4, <1>5, <1>6, <1>7, <1>8, <1>9 DEF FileInv

-----------------------------------------------------------------------------
(* The outputs.                                                            *)

\* The step begins or goes on with an encoding, and the responses and close
\* requests stay.
LEMMA EncodingRecord ==
    ASSUME TypeOK, NEW maps \in SUBSET Names, EncodingNext, Encoded(maps)
    PROVE  /\ encoding # Idle /\ encoding' # Idle
           /\ encoding' \in [pending : Seq(Data), done : SUBSET Names]
           /\ Head(encoding.pending) \in Data
           /\ Done' = Done \cup maps
<1>1. /\ encoding # Idle /\ encoding.pending # <<>>
      /\ encoding \in [pending : Seq(Data), done : SUBSET Names]
    BY DEF EncodingNext, TypeOK
<1>2. encoding.pending \in Seq(Data) /\ encoding.done \in SUBSET Names
    BY <1>1
<1>3. Tail(encoding.pending) \in Seq(Data) /\ Head(encoding.pending) \in Data
    BY <1>1, <1>2
<1>4. /\ encoding' = [pending |-> Tail(encoding.pending), done |-> encoding.done \cup maps]
      /\ encoding' \in [pending : Seq(Data), done : SUBSET Names]
    BY <1>2, <1>3 DEF Encoded
<1>5. encoding' # Idle
    BY <1>4, IdleIsNoEncoding
<1> QED
    BY <1>1, <1>3, <1>4, <1>5 DEF Done

LEMMA StartEncodingKeeps ==
    ASSUME IInv, NEW k \in 0..MaxOutputs, NEW outputs \in [1..k -> Data],
           StartEncoding(outputs)
    PROVE  IInv'
<1>1. k \in Nat
    BY SharedMemoryAssumption
<1>2. outputs \in Seq(Data)
    BY <1>1
<1>3. encoding' = [pending |-> outputs, done |-> {}] /\ encoding = Idle
    BY DEF StartEncoding
<1>4. encoding' \in [pending : Seq(Data), done : SUBSET Names]
    BY <1>2, <1>3
<1>5. Done' = {} /\ Done = {}
    BY <1>3, <1>4, IdleIsNoEncoding DEF Done
<1>6. UNCHANGED <<files, allocated, written, responses, closing, freed, owned,
                  argument, enabled, cacheEnabled, faults>>
    BY DEF StartEncoding
<1>7. TypeOK'
    BY <1>4, <1>6 DEF IInv, TypeOK
<1>8. Batches'
    BY <1>5, <1>6 DEF IInv, Batches, Held, NoneOf
<1> QED
    BY <1>6, <1>7, <1>8, FilesUntouched DEF IInv

LEMMA SendOverRpcKeeps ==
    ASSUME IInv, SendOverRpc
    PROVE  IInv'
<1>1. /\ encoding' \in [pending : Seq(Data), done : SUBSET Names]
      /\ Done' = Done \cup {}
    BY EncodingRecord DEF SendOverRpc, IInv
<1>2. UNCHANGED <<files, allocated, written, responses, closing, freed, owned,
                  argument, enabled, cacheEnabled, faults>>
    BY DEF SendOverRpc
<1>3. TypeOK'
    BY <1>1, <1>2 DEF IInv, TypeOK
<1>4. Batches'
    BY <1>1, <1>2 DEF IInv, Batches, Held, NoneOf
<1> QED
    BY <1>2, <1>3, <1>4, FilesUntouched DEF IInv

\* An output is written to an unused name, by whatever action.
LEMMA WriteToFiles ==
    ASSUME IInv, NEW n \in Names, NEW column \in Columns, EncodingNext, WriteTo(n, column)
    PROVE  /\ Head(encoding.pending) \in Data /\ Unused(n)
           /\ written' = [written EXCEPT ![n] = Head(encoding.pending)]
           /\ files' = [files EXCEPT ![n] = column]
           /\ written' \in [Names -> Data \cup {NoData}]
           /\ files' \in [Names -> [Dirs -> Contents]]
           /\ UNCHANGED <<responses, closing, freed, owned, argument,
                          enabled, cacheEnabled, faults>>
<1>1. encoding.pending \in Seq(Data) /\ encoding.pending # <<>>
    BY DEF EncodingNext, IInv, TypeOK
<1>2. Head(encoding.pending) \in Data
    BY <1>1
<1>3. /\ Unused(n)
      /\ written' = [written EXCEPT ![n] = Head(encoding.pending)]
      /\ files' = [files EXCEPT ![n] = column]
      /\ UNCHANGED <<responses, closing, freed, owned, argument,
                     enabled, cacheEnabled, faults>>
    BY DEF WriteTo
<1> QED
    BY <1>2, <1>3 DEF IInv, TypeOK, Columns

LEMMA PutOutputKeeps ==
    ASSUME IInv, NEW n \in Names, PutOutput(n)
    PROVE  IInv'
<1>1. PICK column \in Created(Head(encoding.pending)) :
        WriteTo(n, column) /\ allocated' = allocated \cup {n} /\ Encoded({n})
    BY DEF PutOutput
<1>2. EncodingNext
    BY DEF PutOutput
<1>3. /\ encoding' \in [pending : Seq(Data), done : SUBSET Names]
      /\ Head(encoding.pending) \in Data
      /\ Done' = Done \cup {n}
    BY <1>1, <1>2, EncodingRecord DEF IInv
<1> DEFINE x == Head(encoding.pending)
<1>4. column \in Columns /\ Whole(column, x) /\ (Sized => Single(column, x))
    BY <1>1, <1>3, CreatedColumns
<1>5. /\ Unused(n)
      /\ written' = [written EXCEPT ![n] = x]
      /\ files' = [files EXCEPT ![n] = column]
      /\ written' \in [Names -> Data \cup {NoData}]
      /\ files' \in [Names -> [Dirs -> Contents]]
      /\ UNCHANGED <<responses, closing, freed, owned, argument,
                     enabled, cacheEnabled, faults>>
    BY <1>1, <1>2, <1>4, WriteToFiles
<1>6. TypeOK'
    BY <1>1, <1>3, <1>5 DEF IInv, TypeOK
<1>7. n \notin allocated
    BY <1>5 DEF IInv, FileInv, Fresh
<1>8. Batches'
    BY <1>1, <1>3, <1>5, <1>7 DEF IInv, Batches, Held, NoneOf
<1>9. FileInv'
    <2> HIDE DEF x
    <2> QED
        BY <1>1, <1>3, <1>4, <1>5, FileWritten DEF IInv, x
<1> QED
    BY <1>6, <1>8, <1>9 DEF IInv

\* An output that could not be put into a map uses up a name.
LEMMA LostKeeps ==
    ASSUME IInv, NEW n \in Names, NEW column \in Columns, EncodingNext, WriteTo(n, column),
           UNCHANGED allocated,
           Encoded({}) \/ ("map_error" \in faults /\ encoding' = Idle),
           NoneOf({"truncate_error", "map_error", "open_error", "remove_error"}) =>
                column = NoFile
    PROVE  IInv'
<1> DEFINE x == Head(encoding.pending)
<1>1. /\ x \in Data /\ Unused(n)
      /\ written' = [written EXCEPT ![n] = x]
      /\ files' = [files EXCEPT ![n] = column]
      /\ written' \in [Names -> Data \cup {NoData}]
      /\ files' \in [Names -> [Dirs -> Contents]]
      /\ UNCHANGED <<responses, closing, freed, owned, argument,
                     enabled, cacheEnabled, faults>>
    BY WriteToFiles
<1>2. \/ /\ encoding' \in [pending : Seq(Data), done : SUBSET Names]
         /\ Done' = Done
      \/ "map_error" \in faults /\ encoding' = Idle /\ Done' = {}
    <2>1. CASE Encoded({})
        <3>1. {} \in SUBSET Names /\ TypeOK
            BY DEF IInv
        <3>2. /\ encoding' \in [pending : Seq(Data), done : SUBSET Names]
              /\ Done' = Done \cup {}
            BY <2>1, <3>1, EncodingRecord
        <3> QED
            BY <3>2
    <2>2. CASE "map_error" \in faults /\ encoding' = Idle
        BY <2>2 DEF Done
    <2> QED
        BY <2>1, <2>2
<1>3. TypeOK'
    BY <1>1, <1>2 DEF IInv, TypeOK
<1>4. Batches'
    BY <1>1, <1>2 DEF IInv, Batches, Held, NoneOf
<1>5. n \notin allocated \cup owned
    BY <1>1 DEF IInv, FileInv, Fresh
<1>6. FileInv'
    <2> HIDE DEF x
    <2> QED
        BY <1>1, <1>5, FileWritten DEF IInv
<1> QED
    BY <1>3, <1>4, <1>6 DEF IInv

LEMMA CreateFailsKeeps ==
    ASSUME IInv, NEW n \in Names, CreateFails(n)
    PROVE  IInv'
<1>1. PICK column \in NotCreated : WriteTo(n, column) /\ Encoded({}) /\ UNCHANGED allocated
    BY DEF CreateFails
<1>2. column \in Columns /\ (Sized => column = NoFile)
    BY NotCreatedColumns
<1> QED
    BY <1>1, <1>2, LostKeeps DEF CreateFails, Sized, NoneOf

LEMMA WriteFailsKeeps ==
    ASSUME IInv, NEW n \in Names, WriteFails(n)
    PROVE  IInv'
<1>1. PICK column \in Created(Partial) : \E removal \in delete_mem_map(column) :
        WriteTo(n, removal.column) /\ Encoded({}) /\ UNCHANGED allocated
    BY DEF WriteFails
<1>2. PICK removal \in delete_mem_map(column) :
        WriteTo(n, removal.column) /\ Encoded({}) /\ UNCHANGED allocated
    BY <1>1
<1>3. column \in Columns /\ (Sized => Single(column, Partial))
    BY CreatedColumns
<1>4. removal.column \in Columns
    BY <1>3, DeleteColumns
<1>5. NoneOf({"truncate_error", "map_error", "open_error", "remove_error"}) =>
        removal.column = NoFile
    <2>1. NoneOf({"truncate_error", "map_error", "open_error", "remove_error"}) =>
            Sized /\ NoneOf({"open_error", "remove_error"})
        BY DEF Sized, NoneOf
    <2> QED
        BY <1>3, <2>1, DeleteSingle, DistinctMarkers
<1> QED
    BY <1>2, <1>4, <1>5, LostKeeps DEF WriteFails

LEMMA MapFailsKeeps ==
    ASSUME IInv, NEW n \in Names, MapFails(n)
    PROVE  IInv'
<1>1. PICK column \in Created(Partial) : WriteTo(n, column)
    BY DEF MapFails
<1>2. column \in Columns
    BY CreatedColumns
<1>3. ~NoneOf({"truncate_error", "map_error", "open_error", "remove_error"})
    BY DEF MapFails, NoneOf
<1> QED
    BY <1>1, <1>2, <1>3, LostKeeps DEF MapFails

LEMMA EncodeFailsKeeps ==
    ASSUME IInv, EncodeFails
    PROVE  IInv'
<1>1. /\ encoding' = Idle /\ "encode_error" \in faults
      /\ UNCHANGED <<files, allocated, written, responses, closing, freed, owned,
                     argument, enabled, cacheEnabled, faults>>
    BY DEF EncodeFails
<1>2. TypeOK'
    BY <1>1 DEF IInv, TypeOK
<1>3. Done' = {}
    BY <1>1 DEF Done
<1>4. Batches'
    BY <1>1, <1>3 DEF IInv, Batches, Held, NoneOf
<1> QED
    BY <1>1, <1>2, <1>4, FilesUntouched DEF IInv

\* The response takes over the maps of the encoding.
LEMMA RespondKeeps ==
    ASSUME IInv, Respond
    PROVE  IInv'
<1>1. /\ encoding # Idle /\ encoding' = Idle
      /\ responses' = responses \cup ({encoding.done} \ {{}})
      /\ UNCHANGED <<files, allocated, written, closing, freed, owned, argument,
                     enabled, cacheEnabled, faults>>
    BY DEF Respond
<1>2. Done = encoding.done /\ Done' = {} /\ Done \subseteq Names
    BY <1>1 DEF Done, IInv, TypeOK
<1>3. TypeOK'
    BY <1>1, <1>2 DEF IInv, TypeOK
<1>4. Held' = Held \cup Done
    BY <1>1, <1>2 DEF Held
<1>5. responses' \cap closing' = {}
    <2>1. encoding.done # {} => encoding.done \notin closing
        BY <1>2 DEF IInv, Batches, Held
    <2> QED
        BY <1>1, <2>1 DEF IInv, Batches
<1>6. \A a, b \in responses' \cup closing' : a # b => a \cap b = {}
    <2>1. \A a \in responses \cup closing : a \cap encoding.done = {}
        BY <1>2 DEF IInv, Batches, Held
    <2> QED
        BY <1>1, <2>1 DEF IInv, Batches
<1>7. Batches'
    BY <1>1, <1>2, <1>4, <1>5, <1>6 DEF IInv, Batches, NoneOf
<1> QED
    BY <1>1, <1>3, <1>7, FilesUntouched DEF IInv

-----------------------------------------------------------------------------
(* The inputs, the close requests and the host.                            *)

LEMMA ReadInputKeeps ==
    ASSUME IInv, NEW n \in Names, ReadInput(n)
    PROVE  IInv'
<1>1. PICK value \in Reads(n) : argument' = [name |-> n, value |-> value]
    BY DEF ReadInput
<1>2. /\ n \in owned
      /\ UNCHANGED <<files, allocated, written, encoding, responses, closing,
                     freed, owned, enabled, cacheEnabled, faults>>
    BY DEF ReadInput
<1>3. written[n] \in Data /\ Whole(files[n], written[n])
    BY <1>2 DEF IInv, TypeOK, FileInv, Fresh, Unused, Columned
<1>4. value \in {written[n], NoData} /\ value \in Contents \cup {NoData}
    BY <1>3, ReadsWhole, DistinctMarkers DEF Contents
<1>5. argument'.name = n /\ argument'.value = value
    BY <1>1
<1>6. TypeOK'
    BY <1>1, <1>2, <1>4 DEF IInv, TypeOK
<1>7. Batches'
    BY <1>2 DEF IInv, Batches, Held, Done, NoneOf
<1>8. FileInv'
    <2>1. ArgumentWritten'
        BY <1>2, <1>3, <1>4, <1>5, DistinctMarkers DEF ArgumentWritten, Unused
    <2>2. Fresh' /\ Homes' /\ Columned' /\ NothingLeft' /\ FreedAreGone'
        BY <1>2 DEF IInv, FileInv, Fresh, Homes, Columned, NothingLeft, FreedAreGone, Unused,
                    Sized, NoneOf
    <2> QED
        BY <2>1, <2>2 DEF FileInv
<1> QED
    BY <1>6, <1>7, <1>8 DEF IInv

\* What closing the maps of a request leaves of their files.
LEMMA FreedColumns ==
    ASSUME IInv, NEW request \in closing, NEW n \in request, NEW r \in Frees(n)
    PROVE  /\ n \in Names /\ n \in allocated
           /\ r.column \in Columns
           /\ cacheEnabled => r.column = files[n]
           /\ Sized /\ ~cacheEnabled /\ r.success => r.column = NoFile
           /\ NoneOf({"truncate_error", "open_error", "remove_error"}) /\ ~cacheEnabled =>
                r.column = NoFile
<1>1. n \in allocated /\ n \in Names /\ files[n] \in Columns /\ written[n] \in Data
    <2>1. n \in allocated
        BY DEF IInv, Batches, Held
    <2> QED
        BY <2>1 DEF IInv, TypeOK, FileInv, Fresh, Unused, Columns
<1>2. Sized => Single(files[n], written[n])
    BY <1>1 DEF IInv, FileInv, Columned
<1>3. written[n] # Absent
    BY <1>1, DistinctMarkers
<1>4. CASE cacheEnabled
    <2>1. r = [column |-> files[n], success |-> n \in allocated]
        BY <1>4 DEF Frees
    <2> QED
        BY <1>1, <1>4, <2>1
<1>5. CASE ~cacheEnabled
    <2>1. r \in delete_mem_map(files[n])
        BY <1>1, <1>5 DEF Frees
    <2>2. r.column \in Columns
        BY <1>1, <2>1, DeleteColumns
    <2>3. ASSUME Sized
          PROVE  /\ r.success => r.column = NoFile
                 /\ NoneOf({"open_error", "remove_error"}) => r.success
        BY <1>2, <1>3, <2>1, <2>3, DeleteSingle
    <2>4. NoneOf({"truncate_error", "open_error", "remove_error"}) =>
            Sized /\ NoneOf({"open_error", "remove_error"})
        BY DEF NoneOf, Sized
    <2> QED
        BY <1>1, <1>5, <2>2, <2>3, <2>4
<1> QED
    BY <1>4, <1>5

LEMMA CloseResourcesKeeps ==
    ASSUME IInv, NEW request \in closing, CloseResources(request)
    PROVE  IInv'
<1>1. PICK result \in [request -> UNION {Frees(n) : n \in request}] :
        /\ \A n \in request : result[n] \in Frees(n)
        /\ files' = [n \in Names |-> IF n \in request THEN result[n].column
                                                      ELSE files[n]]
        /\ freed' = freed \cup {n \in request : result[n].success}
    BY DEF CloseResources
<1>2. /\ encoding = Idle
      /\ closing' = closing \ {request}
      /\ allocated' = allocated \ request
      /\ owned' = IF cacheEnabled THEN owned \cup request ELSE owned
      /\ UNCHANGED <<written, encoding, responses, argument, enabled, cacheEnabled, faults>>
    BY DEF CloseResources
<1>3. request \subseteq allocated /\ request \subseteq Names
    BY DEF IInv, TypeOK, Batches, Held
<1>4. \A n \in request :
        /\ result[n].column \in Columns
        /\ cacheEnabled => result[n].column = files[n]
        /\ Sized /\ ~cacheEnabled /\ result[n].success => result[n].column = NoFile
        /\ NoneOf({"truncate_error", "open_error", "remove_error"}) /\ ~cacheEnabled =>
                result[n].column = NoFile
    BY <1>1, FreedColumns
<1>5. /\ \A n \in Names \ request : files'[n] = files[n]
      /\ \A n \in request : files'[n] = result[n].column
    BY <1>1, <1>3
<1>6. files' \in [Names -> [Dirs -> Contents]]
    BY <1>1, <1>4 DEF Columns, IInv, TypeOK
<1>7. freed' \subseteq freed \cup request
    BY <1>1
<1>8. TypeOK'
    BY <1>2, <1>3, <1>6, <1>7 DEF IInv, TypeOK
<1>9. Batches'
    <2>1. Held' \cup request = Held /\ Held' \cap request = {}
        BY <1>2 DEF IInv, Batches, Held
    <2>2. Done = {} /\ Done' = {}
        BY <1>2 DEF Done
    <2> QED
        BY <1>2, <2>1, <2>2 DEF IInv, Batches, NoneOf
<1>10. Fresh'
    BY <1>2, <1>3, <1>5, <1>7 DEF IInv, FileInv, Fresh, Unused
<1>11. Homes'
    BY <1>2, <1>7 DEF IInv, FileInv, Homes
<1>12. Columned'
    <2>1. ASSUME NEW n \in (allocated \cup owned)'
          PROVE  n \in allocated \cup owned /\ files'[n] = files[n]
        <3>1. CASE n \in request
            <4>1. cacheEnabled
                BY <1>2, <1>3, <2>1, <3>1 DEF IInv, FileInv, Homes
            <4> QED
                BY <1>3, <1>4, <1>5, <3>1, <4>1
        <3>2. CASE n \notin request
            BY <1>2, <1>5, <2>1, <3>2 DEF IInv, TypeOK
        <3> QED
            BY <3>1, <3>2
    <2> QED
        BY <1>2, <2>1 DEF IInv, FileInv, Columned, Sized, NoneOf
<1>13. NothingLeft'
    <2> SUFFICES ASSUME NoneOf({"truncate_error", "map_error", "open_error", "remove_error"})',
                        NEW n \in Names, files'[n] # NoFile
                 PROVE  n \in (allocated \cup owned)'
        BY DEF NothingLeft
    <2>1. /\ NoneOf({"truncate_error", "map_error", "open_error", "remove_error"})
          /\ NoneOf({"truncate_error", "open_error", "remove_error"})
        BY <1>2 DEF NoneOf
    <2>2. CASE n \in request
        BY <1>2, <1>4, <1>5, <2>1, <2>2
    <2>3. CASE n \notin request
        BY <1>2, <1>5, <2>1, <2>3 DEF IInv, FileInv, NothingLeft
    <2> QED
        BY <2>2, <2>3
<1>14. FreedAreGone'
    <2> SUFFICES ASSUME Sized', ~cacheEnabled', NEW n \in freed'
                 PROVE  files'[n] = NoFile
        BY DEF FreedAreGone
    <2>1. Sized /\ ~cacheEnabled
        BY <1>2 DEF Sized, NoneOf
    <2>2. CASE n \in freed
        <3>1. n \notin request /\ n \in Names
            BY <1>3, <2>2 DEF IInv, TypeOK, FileInv, Homes
        <3> QED
            BY <1>5, <2>1, <2>2, <3>1 DEF IInv, FileInv, FreedAreGone
    <2>3. CASE n \in request /\ result[n].success
        BY <1>4, <1>5, <2>1, <2>3
    <2> QED
        BY <1>1, <2>2, <2>3
<1>15. ArgumentWritten'
    BY <1>2 DEF IInv, FileInv, ArgumentWritten, Unused
<1> QED
    BY <1>8, <1>9, <1>10, <1>11, <1>12, <1>13, <1>14, <1>15 DEF IInv, FileInv

LEMMA HostClosesKeeps ==
    ASSUME IInv, NEW outputs \in responses, HostCloses(outputs)
    PROVE  IInv'
<1>1. /\ responses' = responses \ {outputs}
      /\ closing' = closing \cup {outputs}
      /\ UNCHANGED <<files, allocated, written, encoding, freed, owned, argument,
                     enabled, cacheEnabled, faults>>
    BY DEF HostCloses
<1>2. TypeOK'
    BY <1>1 DEF IInv, TypeOK
<1>3. Held' = Held /\ Done' = Done
    BY <1>1 DEF Held, Done
<1>4. responses' \cup closing' = responses \cup closing
    BY <1>1
<1>5. Batches'
    BY <1>1, <1>3, <1>4 DEF IInv, Batches, NoneOf
<1> QED
    BY <1>1, <1>2, <1>5, FilesUntouched DEF IInv

LEMMA HostPutsKeeps ==
    ASSUME IInv, NEW n \in Names, NEW x \in Data, NEW d \in Dirs, HostPuts(n, x, d)
    PROVE  IInv'
<1> DEFINE column == [files[n] EXCEPT ![d] = x]
<1>1. /\ Unused(n)
      /\ written' = [written EXCEPT ![n] = x]
      /\ files' = [files EXCEPT ![n] = column]
      /\ owned' = owned \cup {n}
      /\ UNCHANGED <<allocated, encoding, responses, closing, freed, argument,
                     enabled, cacheEnabled, faults>>
    BY DEF HostPuts
<1>2. files[n] = NoFile
    BY <1>1 DEF IInv, FileInv, Fresh
<1>3. column = [e \in Dirs |-> IF e = d THEN x ELSE Absent]
    BY <1>2 DEF NoFile
<1>4. column \in Columns /\ Single(column, x)
    BY <1>3 DEF Columns, Contents, Single
<1>5. Whole(column, x)
    BY <1>4, SingleIsWhole
<1> HIDE DEF column
<1>6. TypeOK'
    BY <1>1, <1>4 DEF IInv, TypeOK, Columns
<1>7. Batches'
    BY <1>1 DEF IInv, Batches, Held, Done, NoneOf
<1>8. FileInv'
    BY <1>1, <1>4, <1>5, FileWritten DEF IInv
<1> QED
    BY <1>6, <1>7, <1>8 DEF IInv

LEMMA HostDeletesKeeps ==
    ASSUME IInv, NEW n \in Names, HostDeletes(n)
    PROVE  IInv'
<1>1. /\ n \in owned
      /\ files' = [files EXCEPT ![n] = NoFile]
      /\ owned' = owned \ {n}
      /\ UNCHANGED <<allocated, written, encoding, responses, closing, freed,
                     argument, enabled, cacheEnabled, faults>>
    BY DEF HostDeletes
<1>2. NoFile \in Columns
    BY DEF NoFile, Columns, Contents
<1>3. /\ files' \in [Names -> [Dirs -> Contents]]
      /\ files'[n] = NoFile
      /\ \A m \in Names \ {n} : files'[m] = files[m]
    BY <1>1, <1>2 DEF IInv, TypeOK, Columns
<1>4. TypeOK'
    BY <1>1, <1>3 DEF IInv, TypeOK
<1>5. Batches'
    BY <1>1 DEF IInv, Batches, Held, Done, NoneOf
<1>6. n \notin allocated
    BY <1>1 DEF IInv, FileInv, Homes
<1>7. Fresh' /\ Homes'
    BY <1>1, <1>3 DEF IInv, FileInv, Fresh, Homes, Unused
<1>8. Columned'
    BY <1>1, <1>3, <1>6 DEF IInv, TypeOK, FileInv, Columned, Sized, NoneOf
<1>9. NothingLeft'
    BY <1>1, <1>3 DEF IInv, FileInv, NothingLeft, NoneOf
<1>10. FreedAreGone'
    BY <1>1, <1>3 DEF IInv, TypeOK, FileInv, FreedAreGone, Sized, NoneOf
<1>11. ArgumentWritten'
    BY <1>1 DEF IInv, FileInv, ArgumentWritten, Unused
<1> QED
    BY <1>4, <1>5, <1>7, <1>8, <1>9, <1>10, <1>11 DEF IInv, FileInv

LEMMA ReloadSettingKeeps ==
    ASSUME IInv, ReloadSetting
    PROVE  IInv'
<1>1. /\ enabled' \in BOOLEAN
      /\ UNCHANGED <<files, allocated, written, encoding, responses, closing,
                     freed, owned, argument, cacheEnabled, faults>>
    BY DEF ReloadSetting
<1>2. TypeOK'
    BY <1>1 DEF IInv, TypeOK
<1>3. Batches'
    BY <1>1 DEF IInv, Batches, Held, Done, NoneOf
<1> QED
    BY <1>1, <1>2, <1>3, FilesUntouched DEF IInv

LEMMA NextIInv == IInv /\ [Next]_vars => IInv'
<1> SUFFICES ASSUME IInv, [Next]_vars PROVE IInv'
    OBVIOUS
<1>1. ASSUME NEW k \in 0..MaxOutputs, NEW outputs \in [1..k -> Data], StartEncoding(outputs)
      PROVE  IInv'
    BY <1>1, StartEncodingKeeps
<1>2. CASE SendOverRpc
    BY <1>2, SendOverRpcKeeps
<1>3. ASSUME NEW n \in Names, PutOutput(n) PROVE IInv'
    BY <1>3, PutOutputKeeps
<1>4. ASSUME NEW n \in Names, CreateFails(n) PROVE IInv'
    BY <1>4, CreateFailsKeeps
<1>5. ASSUME NEW n \in Names, WriteFails(n) PROVE IInv'
    BY <1>5, WriteFailsKeeps
<1>6. ASSUME NEW n \in Names, MapFails(n) PROVE IInv'
    BY <1>6, MapFailsKeeps
<1>7. CASE EncodeFails
    BY <1>7, EncodeFailsKeeps
<1>8. CASE Respond
    BY <1>8, RespondKeeps
<1>9. ASSUME NEW n \in Names, ReadInput(n) PROVE IInv'
    BY <1>9, ReadInputKeeps
<1>10. ASSUME NEW request \in closing, CloseResources(request) PROVE IInv'
    BY <1>10, CloseResourcesKeeps
<1>11. ASSUME NEW outputs \in responses, HostCloses(outputs) PROVE IInv'
    BY <1>11, HostClosesKeeps
<1>12. ASSUME NEW n \in Names, NEW x \in Data, NEW d \in Dirs, HostPuts(n, x, d) PROVE IInv'
    BY <1>12, HostPutsKeeps
<1>13. ASSUME NEW n \in Names, HostDeletes(n) PROVE IInv'
    BY <1>13, HostDeletesKeeps
<1>14. CASE ReloadSetting
    BY <1>14, ReloadSettingKeeps
<1>15. CASE UNCHANGED vars
    <2>1. TypeOK' /\ Batches'
        BY <1>15 DEF vars, IInv, TypeOK, Batches, Held, Done, NoneOf
    <2>2. FileInv'
        BY <1>15, FilesUntouched DEF vars, IInv
    <2> QED
        BY <2>1, <2>2 DEF IInv
<1> QED
    BY <1>1, <1>2, <1>3, <1>4, <1>5, <1>6, <1>7, <1>8, <1>9, <1>10, <1>11, <1>12, <1>13, <1>14,
       <1>15 DEF Next

-----------------------------------------------------------------------------
(* The theorems.                                                           *)

\* The inductive invariant holds of every behaviour of worker and host.
THEOREM Invariance == Spec => []IInv
BY InitIInv, NextIInv, PTL DEF Spec

\* The maps, their files and what the host holds of them keep their types.
THEOREM TypeCorrect == Spec => []TypeOK
<1>1. IInv => TypeOK
    BY DEF IInv
<1> QED
    BY <1>1, Invariance, PTL

\* A map that a response names, that the worker tracks or of which the host
\* disposes, can be read and holds what was written: no close, read or failed
\* write of another output takes it away.
THEOREM HeldIsReadableAlways == Spec => []HeldIsReadable
<1>1. IInv => HeldIsReadable
    <2> SUFFICES ASSUME IInv, NoneOf({"truncate_error", "open_error"}), 
                        NEW n \in Held \cup allocated \cup owned
                 PROVE  Reads(n) = {written[n]}
        BY DEF HeldIsReadable
    <2>1. n \in allocated \cup owned /\ n \in Names
        BY DEF IInv, TypeOK, Batches
    <2>2. Sized /\ NoneOf({"open_error"})
        BY DEF Sized, NoneOf
    <2>3. Single(files[n], written[n])
        BY <2>1, <2>2 DEF IInv, FileInv, Columned
    <2>4. written[n] \in Data
        BY <2>1 DEF IInv, TypeOK, FileInv, Fresh, Unused
    <2> QED
        BY <2>2, <2>3, <2>4, ReadsSingle, DistinctMarkers
<1> QED
    BY <1>1, Invariance, PTL

\* A function gets what was written for it, or nothing, whatever fails.
THEOREM InputAsWrittenAlways == Spec => []InputAsWritten
<1>1. IInv => InputAsWritten
    BY DEF IInv, FileInv, ArgumentWritten, InputAsWritten
<1> QED
    BY <1>1, Invariance, PTL

\* The worker has a reference to every map the host may still ask it to close,
\* and between two handlers to no other.
THEOREM TrackingAgreesAlways == Spec => []TrackingAgrees
<1>1. IInv => TrackingAgrees
    BY DEF IInv, Batches, TrackingAgrees, Done
<1> QED
    BY <1>1, Invariance, PTL

\* Between two handlers the host has every file still to close or at its
\* disposal, if outputs can be encoded; the worker tracks what else there is.
THEOREM NoLeakAlways == Spec => []NoLeak
<1>1. IInv => NoLeak
    <2> SUFFICES ASSUME IInv, encoding = Idle, NEW n \in Names, files[n] # NoFile,
                        NoneOf({"truncate_error", "map_error", "open_error", "remove_error"})
                 PROVE  /\ n \in allocated \cup owned
                        /\ NoneOf({"encode_error"}) => n \in Held \cup owned
        BY DEF NoLeak
    <2>1. n \in allocated \cup owned
        BY DEF IInv, FileInv, NothingLeft
    <2>2. NoneOf({"encode_error"}) => NoneOf({"map_error", "encode_error"})
        BY DEF NoneOf
    <2>3. NoneOf({"encode_error"}) => allocated = Held
        BY <2>2 DEF IInv, Batches, Done
    <2> QED
        BY <2>1, <2>3
<1> QED
    BY <1>1, Invariance, PTL

\* A map that is reported closed is not tracked and, if the host does not cache
\* it, has no file, whatever fails after the file was given its size.
THEOREM FreedIsGoneAlways == Spec => []FreedIsGoneIfSized
<1>1. IInv => FreedIsGoneIfSized
    BY DEF IInv, FileInv, Homes, FreedAreGone, FreedIsGoneIfSized, FreedIsGone, Sized
<1> QED
    BY <1>1, Invariance, PTL

=============================================================================
