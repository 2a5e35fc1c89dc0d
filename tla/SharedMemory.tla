---------------------------- MODULE SharedMemory ----------------------------
(***************************************************************************)
(* The transfer of large values between the worker and the functions host  *)
(* through shared memory maps (bindings/shared_memory_data_transfer).      *)
(*                                                                         *)
(* On Unix a map is a file in one of a list of directories, tried in order *)
(* of preference.  An output that qualifies is written to a new map, the   *)
(* map is tracked in _allocated_mem_maps, and the invocation response      *)
(* names it.  When the host has read it, it asks the worker to close it:   *)
(* the worker deletes the file, or, when the host caches the data of       *)
(* functions, drops its reference and leaves the file to the host, which   *)
(* may give it as an input to a later invocation.                          *)
(*                                                                         *)
(* The event loop runs a handler's reading of the inputs, its encoding of  *)
(* the outputs and the closing of maps without a suspension: no two of     *)
(* them overlap.  The encoding takes a step per output, because it is      *)
(* there that one of several may fail.                                     *)
(***************************************************************************)
EXTENDS Naturals, Sequences, FiniteSets

CONSTANTS
    Names,          \* names of memory maps, each of them used once
    NumDirs,        \* number of valid directories
    Data,           \* the values a function's outputs may have
    MinBytes,       \* MIN_BYTES_FOR_SHARED_MEM_TRANSFER
    MaxBytes,       \* MAX_BYTES_FOR_SHARED_MEM_TRANSFER
    MaxOutputs,     \* bound: outputs of one invocation
    Absent,         \* there is no file
    Blank,          \* a file of no bytes
    Partial,        \* a file of the right size with part of its content
    NoData,         \* Python's None, where a value is expected
    Idle,           \* no invocation is encoding its outputs
    FaultSets       \* which failures of FaultKinds may happen together

FaultKinds ==
    {"create_error",    \* a file cannot be created in a directory
     "truncate_error",  \* it is created there but cannot be given its size
     "map_error",       \* a new file cannot be mapped
     "write_error",     \* the content cannot be written, or not all of it
     "open_error",      \* an existing file cannot be opened
     "remove_error",    \* a file cannot be removed
     "encode_error"}    \* an output is not one its binding can encode

Dirs == 1..NumDirs
Types == {"bytes", "string", "json"}

ASSUME SharedMemoryAssumption ==
    /\ NumDirs \in Nat /\ MinBytes \in Nat /\ MaxBytes \in Nat /\ MaxOutputs \in Nat
    /\ FaultSets \subseteq SUBSET FaultKinds
    /\ Data \subseteq [type : Types, chars : Nat, bytes : Nat]
    /\ Cardinality({Absent, Blank, Partial, NoData}) = 4
    /\ {Absent, Blank, Partial, NoData} \cap Data = {}

ASSUME IdleIsNoEncoding == Idle \notin [pending : Seq(Data), done : SUBSET Names]

Contents == Data \cup {Absent, Blank, Partial}

VARIABLES
    files,          \* name -> directory -> what the file there holds
    allocated,      \* the keys of _allocated_mem_maps
    written,        \* name -> the value its creator wrote, NoData before
    encoding,       \* outputs still to encode and maps made for the others
    responses,      \* the maps of each response whose outputs the host holds
    closing,        \* close requests in flight, each with its map names
    freed,          \* the names reported closed to the host
    owned,          \* the names of which the host disposes
    argument,       \* what the last input over shared memory was read as
    enabled,        \* the app setting that allows the transfer
    cacheEnabled,   \* _function_data_cache_enabled
    faults          \* the failures that may happen

vars == <<files, allocated, written, encoding, responses, closing, freed,
          owned, argument, enabled, cacheEnabled, faults>>

TypeOK ==
    /\ files \in [Names -> [Dirs -> Contents]]
    /\ allocated \subseteq Names
    /\ written \in [Names -> Data \cup {NoData}]
    /\ \/ encoding = Idle
       \/ encoding \in [pending : Seq(Data), done : SUBSET Names]
    /\ responses \subseteq SUBSET Names
    /\ closing \subseteq SUBSET Names
    /\ freed \subseteq Names
    /\ owned \subseteq Names
    /\ argument \in [name : Names, value : Contents \cup {NoData}] \cup {NoData}
    /\ enabled \in BOOLEAN
    /\ cacheEnabled \in BOOLEAN
    /\ faults \in FaultSets

NoFile == [d \in Dirs |-> Absent]

\* Mutant: the cache flag has no value before a request carries one.
InitUnset ==
    /\ files = [n \in Names |-> NoFile]
    /\ allocated = {}
    /\ written = [n \in Names |-> NoData]
    /\ encoding = Idle
    /\ responses = {}
    /\ closing = {}
    /\ freed = {}
    /\ owned = {}
    /\ argument = NoData
    /\ enabled \in BOOLEAN
    /\ cacheEnabled = NoData
    /\ faults \in FaultSets

Init ==
    /\ files = [n \in Names |-> NoFile]
    /\ allocated = {}
    /\ written = [n \in Names |-> NoData]
    /\ encoding = Idle
    /\ responses = {}
    /\ closing = {}
    /\ freed = {}
    /\ owned = {}
    /\ argument = NoData
    /\ enabled \in BOOLEAN
    /\ cacheEnabled \in BOOLEAN
    /\ faults \in FaultSets

(* The file accessor ******************************************************)

Holding(column) == {d \in Dirs : column[d] # Absent}

Unopenable == IF "open_error" \in faults THEN SUBSET Dirs ELSE {{}}

\* The directory in which a map is found, in a set of none or one: the first
\* that has the file and in which it can be opened.
Found(column, unopenable) ==
    {d \in Holding(column) \ unopenable :
        \A e \in Holding(column) \ unopenable : d <= e}

FailedAttempt ==
    (IF "create_error" \in faults THEN {Absent} ELSE {})
        \cup (IF "truncate_error" \in faults THEN {Blank} ELSE {})

\* What the attempts to create a file that ends up with the given content
\* leave behind: the file in the first directory that takes it, and in each
\* before it what a failed attempt leaves.
Created(content) ==
    {column \in [Dirs -> {Absent, Blank, content}] :
        \E k \in Dirs : \A d \in Dirs :
            /\ d < k => column[d] \in FailedAttempt
            /\ d = k => column[d] = content
            /\ d > k => column[d] = Absent}

NotCreated == [Dirs -> FailedAttempt]

Removal(column, found) ==
    IF found = {}
    THEN {[column |-> column, success |-> FALSE]}
    ELSE {[column |-> [d \in Dirs |-> IF d \in found THEN Absent ELSE column[d]],
           success |-> TRUE]}
         \cup (IF "remove_error" \in faults
               THEN {[column |-> column, success |-> FALSE]} ELSE {})

\* The possible results of deleting a map: an error is logged, not raised.
delete_mem_map(column) ==
    UNION {Removal(column, Found(column, u)) : u \in Unopenable}

\* What reading the input n gives: None when no file can be opened, an
\* exception (NoData as well: the function is not called) when the file is
\* too short to be mapped.
Reads(n) ==
    {IF \E d \in found : files[n][d] # Blank
     THEN files[n][CHOOSE d \in found : TRUE]
     ELSE NoData : found \in {Found(files[n], u) : u \in Unopenable}}

(* Outputs ****************************************************************)

\* The number of bytes the limits are compared with: .NET counts two for a
\* character, whatever the encoding that is written takes.
CountedBytes(x) == IF x.type = "string" THEN 2 * x.chars ELSE x.bytes

is_supported(x) ==
    /\ x.type \in {"bytes", "string"}
    /\ CountedBytes(x) \in MinBytes..MaxBytes

\* With the cache any size is transferred over shared memory.
CanTransferOverShmem(x) ==
    /\ enabled
    /\ \/ is_supported(x)
       \/ cacheEnabled /\ x.type \in {"bytes", "string"}

Unused(n) == written[n] = NoData

\* Bound: an invocation starts, and the host writes, while there are names
\* for the outputs still to encode.
NamesSuffice(outputs) == Cardinality({n \in Names : Unused(n)}) >= outputs

\* The user's function has returned: its outputs are encoded in order.
StartEncoding(outputs) ==
    /\ encoding = Idle
    /\ NamesSuffice(Len(outputs))
    /\ encoding' = [pending |-> outputs, done |-> {}]
    /\ UNCHANGED <<files, allocated, written, responses, closing, freed, owned,
                   argument, enabled, cacheEnabled, faults>>

Encoded(maps) ==
    encoding' = [pending |-> Tail(encoding.pending), done |-> encoding.done \cup maps]

EncodingNext == encoding # Idle /\ encoding.pending # <<>>

SendOverRpc ==
    /\ EncodingNext
    /\ ~CanTransferOverShmem(Head(encoding.pending))
    /\ Encoded({})
    /\ UNCHANGED <<files, allocated, written, responses, closing, freed, owned,
                   argument, enabled, cacheEnabled, faults>>

\* The output goes to the map n; its file system column becomes `column'.
WriteTo(n, column) ==
    /\ CanTransferOverShmem(Head(encoding.pending))
    /\ Unused(n)
    /\ written' = [written EXCEPT ![n] = Head(encoding.pending)]
    /\ files' = [files EXCEPT ![n] = column]
    /\ UNCHANGED <<responses, closing, freed, owned, argument,
                   enabled, cacheEnabled, faults>>

\* Mutant: the number of bytes written is not compared with the length.
PutOutputUnchecked(n) ==
    /\ EncodingNext
    /\ \E column \in Created(Partial) \cup Created(Head(encoding.pending)) :
        /\ WriteTo(n, column)
        /\ allocated' = allocated \cup {n}
        /\ Encoded({n})

PutOutput(n) ==
    /\ EncodingNext
    /\ \E column \in Created(Head(encoding.pending)) :
        /\ WriteTo(n, column)
        /\ allocated' = allocated \cup {n}
        /\ Encoded({n})

\* No directory takes the file: the output is sent over RPC instead.
CreateFails(n) ==
    /\ EncodingNext
    /\ \E column \in NotCreated :
        /\ WriteTo(n, column)
        /\ Encoded({})
        /\ UNCHANGED allocated

\* Mutant: the map is closed and its file is left.
WriteFailsKept(n) ==
    /\ "write_error" \in faults
    /\ EncodingNext
    /\ \E column \in Created(Partial) :
        /\ WriteTo(n, column)
        /\ Encoded({})
        /\ UNCHANGED allocated

\* The content cannot be written: the map is disposed of with its file, and
\* the output is sent over RPC instead.
WriteFails(n) ==
    /\ "write_error" \in faults
    /\ EncodingNext
    /\ \E column \in Created(Partial) : \E removal \in delete_mem_map(column) :
        /\ WriteTo(n, removal.column)
        /\ Encoded({})
        /\ UNCHANGED allocated

\* Mapping the new file raises an exception: the invocation fails, and the
\* file is left without a reference to it.
MapFails(n) ==
    /\ "map_error" \in faults
    /\ EncodingNext
    /\ \E column \in Created(Partial) : WriteTo(n, column)
    /\ encoding' = Idle
    /\ UNCHANGED allocated

\* An output cannot be encoded: the invocation fails, its response names no
\* map, and the maps of the outputs before it stay allocated.
EncodeFails ==
    /\ "encode_error" \in faults
    /\ EncodingNext
    /\ encoding' = Idle
    /\ UNCHANGED <<files, allocated, written, responses, closing, freed, owned,
                   argument, enabled, cacheEnabled, faults>>

Respond ==
    /\ encoding # Idle
    /\ encoding.pending = <<>>
    /\ responses' = responses \cup ({encoding.done} \ {{}})
    /\ encoding' = Idle
    /\ UNCHANGED <<files, allocated, written, closing, freed, owned, argument,
                   enabled, cacheEnabled, faults>>

(* Inputs *****************************************************************)

\* Mutant: the map is disposed of with its file.
ReadInputDisposed(n) ==
    /\ encoding = Idle
    /\ n \in owned
    /\ \E value \in Reads(n) : argument' = [name |-> n, value |-> value]
    /\ \E removal \in delete_mem_map(files[n]) :
        files' = [files EXCEPT ![n] = removal.column]
    /\ UNCHANGED <<allocated, written, encoding, responses, closing,
                   freed, owned, enabled, cacheEnabled, faults>>

\* The input of an invocation is in a map the host disposes of.  The worker
\* closes its mapping and leaves the file.
ReadInput(n) ==
    /\ encoding = Idle
    /\ n \in owned
    /\ \E value \in Reads(n) : argument' = [name |-> n, value |-> value]
    /\ UNCHANGED <<files, allocated, written, encoding, responses, closing,
                   freed, owned, enabled, cacheEnabled, faults>>

(* The host's close requests **********************************************)

\* Mutant: the file is never deleted.
FreesUndeleted(n) == {[column |-> files[n], success |-> n \in allocated]}

\* The possible results of free_mem_map: the column and whether it succeeds.
Frees(n) ==
    IF n \in allocated /\ ~cacheEnabled
    THEN delete_mem_map(files[n])
    ELSE {[column |-> files[n], success |-> n \in allocated]}

\* A map is no longer tracked once it is closed, deleted or not.
CloseResources(request) ==
    /\ encoding = Idle
    /\ request \in closing
    /\ closing' = closing \ {request}
    /\ \E result \in [request -> UNION {Frees(n) : n \in request}] :
        /\ \A n \in request : result[n] \in Frees(n)
        /\ files' = [n \in Names |-> IF n \in request THEN result[n].column
                                                      ELSE files[n]]
        /\ freed' = freed \cup {n \in request : result[n].success}
    /\ allocated' = allocated \ request
    /\ owned' = IF cacheEnabled THEN owned \cup request ELSE owned
    /\ UNCHANGED <<written, encoding, responses, argument, enabled, cacheEnabled, faults>>

(* The host and the environment *******************************************)

HostCloses(outputs) ==
    /\ outputs \in responses
    /\ responses' = responses \ {outputs}
    /\ closing' = closing \cup {outputs}
    /\ UNCHANGED <<files, allocated, written, encoding, freed, owned, argument,
                   enabled, cacheEnabled, faults>>

\* The host writes an input, or puts a value in its cache.
HostPuts(n, x, d) ==
    /\ Unused(n)
    /\ NamesSuffice(1 + IF encoding = Idle THEN 0 ELSE Len(encoding.pending))
    /\ x.type # "json"
    /\ written' = [written EXCEPT ![n] = x]
    /\ files' = [files EXCEPT ![n][d] = x]
    /\ owned' = owned \cup {n}
    /\ UNCHANGED <<allocated, encoding, responses, closing, freed, argument,
                   enabled, cacheEnabled, faults>>

HostDeletes(n) ==
    /\ n \in owned
    /\ files' = [files EXCEPT ![n] = NoFile]
    /\ owned' = owned \ {n}
    /\ UNCHANGED <<allocated, written, encoding, responses, closing, freed,
                   argument, enabled, cacheEnabled, faults>>

\* Mutant: the references to the maps are dropped with the setting.
ReloadSettingClears ==
    /\ encoding = Idle
    /\ enabled' \in BOOLEAN
    /\ allocated' = {}
    /\ UNCHANGED <<files, written, encoding, responses, closing, freed, owned,
                   argument, cacheEnabled, faults>>

\* A reload of the environment may change the setting under maps in use.
ReloadSetting ==
    /\ encoding = Idle
    /\ enabled' \in BOOLEAN
    /\ UNCHANGED <<files, allocated, written, encoding, responses, closing,
                   freed, owned, argument, cacheEnabled, faults>>

Next ==
    \/ \E k \in 0..MaxOutputs : \E outputs \in [1..k -> Data] : StartEncoding(outputs)
    \/ SendOverRpc
    \/ \E n \in Names : PutOutput(n)
    \/ \E n \in Names : CreateFails(n)
    \/ \E n \in Names : WriteFails(n)
    \/ \E n \in Names : MapFails(n)
    \/ EncodeFails
    \/ Respond
    \/ \E n \in Names : ReadInput(n)
    \/ \E request \in closing : CloseResources(request)
    \/ \E outputs \in responses : HostCloses(outputs)
    \/ \E n \in Names, x \in Data, d \in Dirs : HostPuts(n, x, d)
    \/ \E n \in Names : HostDeletes(n)
    \/ ReloadSetting

Spec == Init /\ [][Next]_vars

(* Properties *************************************************************)

\* The maps whose outputs the host still has to read or to have closed.
Held == UNION (responses \cup closing)

NoneOf(kinds) == faults \cap kinds = {}

\* A map that a response names or the worker tracks, and one the host disposes
\* of, is there with the value that was written, and a search of the
\* directories finds it: no close, read or failed write of another output takes
\* it away, and a map that could not be mapped or written is not tracked
\* (put_bytes, get_bytes and free_mem_map), if files can be given a size and
\* opened.
HeldIsReadable ==
    NoneOf({"truncate_error", "open_error"}) =>
        \A n \in Held \cup allocated \cup owned : Reads(n) = {written[n]}

\* What a function gets for an input in shared memory is what was written
\* there, by the host or as the output of an earlier invocation, or nothing:
\* never a part of it (get_bytes, whatever fails).
InputAsWritten ==
    argument # NoData => argument.value \in {written[argument.name], NoData}

\* The worker keeps its reference to a map until the host has had it closed
\* (_allocated_mem_maps), whatever fails and however the setting changes.
\* Between two handlers it tracks no other map, so that each can still be
\* closed by a request, unless mapping a file or encoding an output ends an
\* invocation half-way (put_bytes, free_mem_map).
TrackingAgrees ==
    /\ Held \subseteq allocated
    /\ NoneOf({"map_error", "encode_error"}) /\ encoding = Idle => allocated = Held

\* No file is left that nobody will remove: between two handlers the host has
\* each of them still to close or at its disposal (put_bytes' and
\* free_mem_map's dispose), if what was created can be sized, mapped, opened
\* and removed and every output can be encoded.  If one cannot, nobody will ask
\* to close the maps made before it; these are still among those the worker
\* tracks, and no other file is left.
NoLeak ==
    NoneOf({"truncate_error", "map_error", "open_error", "remove_error"})
        /\ encoding = Idle =>
            \A n \in Names : files[n] # NoFile =>
                /\ n \in allocated \cup owned
                /\ NoneOf({"encode_error"}) => n \in Held \cup owned

\* A map reported closed is gone: not tracked and, unless the host caches
\* it, without a file in any directory (free_mem_map, delete_mem_map).
FreedIsGone ==
    \A n \in freed :
        /\ n \notin allocated
        /\ ~cacheEnabled => files[n] = NoFile

\* The same if a file that was created can be given its size, whatever else
\* fails: a removal that fails is not reported as one that succeeded.
FreedIsGoneIfSized == NoneOf({"truncate_error"}) => FreedIsGone

=============================================================================
