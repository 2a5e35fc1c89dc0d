--------------------------- MODULE MCSharedMemory ---------------------------
(* Instances of SharedMemory with limits of 2 and 4 bytes.                 *)
EXTENDS SharedMemory, TLC

Value(type, chars, bytes) == [type |-> type, chars |-> chars, bytes |-> bytes]

\* One value that only the cache transfers and one that always is.
SmallAndLarge == {Value("bytes", 1, 1), Value("string", 2, 3)}

\* A value that is never transferred and one that always is.
JsonAndLarge == {Value("json", 9, 9), Value("bytes", 3, 3)}

\* All failures, and for each property all those under which it is to hold.
LargestFaultSets ==
    {FaultKinds,
     FaultKinds \ {"truncate_error"},
     FaultKinds \ {"truncate_error", "open_error"},
     FaultKinds \ {"map_error", "encode_error"},
     {"create_error", "write_error", "encode_error"},
     {"create_error", "write_error"}}

\* Only the failure to give a file its size.
SizeFails == {{"truncate_error"}}

\* The names of maps are interchangeable.
NameSymmetry == Permutations(Names)
=============================================================================
