---------------------------- MODULE MCHostCalls ----------------------------
(* A small instance of HostCalls for TLC: i32 of five bits (a memory of up *)
(* to 32 bytes, four vectors), paths of up to six characters, values of up *)
(* to four bytes, lists of two names of two characters.                    *)
EXTENDS HostCalls

Max32 == 15
\* Below, at and above 2^31 - 1.
Memories == {12, 15, 16, 32}
Ptrs == {-1, 0, 4, 8, 11, 15}

MemoryCalls ==
    [op : {"get_secret", "get_config"}, memory : {12, 16}, name : {-1, 0, 12}, nameLen : {-1, 1},
     at : {-1, 0, 11, 12, 15}, len : {-1, 0, 1, 2}, value : -1..2]
    \cup [op : {"random_get"}, memory : Memories, at : Ptrs, len : {-1, 0, 1, 4, 15}]
    \cup [op : {"write_word"}, memory : Memories, at : Ptrs, len : {4, 8}]
    \cup [op : {"sizes_get"}, memory : Memories, at : Ptrs, second : Ptrs]
    \cup [op : {"fd_write"}, memory : {15, 16, 32}, iovs : {-1, 0, 8, 11, 15},
          count : {-1, 0, 2, 15}, nwritten : {12}]

Chars == {Slash, ".", "a"}
WidePaths == BoundedSeq(Chars, 6)
A == <<"a">>
Root == <<Slash>>
NarrowPaths ==
    {Root \o A, Root \o A \o A, Root \o A \o Root \o A, Root \o A \o Root \o Root \o A,
     Root \o A \o Root \o A \o Root}
CallMounts == {Root \o A, Root, Root \o A \o Root}

Values == BoundedSeq({0, 107, 255}, 2)
            \cup {<<0, 0, 0>>, <<107, 255, 0>>, <<255, 0, 107, 255>>, <<0, 107, 255, 0>>}
TwoValues == {<<>>, <<255>>}

StorageCalls ==
    [op : {"storage_write"}, path : NarrowPaths, value : TwoValues]
    \cup [op : {"storage_read_equals"}, path : WidePaths, value : {<<255>>}]
    \cup [op : {"storage_write", "storage_read_equals"}, path : {Root \o A \o Root \o A},
          value : Values]

Names == BoundedSeq({"a", Comma, Quote, Backslash, "HT", "ESC"}, 2)
ListCalls == [op : {"list"}, names : BoundedSeq(Names, 2)]

AllCalls == MemoryCalls \cup StorageCalls \cup ListCalls
=============================================================================
