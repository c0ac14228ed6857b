------------------------------ MODULE MCRuntime ------------------------------
(* A small runtime.                                                          *)
EXTENDS Runtime

\* Two descriptors of the file, and calls of one or two buffers.
TwoFlags == [rw |-> {"read", "write"}, ap |-> {"write", "append"}]
OneRead == {<<1, MaxSize>>}
TwoWrites == {<<<<>>, <<1>>>>, <<<<1>>, <<0>>>>}
Offsets == {-1, MaxSize - 1}
Moves == {<<-1, "cur">>, <<1, "set">>, <<1, "end">>}
SomeLengths == {-1, 0, 1, MaxSize}
ShortFiles == {<<>>, <<1>>, <<1, 1>>}
TwoRegions == {<<0, 2>>, <<1, 2>>}

\* Names whose hashes collide, and paths of one or two of them.
OneDirectory == <<"tmp">>
Collide == [tmp |-> 0, x |-> 0]
Openings == {{}, {"directory"}, {"write", "create"}, {"write", "create", "excl"}}
Paths == {<<>>, <<"tmp">>, <<"x">>, <<"x", "tmp">>}

\* Both sides of every length of UTF-8, and a surrogate alone.
Scalars == {127, 128, 2047, 2048, 65535, 1114111, 55296}

\* Leap years that begin on each day of the week, years around them, and the
\* centuries.
Years == {1900, 1999, 2000, 2001, 2004, 2005, 2006, 2008, 2009, 2010, 2012, 2015, 2016,
          2017, 2020, 2021, 2024, 2100, 2101, 2400}
=============================================================================
