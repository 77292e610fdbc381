-------------------------------- MODULE MCFs --------------------------------
(* Fs on two small host trees and a handful of paths. *)
EXTENDS Fs

Dir(name, sub) == [name |-> name, sub |-> sub, data |-> <<>>]
Reg(name, n) == [name |-> name, sub |-> "", data |-> [i \in 1 .. n |-> <<i, name>>]]

\* A full directory below one with room, a file that runs past what mkfs
\* stores, and one whose name begins that of the file before it.
MCTrees == {[top |-> <<Dir("bin", "bin"), Reg("a", 1)>>, bin |-> <<Reg("sh", 2)>>],
            [top |-> <<Reg("b", 1), Reg("sh", 10), Reg("s", 1)>>]}

MCPrefixes == {<<"s", "sh">>}
MCPaths == {<<"s">>, <<"c">>, <<"bin", "c">>}
=============================================================================
