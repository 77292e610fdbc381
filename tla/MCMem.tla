------------------------------- MODULE MCMem --------------------------------
(* ProcMem with W = 3 (user addresses 0 .. 17) and the files exec may meet.  *)
EXTENDS ProcMem

Seg(vaddr, filesz, memsz) ==
    [load |-> TRUE, vaddr |-> vaddr, filesz |-> filesz, memsz |-> memsz, whole |-> TRUE]
Elf(word, args, phs) ==
    [found |-> TRUE, magic |-> TRUE, word |-> word, entry |-> 1, args |-> args, phs |-> phs]

\* Two that run: one segment and a header of another type; two segments, the
\* second in another table, with a part the file does not fill.
Good == {Elf(-4, 2, <<[Seg(0, 5, 5) EXCEPT !.load = FALSE], Seg(0, 4, 4)>>),
         Elf(-5, 1, <<Seg(0, 2, 3), Seg(6, 1, 3)>>)}
\* What do_exec refuses, each after some of its work, and what it panics on:
\* a missing file, and a guard page that would be the kernel's.
Bad == {[Elf(-6, 1, <<>>) EXCEPT !.found = FALSE],
        [Elf(-6, 1, <<>>) EXCEPT !.magic = FALSE],
        Elf(-6, 1, <<Seg(0, 3, 3), Seg(3, 3, 2)>>),
        Elf(-6, 1, <<Seg(0, 3, 3), Seg(6, 1, 25)>>),
        Elf(-6, 1, <<Seg(0, 3, 3), Seg(3, 1, 15)>>),
        Elf(-6, 1, <<Seg(0, 0, 0)>>),
        Elf(-6, 1, <<Seg(0, 6, 6), [Seg(6, 3, 3) EXCEPT !.whole = FALSE]>>),
        Elf(-6, 1, <<Seg(0, 1, 17)>>)}

MCPrograms == Good \cup Bad
=============================================================================
