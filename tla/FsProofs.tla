------------------------------ MODULE FsProofs ------------------------------
(* Proofs about the descriptors, the inode cache and the directories of Fs, *)
(* for any number of processes, descriptors, files and cache entries, any   *)
(* sizes of blocks and inodes, any paths, trees and well formed images.     *)
(* First descriptors are counted, whatever calls do to the disk; then come  *)
(* the images a call may leave (Disk), what reads and writes blocks (Same), *)
(* what is true of a call in any case, also where a reference count wraps   *)
(* around (Raw), inodes (Moves, Found) and directories (Linked) where none  *)
(* does, and at last each call as a step of the two invariants: Sound, the  *)
(* types, in any case, and CInv (Goes) up to the first count that wraps     *)
(* around, with the theorems.                                               *)
EXTENDS Fs, FiniteSetTheorems, SequenceTheorems, NaturalsInduction, TLAPS

(* The file table and the descriptors; what else a process or a file has is *)
(* of no matter here.                                                       *)
Tables(C, F) ==
    /\ proc \in [Procs -> [live : BOOLEAN, ofile : [Fds -> Files \cup {0}], cwd : C]]
    /\ file \in [Files -> [ref : Int, ip : F, off : F, of : F]]

(* References are descriptors, or that of an open that found none free.     *)
Counted == \A f \in Files : file[f].ref = Holders(f) \/ (file[f].ref = 1 /\ Holders(f) = 0)

(* A slot that is free holds no file.                                       *)
FreeHoldsNone == \A p \in Procs : ~proc[p].live => \A i \in Fds : proc[p].ofile[i] = 0

(* The invariant of the counts, until the kernel goes wild.                 *)
Good == (\E C, F : Tables(C, F)) /\ Counted /\ FreeHoldsNone

DInv == wild \/ Good

-----------------------------------------------------------------------------
(* Counting descriptors.                                                    *)

(* The descriptors of file f, and those of process p among them.            *)
Descriptors(f) == {x \in Procs \X Fds : proc[x[1]].ofile[x[2]] = f}
Own(p, f) == {i \in Fds : proc[p].ofile[i] = f}

(* All sets of descriptors are finite.                                      *)
LEMMA Finite ==
    /\ IsFiniteSet(Fds) /\ IsFiniteSet(Procs \X Fds)
    /\ \A S : S \subseteq Fds => IsFiniteSet(S) /\ Cardinality(S) \in Nat
    /\ \A S : S \subseteq Procs \X Fds => IsFiniteSet(S) /\ Cardinality(S) \in Nat
<1>1. IsFiniteSet(Fds)
  <2>1. NOFILE \in Nat
      BY TablesOK
  <2>2. IsFiniteSet(0 .. NOFILE - 1)
      BY <2>1, FS_Interval
  <2>3. QED
      BY <2>2 DEF Fds
<1>2. IsFiniteSet(Procs \X Fds)
    BY <1>1, TablesOK, FS_Product
<1>3. QED
    BY <1>1, <1>2, FS_Subset, FS_CardinalityType

(* Holders counts a file's descriptors, Holds those of one process.          *)
LEMMA CountFacts ==
    \A f, p : /\ Holders(f) = Cardinality(Descriptors(f)) /\ Holders(f) \in Nat
              /\ Holds(p, f) = Cardinality(Own(p, f)) /\ Holds(p, f) \in Nat
    BY Finite DEF Holders, Holds, Descriptors, Own

(* One process's share of the descriptors of a file.                        *)
LEMMA Share ==
    ASSUME NEW p \in Procs, NEW f
    PROVE  /\ IsFiniteSet({p} \X Own(p, f))
           /\ Cardinality({p} \X Own(p, f)) = Holds(p, f)
<1>1. IsFiniteSet({p}) /\ Cardinality({p}) = 1
    BY FS_Singleton
<1>2. IsFiniteSet(Own(p, f)) /\ Holds(p, f) = Cardinality(Own(p, f)) /\ Holds(p, f) \in Nat
    BY Finite, CountFacts DEF Own
<1>3. /\ IsFiniteSet({p} \X Own(p, f))
      /\ Cardinality({p} \X Own(p, f)) = Cardinality({p}) * Cardinality(Own(p, f))
    BY <1>1, <1>2, FS_Product
<1>4. QED
    BY <1>1, <1>2, <1>3

(* A new descriptor for a file is one holder more.                          *)
LEMMA Given ==
    ASSUME NEW p \in Procs, NEW i \in Fds, NEW g \in Files, NEW f \in Files,
           proc[p].ofile[i] = 0,
           \A x \in Procs \X Fds :
              proc'[x[1]].ofile[x[2]] = IF x = <<p, i>> THEN g ELSE proc[x[1]].ofile[x[2]]
    PROVE  Holders(f)' = IF f = g THEN Holders(f) + 1 ELSE Holders(f)
<1>1. <<p, i>> \notin Descriptors(f) /\ <<p, i>> \in Procs \X Fds
    BY DEF Descriptors, Files
<1>2. Descriptors(f)' = IF f = g THEN Descriptors(f) \cup {<<p, i>>} ELSE Descriptors(f)
    BY <1>1 DEF Descriptors
<1>3. IsFiniteSet(Descriptors(f)) /\ Holders(f) = Cardinality(Descriptors(f))
      /\ Holders(f)' = Cardinality(Descriptors(f)')
    BY Finite, CountFacts DEF Descriptors, Holders
<1>4. Cardinality(Descriptors(f) \cup {<<p, i>>}) = Cardinality(Descriptors(f)) + 1
    BY <1>1, <1>3, FS_AddElement
<1>5. QED
    BY <1>2, <1>3, <1>4

(* A process that starts with another's descriptors adds as many holders.   *)
LEMMA Copied ==
    ASSUME NEW p \in Procs, NEW q \in Procs, p # q, NEW f \in Files,
           \A i \in Fds : proc[q].ofile[i] = 0,
           \A x \in Procs \X Fds :
              proc'[x[1]].ofile[x[2]] = proc[IF x[1] = q THEN p ELSE x[1]].ofile[x[2]]
    PROVE  Holders(f)' = Holders(f) + Holds(p, f)
<1> DEFINE new == {q} \X Own(p, f)
<1>1. IsFiniteSet(new) /\ Cardinality(new) = Holds(p, f)
  <2>1. IsFiniteSet({q}) /\ Cardinality({q}) = 1
      BY FS_Singleton
  <2>2. IsFiniteSet(Own(p, f)) /\ Holds(p, f) = Cardinality(Own(p, f)) /\ Holds(p, f) \in Nat
      BY Finite, CountFacts DEF Own
  <2>3. /\ IsFiniteSet(new)
        /\ Cardinality(new) = Cardinality({q}) * Cardinality(Own(p, f))
      BY <2>1, <2>2, FS_Product
  <2>4. QED
      BY <2>1, <2>2, <2>3
<1>2. Descriptors(f)' = Descriptors(f) \cup new /\ Descriptors(f) \cap new = {}
    BY DEF Descriptors, Own, Files
<1>3. /\ IsFiniteSet(Descriptors(f)) /\ Holders(f) = Cardinality(Descriptors(f))
      /\ Holders(f)' = Cardinality(Descriptors(f)') /\ Holders(f) \in Nat
    BY Finite, CountFacts DEF Descriptors, Holders
<1>4. Cardinality(Descriptors(f) \cup new)
        = Cardinality(Descriptors(f)) + Cardinality(new) - Cardinality(Descriptors(f) \cap new)
    BY <1>1, <1>3, FS_Union
<1>5. Cardinality(Descriptors(f) \cap new) = 0
    BY <1>2, FS_EmptySet
<1>6. Holds(p, f) \in Nat
    BY CountFacts
<1> HIDE DEF new
<1>7. QED
    BY <1>1, <1>2, <1>3, <1>4, <1>5, <1>6

(* A process that is gone takes its share away.                             *)
LEMMA Dropped ==
    ASSUME NEW p \in Procs, NEW f \in Files,
           \A x \in Procs \X Fds :
              proc'[x[1]].ofile[x[2]] = IF x[1] = p THEN 0 ELSE proc[x[1]].ofile[x[2]]
    PROVE  Holders(f)' = Holders(f) - Holds(p, f)
<1> DEFINE old == {p} \X Own(p, f)
<1>1. IsFiniteSet(old) /\ Cardinality(old) = Holds(p, f)
    BY Share
<1>2. Descriptors(f)' = Descriptors(f) \ old /\ Descriptors(f) \cap old = old
    BY DEF Descriptors, Own, Files
<1>3. /\ IsFiniteSet(Descriptors(f)) /\ Holders(f) = Cardinality(Descriptors(f))
      /\ Holders(f)' = Cardinality(Descriptors(f)') /\ Holders(f) \in Nat
    BY Finite, CountFacts DEF Descriptors, Holders
<1>4. Cardinality(Descriptors(f) \ old)
        = Cardinality(Descriptors(f)) - Cardinality(Descriptors(f) \cap old)
    BY <1>3, FS_Difference
<1> HIDE DEF old
<1>5. QED
    BY <1>1, <1>2, <1>3, <1>4

(* The share is no more than the whole.                                     *)
LEMMA SharePart == ASSUME NEW p \in Procs, NEW f \in Files PROVE Holds(p, f) <= Holders(f)
<1>1. {p} \X Own(p, f) \subseteq Descriptors(f)
    BY DEF Own, Descriptors
<1>2. IsFiniteSet(Descriptors(f)) /\ Holders(f) = Cardinality(Descriptors(f))
    BY Finite, CountFacts DEF Descriptors
<1>3. Cardinality({p} \X Own(p, f)) <= Cardinality(Descriptors(f))
    BY <1>1, <1>2, FS_Subset
<1>4. QED
    BY <1>2, <1>3, Share

-----------------------------------------------------------------------------
(* The first free entry of a table.                                         *)

(* A set of natural numbers that is not empty has a least element.          *)
LEMMA Least ==
    ASSUME NEW S \in SUBSET Nat, S # {}
    PROVE  \E x \in S : \A y \in S : x <= y
<1>1. PICK x \in S : \A y \in S : ~(<<y, x>> \in OpToRel(<, Nat))
    BY NatLessThanWellFounded, WFMin
<1>2. \A y \in S : ~(y < x)
    BY <1>1 DEF OpToRel
<1>3. QED
    BY <1>2

(* file_alloc and proc_add_file find a free entry if there is one.          *)
LEMMA FreeFacts ==
    ASSUME NEW C, NEW F, Tables(C, F), NEW p \in Procs
    PROVE  /\ FreeFile # 0 => FreeFile \in Files /\ file[FreeFile].ref = 0
           /\ FreeFd(p) # -1 => FreeFd(p) \in Fds /\ proc[p].ofile[FreeFd(p)] = 0
<1>1. FreeFile # 0 => FreeFile \in Files /\ file[FreeFile].ref = 0
  <2> DEFINE free == {f \in Files : file[f].ref = 0}
  <2>1. free # {} => \E f \in free : \A g \in free : f <= g
    <3>1. free \in SUBSET Nat
        BY DEF Files
    <3>2. QED
        BY <3>1, Least
  <2>2. FreeFile = IF free = {} THEN 0 ELSE CHOOSE f \in free : \A g \in free : f <= g
      BY DEF FreeFile
  <2>3. FreeFile # 0 => FreeFile \in free
      BY <2>1, <2>2
  <2>4. QED
      BY <2>3
<1>2. FreeFd(p) # -1 => FreeFd(p) \in Fds /\ proc[p].ofile[FreeFd(p)] = 0
  <2> DEFINE free == {i \in Fds : proc[p].ofile[i] = 0}
  <2>1. free # {} => \E i \in free : \A j \in free : i <= j
    <3>1. free \in SUBSET Nat
        BY DEF Fds
    <3>2. QED
        BY <3>1, Least
  <2>2. FreeFd(p) = IF free = {} THEN -1 ELSE CHOOSE i \in free : \A j \in free : i <= j
      BY DEF FreeFd
  <2>3. FreeFd(p) # -1 => FreeFd(p) \in free
      BY <2>1, <2>2
  <2>4. QED
      BY <2>3
<1>3. QED
    BY <1>1, <1>2

-----------------------------------------------------------------------------
(* Steps *)

(* Descriptors, counts and who lives are what they were.                    *)
LEMMA FilesKept ==
    ASSUME Counted, FreeHoldsNone,
           \A p \in Procs : proc'[p].ofile = proc[p].ofile /\ proc'[p].live = proc[p].live,
           \A f \in Files : file'[f].ref = file[f].ref
    PROVE  Counted' /\ FreeHoldsNone'
<1>1. \A f : Descriptors(f)' = Descriptors(f)
    BY DEF Descriptors
<1>2. \A f : Holders(f)' = Holders(f)
    BY <1>1 DEF Holders, Descriptors
<1>3. QED
    BY <1>2 DEF Counted, FreeHoldsNone

(* A call may leave both tables alone.                                      *)
LEMMA Untouched == ASSUME Good, UNCHANGED <<file, proc>> PROVE DInv'
<1>1. \E C, F : Tables(C, F)'
    BY DEF Good, Tables
<1>2. Counted' /\ FreeHoldsNone'
    BY FilesKept DEF Good
<1>3. QED
    BY <1>1, <1>2 DEF DInv, Good

(* setup gives a process a root.                                            *)
LEMMA SetupStep == ASSUME Good, NEW p \in Procs, Setup(p) PROVE DInv'
<1>1. PICK C, F : Tables(C, F)
    BY DEF Good
<1>2. CASE wild'
    BY <1>2 DEF DInv
<1>3. CASE UNCHANGED <<proc, file>>
    BY <1>3, Untouched
<1>4. CASE \E k : proc' = [proc EXCEPT ![p].cwd = k] /\ file' = file
  <2>1. PICK k : proc' = [proc EXCEPT ![p].cwd = k] /\ file' = file
      BY <1>4
  <2>2. Tables(C \cup {k}, F)'
      BY <1>1, <2>1 DEF Tables
  <2>3. /\ \A x \in Procs : proc'[x].ofile = proc[x].ofile /\ proc'[x].live = proc[x].live
        /\ \A f \in Files : file'[f].ref = file[f].ref
      BY <1>1, <2>1 DEF Tables
  <2>4. QED
      BY <2>2, <2>3, FilesKept DEF Good, DInv
<1>5. QED
    BY <1>3, <1>4 DEF Setup

(* Power comes back: nobody has a descriptor.                               *)
LEMMA PowerStep == ASSUME NEW im, NEW o, PowerOn(im, o) PROVE DInv'
<1>1. Tables({0}, {0})'
  <2>1. file' \in [Files -> [ref : Int, ip : {0}, off : {0}, of : {0}]]
      BY DEF PowerOn, NoFile
  <2>2. \A p \in Procs : [NoProc EXCEPT !.live = (p = 1)] =
                           [live |-> (p = 1), ofile |-> [i \in Fds |-> 0], cwd |-> 0]
      BY DEF NoProc
  <2>3. \A b \in BOOLEAN : [live |-> b, ofile |-> [i \in Fds |-> 0], cwd |-> 0] \in
                             [live : BOOLEAN, ofile : [Fds -> Files \cup {0}], cwd : {0}]
      OBVIOUS
  <2>4. \A p \in Procs : [NoProc EXCEPT !.live = (p = 1)] \in
                           [live : BOOLEAN, ofile : [Fds -> Files \cup {0}], cwd : {0}]
      BY <2>2, <2>3
  <2>5. proc' = [p \in Procs |-> [NoProc EXCEPT !.live = (p = 1)]]
      BY DEF PowerOn
  <2>6. proc' \in [Procs -> [live : BOOLEAN, ofile : [Fds -> Files \cup {0}], cwd : {0}]]
      BY <2>4, <2>5
  <2>7. QED
      BY <2>1, <2>6 DEF Tables
<1>2. \A f \in Files : Descriptors(f)' = {}
    BY DEF PowerOn, Descriptors, NoProc, Files
<1>3. \A f \in Files : Holders(f)' = 0
    BY <1>2, FS_EmptySet DEF Holders, Descriptors
<1>4. \A f \in Files : file'[f].ref = 0
    BY DEF PowerOn, NoFile
<1>5. Counted'
    BY <1>3, <1>4 DEF Counted
<1>6. FreeHoldsNone'
    BY DEF FreeHoldsNone, PowerOn, NoProc
<1>7. QED
    BY <1>1, <1>5, <1>6 DEF DInv, Good

(* open: one more descriptor, for a file that had none; or a file that      *)
(* stays allocated without one.                                             *)
LEMMA OpenStep == ASSUME Good, NEW p \in Procs, proc[p].live, NEW r, Opened(p, r) PROVE DInv'
<1>1. PICK C, F : Tables(C, F)
    BY DEF Good
<1>2. CASE UNCHANGED <<file, proc>>
    BY <1>2, Untouched
<1>3. CASE FreeFile # 0 /\ file' = [file EXCEPT ![FreeFile].ref = 1] /\ proc' = proc
  <2>1. FreeFile \in Files /\ file[FreeFile].ref = 0
      BY <1>1, <1>3, FreeFacts
  <2>2. Tables(C, F)'
      BY <1>1, <1>3, <2>1 DEF Tables
  <2>3. \A f \in Files : file'[f].ref = IF f = FreeFile THEN 1 ELSE file[f].ref
      BY <1>1, <1>3, <2>1 DEF Tables
  <2>4. \A f : Holders(f)' = Holders(f)
      BY <1>3 DEF Holders
  <2>5. Holders(FreeFile) = 0
      BY <2>1 DEF Good, Counted
  <2>6. Counted' /\ FreeHoldsNone'
      BY <1>3, <2>3, <2>4, <2>5 DEF Good, Counted, FreeHoldsNone
  <2>7. QED
      BY <2>2, <2>6 DEF DInv, Good
<1>4. CASE /\ FreeFile # 0 /\ FreeFd(p) # -1 /\ proc[p].live
           /\ \E a, b : file' = [file EXCEPT ![FreeFile] =
                                   [ref |-> 1, ip |-> a, off |-> 0, of |-> b]]
           /\ proc' = [proc EXCEPT ![p].ofile[FreeFd(p)] = FreeFile]
  <2> DEFINE g == FreeFile
  <2> DEFINE i == FreeFd(p)
  <2>1. g \in Files /\ file[g].ref = 0 /\ i \in Fds /\ proc[p].ofile[i] = 0
      BY <1>1, <1>4, FreeFacts
  <2>2. PICK a, b : file' = [file EXCEPT ![g] = [ref |-> 1, ip |-> a, off |-> 0, of |-> b]]
      BY <1>4
  <2> HIDE DEF g, i
  <2>3. proc' = [proc EXCEPT ![p].ofile[i] = g]
      BY <1>4 DEF g, i
  <2>4. Tables(C, F \cup {a, b, 0})'
    <3>1. file' \in [Files -> [ref : Int, ip : F \cup {a, b, 0}, off : F \cup {a, b, 0},
                               of : F \cup {a, b, 0}]]
        BY <1>1, <2>1, <2>2 DEF Tables
    <3>2. proc' \in [Procs -> [live : BOOLEAN, ofile : [Fds -> Files \cup {0}], cwd : C]]
        BY <1>1, <2>1, <2>3 DEF Tables
    <3>3. QED
        BY <3>1, <3>2 DEF Tables
  <2>5. \A f \in Files : file'[f].ref = IF f = g THEN 1 ELSE file[f].ref
      BY <1>1, <2>1, <2>2 DEF Tables
  <2>6. \A x \in Procs \X Fds :
           proc'[x[1]].ofile[x[2]] = IF x = <<p, i>> THEN g ELSE proc[x[1]].ofile[x[2]]
      BY <1>1, <2>1, <2>3 DEF Tables
  <2>7. \A f \in Files : Holders(f)' = IF f = g THEN Holders(f) + 1 ELSE Holders(f)
      BY <2>1, <2>6, Given
  <2>8. Holders(g) = 0
      BY <2>1 DEF Good, Counted
  <2>9. Counted'
      BY <2>5, <2>7, <2>8 DEF Good, Counted
  <2>10. FreeHoldsNone'
      BY <1>1, <1>4, <2>1, <2>3 DEF Good, FreeHoldsNone, Tables
  <2>11. QED
      BY <2>4, <2>9, <2>10 DEF DInv, Good
<1>5. CASE FreeFile # 0 /\ ~UNCHANGED <<file, proc>> /\ FreeFd(p) # -1
  <2>1. /\ file' = [file EXCEPT ![FreeFile] = [ref |-> 1, ip |-> r.k, off |-> 0,
                                              of |-> r.s.ic[r.k].idx]]
        /\ proc' = [proc EXCEPT ![p].ofile[FreeFd(p)] = FreeFile]
      BY <1>5 DEF Opened
  <2>2. QED
      BY <1>4, <1>5, <2>1
<1>6. QED
    BY <1>2, <1>3, <1>5 DEF Opened

(* A file's offset moves on.                                                *)
LEMMA MoveStep ==
    ASSUME Good, NEW f, NEW d, file' = [file EXCEPT ![f].off = d], proc' = proc
    PROVE  DInv'
<1>1. PICK C, F : Tables(C, F)
    BY DEF Good
<1>2. file' \in [Files -> [ref : Int, ip : F \cup {d}, off : F \cup {d}, of : F \cup {d}]]
    BY <1>1 DEF Tables
<1>3. proc' \in [Procs -> [live : BOOLEAN, ofile : [Fds -> Files \cup {0}], cwd : C]]
    BY <1>1 DEF Tables
<1>4. \A g \in Files : file'[g].ref = file[g].ref
    BY <1>1 DEF Tables
<1>5. Counted' /\ FreeHoldsNone'
    BY <1>4, FilesKept DEF Good
<1>6. QED
    BY <1>2, <1>3, <1>5 DEF DInv, Good, Tables

(* dup: one more descriptor and one more reference.                         *)
LEMMA DupStep == ASSUME Good, NEW p \in Procs, NEW fd \in Fds, SysDup(p, fd) PROVE DInv'
<1>1. PICK C, F : Tables(C, F)
    BY DEF Good
<1>2. CASE At(p, fd) = 0
    BY <1>2, Untouched DEF SysDup
<1>3. CASE At(p, fd) # 0
  <2> DEFINE g == At(p, fd)
  <2> DEFINE i == FreeFd(p)
  <2>1. i \in Fds /\ proc[p].ofile[i] = 0 /\ proc[p].live
      BY <1>1, FreeFacts DEF SysDup, Caller
  <2>2. g \in Files
      BY <1>1, <1>3 DEF At, Tables
  <2>3. file' = [file EXCEPT ![g].ref = @ + 1] /\ proc' = [proc EXCEPT ![p].ofile[i] = g]
      BY <1>3 DEF SysDup
  <2> HIDE DEF g, i
  <2>4. Tables(C, F)'
    <3>1. file' \in [Files -> [ref : Int, ip : F, off : F, of : F]]
      <4>1. file[g] \in [ref : Int, ip : F, off : F, of : F]
          BY <1>1, <2>2 DEF Tables
      <4>2. [file[g] EXCEPT !.ref = @ + 1] \in [ref : Int, ip : F, off : F, of : F]
          BY <4>1
      <4>3. QED
          BY <1>1, <2>2, <2>3, <4>2 DEF Tables
    <3>2. proc' \in [Procs -> [live : BOOLEAN, ofile : [Fds -> Files \cup {0}], cwd : C]]
        BY <1>1, <2>1, <2>2, <2>3 DEF Tables
    <3>3. QED
        BY <3>1, <3>2 DEF Tables
  <2>5. \A f \in Files : file'[f].ref = IF f = g THEN file[f].ref + 1 ELSE file[f].ref
      BY <1>1, <2>2, <2>3 DEF Tables
  <2>6. \A x \in Procs \X Fds :
           proc'[x[1]].ofile[x[2]] = IF x = <<p, i>> THEN g ELSE proc[x[1]].ofile[x[2]]
      BY <1>1, <2>1, <2>3 DEF Tables
  <2>7. \A f \in Files : Holders(f)' = IF f = g THEN Holders(f) + 1 ELSE Holders(f)
      BY <2>1, <2>2, <2>6, Given
  <2>8. Holders(g) # 0
    <3>1. <<p, fd>> \in Descriptors(g)
        BY DEF Descriptors, At, g
    <3>2. IsFiniteSet(Descriptors(g)) /\ Holders(g) = Cardinality(Descriptors(g))
        BY Finite, CountFacts DEF Descriptors
    <3>3. QED
        BY <3>1, <3>2, FS_EmptySet
  <2>9. Counted'
      BY <2>2, <2>5, <2>7, <2>8 DEF Good, Counted
  <2>10. FreeHoldsNone'
      BY <1>1, <2>1, <2>3 DEF Good, FreeHoldsNone, Tables
  <2>11. QED
      BY <2>4, <2>9, <2>10 DEF DInv, Good
<1>4. QED
    BY <1>2, <1>3

(* fork: the child holds what the parent holds.                             *)
LEMMA ForkStep ==
    ASSUME Good, NEW p \in Procs, NEW q \in Procs, Fork(p, q)
    PROVE  DInv'
<1>1. PICK C, F : Tables(C, F)
    BY DEF Good
<1>2. /\ p # q /\ proc[p].live /\ ~proc[q].live
      /\ file' = [f \in Files |-> [file[f] EXCEPT !.ref = @ + Holds(p, f)]]
      /\ proc' = [proc EXCEPT ![q] = proc[p]]
    BY DEF Fork, Caller
<1>3. \A f : Holds(p, f) \in Nat /\ Holders(f) \in Nat
    BY CountFacts
<1>4. Tables(C, F)'
  <2>1. proc' \in [Procs -> [live : BOOLEAN, ofile : [Fds -> Files \cup {0}], cwd : C]]
      BY <1>1, <1>2 DEF Tables
  <2>2. \A f \in Files : [file[f] EXCEPT !.ref = @ + Holds(p, f)] \in
                              [ref : Int, ip : F, off : F, of : F]
      BY <1>1, <1>3 DEF Tables
  <2>3. QED
      BY <1>2, <2>1, <2>2 DEF Tables
<1>5. \A f \in Files : file'[f].ref = file[f].ref + Holds(p, f)
    BY <1>1, <1>2 DEF Tables
<1>6. \A x \in Procs \X Fds :
         proc'[x[1]].ofile[x[2]] = proc[IF x[1] = q THEN p ELSE x[1]].ofile[x[2]]
    BY <1>1, <1>2 DEF Tables
<1>7. \A i \in Fds : proc[q].ofile[i] = 0
    BY <1>2 DEF Good, FreeHoldsNone
<1>8. \A f \in Files : Holders(f)' = Holders(f) + Holds(p, f)
    BY <1>2, <1>6, <1>7, Copied
<1>9. \A f \in Files : Holds(p, f) <= Holders(f)
    BY SharePart
<1>10. Counted'
    BY <1>1, <1>3, <1>5, <1>8, <1>9 DEF Good, Counted, Tables
<1>11. FreeHoldsNone'
    BY <1>1, <1>2 DEF Good, FreeHoldsNone, Tables
<1>12. QED
    BY <1>4, <1>10, <1>11 DEF DInv, Good

(* exit, with the slot given back: its descriptors are gone.                *)
LEMMA ExitStep == ASSUME Good, NEW p \in Procs, Exit(p) PROVE DInv'
<1>1. PICK C, F : Tables(C, F)
    BY DEF Good
<1>2. /\ file' = [f \in Files |-> [file[f] EXCEPT !.ref = @ - Holds(p, f)]]
      /\ proc' = [proc EXCEPT ![p] = NoProc]
    BY DEF Exit
<1>3. \A f : Holds(p, f) \in Nat /\ Holders(f) \in Nat
    BY CountFacts
<1>4. Tables(C \cup {0}, F)'
  <2>1. proc' \in [Procs -> [live : BOOLEAN, ofile : [Fds -> Files \cup {0}], cwd : C \cup {0}]]
      BY <1>1, <1>2 DEF Tables, NoProc
  <2>2. \A f \in Files : [file[f] EXCEPT !.ref = @ - Holds(p, f)] \in
                              [ref : Int, ip : F, off : F, of : F]
      BY <1>1, <1>3 DEF Tables
  <2>3. QED
      BY <1>2, <2>1, <2>2 DEF Tables
<1>5. \A f \in Files : file'[f].ref = file[f].ref - Holds(p, f)
    BY <1>1, <1>2 DEF Tables
<1>6. \A x \in Procs \X Fds :
         proc'[x[1]].ofile[x[2]] = IF x[1] = p THEN 0 ELSE proc[x[1]].ofile[x[2]]
    BY <1>1, <1>2 DEF Tables, NoProc
<1>7. \A f \in Files : Holders(f)' = Holders(f) - Holds(p, f)
    BY <1>6, Dropped
<1>8. \A f \in Files : Holds(p, f) <= Holders(f)
    BY SharePart
<1>9. Counted'
    BY <1>1, <1>3, <1>5, <1>7, <1>8 DEF Good, Counted, Tables
<1>10. FreeHoldsNone'
    BY <1>1, <1>2 DEF Good, FreeHoldsNone, Tables, NoProc
<1>11. QED
    BY <1>4, <1>9, <1>10 DEF DInv, Good

(* A kernel that has gone wild does nothing more.                           *)
LEMMA NotWild == ASSUME Next PROVE ~wild
<1>1. CASE PowerFails
    BY <1>1 DEF PowerFails
<1>2. ASSUME NEW p \in Procs, Setup(p) \/ Exit(p) \/ (\E q \in Procs : Fork(p, q))
      PROVE  ~wild
    BY <1>2, Zenon DEF Setup, Exit, Fork, Caller
<1>3. ASSUME NEW p \in Procs, NEW path \in Paths,
             Open(p, path) \/ OpenCreate(p, path) \/ Mknod(p, path)
      PROVE  ~wild
    BY <1>3, Zenon DEF Open, OpenCreate, Mknod, Caller
<1>4. ASSUME NEW p \in Procs, NEW fd \in Fds,
             \/ \E n \in Counts : SysRead(p, fd, n) \/ SysWrite(p, fd, n)
             \/ SysDup(p, fd) \/ Fstat(p, fd) \/ Close(p, fd)
      PROVE  ~wild
    BY <1>4, Zenon DEF SysRead, SysWrite, SysDup, Fstat, Close, Caller
<1>5. QED
    BY <1>1, <1>2, <1>3, <1>4 DEF Next

(* Every call keeps the count, and so does a power failure in its midst.    *)
LEMMA DescriptorStep == DInv /\ [Next]_vars => DInv'
<1> SUFFICES ASSUME DInv, [Next]_vars PROVE DInv'
    OBVIOUS
<1>1. CASE UNCHANGED vars
    BY <1>1, Untouched DEF vars, DInv
<1>2. CASE wild /\ ~UNCHANGED vars
    BY <1>2, NotWild
<1>3. CASE ~wild /\ Next
  <2>1. Good
      BY <1>3 DEF DInv
  <2>2. \A s : Cut(s) => DInv'
      BY PowerStep DEF Cut
  <2>3. CASE PowerFails
      BY <2>3, PowerStep DEF PowerFails
  <2>4. ASSUME NEW p \in Procs, NEW path \in Paths,
               Open(p, path) \/ OpenCreate(p, path) \/ Mknod(p, path)
        PROVE  DInv'
    <3>1. CASE Open(p, path)
        BY <2>1, <3>1, OpenStep DEF Open, Caller
    <3>2. CASE OpenCreate(p, path)
        BY <2>1, <2>2, <3>2, OpenStep DEF OpenCreate, Caller
    <3>3. CASE Mknod(p, path)
        BY <2>1, <2>2, <3>3, Untouched DEF Mknod
    <3>4. QED
        BY <2>4, <3>1, <3>2, <3>3
  <2>5. ASSUME NEW p \in Procs, NEW fd \in Fds, NEW n \in Counts,
               SysRead(p, fd, n) \/ SysWrite(p, fd, n)
        PROVE  DInv'
    <3>1. CASE SysRead(p, fd, n)
        BY <2>1, <3>1, MoveStep, Untouched DEF SysRead
    <3>2. CASE SysWrite(p, fd, n)
        BY <2>1, <2>2, <3>2, MoveStep, Untouched DEF SysWrite
    <3>3. QED
        BY <2>5, <3>1, <3>2
  <2>6. ASSUME NEW p \in Procs, NEW fd \in Fds, SysDup(p, fd) \/ Fstat(p, fd) \/ Close(p, fd)
        PROVE  DInv'
      BY <2>1, <2>6, DupStep, Untouched DEF Fstat, Close
  <2>7. ASSUME NEW p \in Procs, Setup(p) PROVE DInv'
      BY <2>1, <2>7, SetupStep
  <2>8. ASSUME NEW p \in Procs, NEW q \in Procs, Fork(p, q) PROVE DInv'
      BY <2>1, <2>8, ForkStep
  <2>9. ASSUME NEW p \in Procs, Exit(p) PROVE DInv'
      BY <2>1, <2>9, ExitStep
  <2>10. QED
      BY <1>3, <2>3, <2>4, <2>5, <2>6, <2>7, <2>8, <2>9 DEF Next
<1>4. QED
    BY <1>1, <1>2, <1>3

(* At the start no descriptor is open.                                      *)
LEMMA DescriptorsStart == Init => DInv
<1> SUFFICES ASSUME Init PROVE Good
    BY DEF DInv
<1>1. file \in [Files -> [ref : Int, ip : {0}, off : {0}, of : {0}]]
    BY DEF Init, NoFile
<1>2. \A b \in BOOLEAN : [live |-> b, ofile |-> [i \in Fds |-> 0], cwd |-> 0] \in
                           [live : BOOLEAN, ofile : [Fds -> Files \cup {0}], cwd : {0}]
    OBVIOUS
<1>3. \A p \in Procs : [NoProc EXCEPT !.live = (p = 1)] =
                         [live |-> (p = 1), ofile |-> [i \in Fds |-> 0], cwd |-> 0]
    BY DEF NoProc
<1>4. \A p \in Procs : [NoProc EXCEPT !.live = (p = 1)] \in
                         [live : BOOLEAN, ofile : [Fds -> Files \cup {0}], cwd : {0}]
    BY <1>2, <1>3
<1>5. proc \in [Procs -> [live : BOOLEAN, ofile : [Fds -> Files \cup {0}], cwd : {0}]]
    BY <1>4 DEF Init
<1>6. \A f \in Files : Descriptors(f) = {}
    BY DEF Init, Descriptors, NoProc, Files
<1>7. \A f \in Files : Holders(f) = 0
    BY <1>6, FS_EmptySet DEF Holders, Descriptors
<1>8. Counted
    BY <1>7 DEF Counted, Init, NoFile
<1>9. FreeHoldsNone
    BY DEF FreeHoldsNone, Init, NoProc
<1>10. QED
    BY <1>1, <1>5, <1>8, <1>9 DEF Good, Tables

-----------------------------------------------------------------------------
(* What is on a disk                                                        *)

(* The sizes of a disk are those of numbers.                                *)
LEMMA Sizes ==
    /\ BS \in Nat /\ BS > 0 /\ ND \in Nat /\ ND > 0 /\ MaxBlocks \in Int
    /\ {0, SbBlock, BitmapOff} \subseteq Blocks /\ Inodes \subseteq Nat /\ 0 \notin Inodes
<1>1. /\ BS \in Nat /\ BS > 0 /\ ND \in Nat /\ ND > 0
      /\ IPB \in Nat /\ IPB > 0 /\ InodeBlocks \in Nat /\ InodeBlocks > 0 /\ LogBlocks \in Nat
    BY SizesOK
<1>2. MaxBlocks > 3 + LogBlocks + InodeBlocks /\ MaxBlocks \in Int
    BY SizesOK
<1>3. QED
    BY <1>1, <1>2 DEF Blocks, Inodes, SbBlock, BitmapOff, InodesOff

(* An inode's block is on the disk.                                         *)
LEMMA InodeBlock == ASSUME NEW i \in Inodes PROVE IBlock(i) \in Blocks
<1>1. /\ IPB \in Nat \ {0} /\ InodeBlocks \in Nat \ {0} /\ LogBlocks \in Nat
      /\ MaxBlocks > 3 + LogBlocks + InodeBlocks /\ MaxBlocks \in Int
      /\ i \in Nat /\ i <= IPB * InodeBlocks - 1
  <2>1. MaxInodes - 1 <= IPB * InodeBlocks - 1 /\ MaxInodes - 1 \in Int
      BY SizesOK
  <2>2. IPB * InodeBlocks \in Int
      BY SizesOK
  <2>3. PICK m, n : m = MaxInodes - 1 /\ n = IPB * InodeBlocks
      OBVIOUS
  <2>4. m \in Int /\ n \in Int /\ m <= n - 1 /\ i \in 1 .. m
      BY <2>1, <2>2, <2>3 DEF Inodes
  <2>5. i \in Nat /\ i <= n - 1
      BY <2>4
  <2>6. QED
      BY <2>3, <2>5, SizesOK
<1>2. i \div IPB \in Nat /\ i % IPB \in 0 .. IPB - 1 /\ i = IPB * (i \div IPB) + (i % IPB)
    BY <1>1
<1>3. i \div IPB < InodeBlocks
  <2>1. SUFFICES ASSUME i \div IPB >= InodeBlocks PROVE FALSE
      BY <1>1, <1>2
  <2>2. PICK q \in Nat : q = i \div IPB
      BY <1>2
  <2>3. IPB * q >= IPB * InodeBlocks
      BY <1>1, <2>1, <2>2
  <2>4. QED
      BY <1>1, <1>2, <2>2, <2>3
<1>4. QED
    BY <1>1, <1>2, <1>3 DEF IBlock, InodesOff, Blocks

(* Offsets and blocks of a file.                                            *)
LEMMA InFile ==
    ASSUME NEW off \in Nat
    PROVE  /\ off \div BS \in Nat /\ off % BS \in 0 .. BS - 1
           /\ off = BS * (off \div BS) + (off % BS)
           /\ off \in FileUnits <=> off \div BS \in FileBlocks
<1>1. BS \in Nat \ {0} /\ ND + BS \in Nat
    BY Sizes
<1>2. /\ off \div BS \in Nat /\ off % BS \in 0 .. BS - 1
      /\ off = BS * (off \div BS) + (off % BS)
    BY <1>1
<1>3. PICK q \in Nat, r \in 0 .. BS - 1, m \in Nat :
         q = off \div BS /\ r = off % BS /\ m = ND + BS /\ off = BS * q + r
    BY <1>1, <1>2
<1>4. q < m => BS * q + BS <= BS * m
    BY <1>1
<1>5. q >= m => BS * q >= BS * m
    BY <1>1
<1>6. BS * q \in Nat /\ BS * m \in Nat
    BY <1>1
<1>7. PICK z : z = BS * (ND + BS)
    OBVIOUS
<1>8. z = BS * m
    BY <1>3, <1>7
<1>9. FileUnits = 0 .. z - 1 /\ FileBlocks = 0 .. m - 1
  <2>1. FileUnits = 0 .. z - 1
      BY <1>7, Zenon DEF FileUnits
  <2>2. m = ND + BS
      BY <1>3
  <2>3. FileBlocks = 0 .. m - 1
      BY <2>2, Sizes DEF FileBlocks
  <2>4. QED
      BY <2>1, <2>3
<1>10. z \in Nat /\ (off <= z - 1 <=> q <= m - 1)
    BY <1>1, <1>3, <1>4, <1>5, <1>6, <1>8
<1>11. off \in 0 .. z - 1 <=> q \in 0 .. m - 1
    BY <1>3, <1>10
<1>12. QED
    BY <1>2, <1>3, <1>9, <1>11

(* What a block holds.                                                      *)
Contents == [0 .. BS - 1 -> Nat \X Texts]

(* What an image is made of.                                                *)
LEMMA ImageTypes ==
    ASSUME NEW im \in Images
    PROVE  /\ im = [magic |-> im.magic, bits |-> im.bits, ino |-> im.ino, blk |-> im.blk]
           /\ im.ino \in [Inodes -> InodeSet] /\ im.blk \in [Blocks -> Contents]
           /\ \A i \in Inodes : im.ino[i].addr \in [0 .. ND -> Nat] /\ im.ino[i].size \in Nat
    BY DEF Images, InodeSet, Contents

(* A block of an image replaced.                                            *)
LEMMA NewBlock ==
    ASSUME NEW im \in Images, NEW b \in Blocks, NEW c \in Contents,
           NEW jm, jm = [im EXCEPT !.blk[b] = c]
    PROVE  jm \in Images /\ jm.ino = im.ino /\ jm.blk = [im.blk EXCEPT ![b] = c]
    BY DEF Images, Contents

(* An inode of an image replaced.                                           *)
LEMMA NewInImage ==
    ASSUME NEW im \in Images, NEW i \in Inodes, NEW v \in InodeSet,
           NEW jm, jm = [im EXCEPT !.ino[i] = v]
    PROVE  jm \in Images /\ jm.ino = [im.ino EXCEPT ![i] = v] /\ jm.blk = im.blk
    BY DEF Images

(* Addresses are the same where inodes and the blocks they name for more    *)
(* addresses are.                                                           *)
LEMMA SameAddresses ==
    ASSUME NEW im, NEW jm, jm.ino = im.ino,
           \A j \in Inodes : im.ino[j].addr[ND] # 0 =>
              jm.blk[im.ino[j].addr[ND]] = im.blk[im.ino[j].addr[ND]]
    PROVE  \A i \in Inodes : \A bn : Address(jm, i, bn) = Address(im, i, bn)
    BY DEF Address

(* The addresses of all inodes and the units of directories are the same.   *)
Alike(im, jm) ==
    /\ \A i \in Inodes, bn \in FileBlocks : Address(jm, i, bn) = Address(im, i, bn)
    /\ \A d \in Directories(im), off \in FileUnits : Unit(jm, d, off) = Unit(im, d, off)

(* Two such steps make one.                                                 *)
LEMMA AlikeTrans ==
    ASSUME NEW im, NEW jm, NEW km, jm.ino = im.ino, km.ino = jm.ino, Alike(im, jm), Alike(jm, km)
    PROVE  Alike(im, km)
<1>1. Directories(jm) = Directories(im)
    BY DEF Directories
<1>2. QED
    BY <1>1 DEF Alike

(* A block where no directory is, nor any addresses.                        *)
Elsewhere(im, b) ==
    b = 0 \/ /\ \A j \in Inodes : b # im.ino[j].addr[ND]
             /\ \A d \in Directories(im), bn \in FileBlocks : Address(im, d, bn) # b

(* Writing such a block leaves addresses and directories as they are.       *)
LEMMA WrittenElsewhere ==
    ASSUME NEW im, WellFormed(im), NEW b \in Blocks, NEW c \in Contents, Elsewhere(im, b),
           NEW jm, jm \in Images /\ jm.ino = im.ino /\ jm.blk = [im.blk EXCEPT ![b] = c]
    PROVE  Alike(im, jm) /\ jm.blk[b] = c
<1>1. im \in Images /\ im.blk \in [Blocks -> Contents]
    BY ImageTypes DEF WellFormed
<1>2. jm.ino = im.ino
    OBVIOUS
<1>3. jm.blk[b] = c /\ \A x \in Blocks : x # b => jm.blk[x] = im.blk[x]
    BY <1>1, <1>2
<1>4. \A i \in Inodes : \A bn : Address(jm, i, bn) = Address(im, i, bn)
  <2>1. \A j \in Inodes : im.ino[j].addr[ND] # 0 => im.ino[j].addr[ND] # b
      BY DEF Elsewhere
  <2>2. \A j \in Inodes : im.ino[j].addr[ND] \in Blocks
      BY DEF WellFormed, LaidOut
  <2>3. \A j \in Inodes : im.ino[j].addr[ND] # 0 =>
           jm.blk[im.ino[j].addr[ND]] = im.blk[im.ino[j].addr[ND]]
      BY <1>3, <2>1, <2>2
  <2>4. QED
      BY <1>2, <2>3, SameAddresses
<1>5. ASSUME NEW d \in Directories(im), NEW off \in FileUnits
      PROVE  Unit(jm, d, off) = Unit(im, d, off)
  <2>1. d \in Inodes /\ off \in Nat
      BY Sizes DEF Directories, FileUnits
  <2>2. PICK bn \in FileBlocks : bn = off \div BS
      BY <2>1, InFile
  <2>3. Address(jm, d, bn) = Address(im, d, bn) /\ Address(im, d, bn) \in Blocks
      BY <1>4, <2>1 DEF WellFormed, LaidOut
  <2>4. Address(im, d, bn) # 0 => Address(im, d, bn) # b
      BY DEF Elsewhere
  <2>5. Address(im, d, bn) # 0 => jm.blk[Address(im, d, bn)] = im.blk[Address(im, d, bn)]
      BY <1>3, <2>3, <2>4
  <2>6. QED
      BY <2>2, <2>3, <2>5 DEF Unit
<1>6. QED
    BY <1>2, <1>3, <1>4, <1>5 DEF Alike

(* A disk that a call may leave, or a failure of power in its midst.        *)
Disk(im) == WellFormed(im) /\ Kept(img, im)

(* What makes a disk of one that is alike.                                  *)
LEMMA AlikeDisk ==
    ASSUME NEW im, Disk(im), NEW jm \in Images, jm.ino = im.ino, Alike(im, jm)
    PROVE  Disk(jm)
<1>1. Directories(jm) = Directories(im) /\ \A i \in Inodes : Offsets(jm, i) = Offsets(im, i)
    BY DEF Directories, Offsets
<1>2. /\ LaidOut(im) /\ EntriesNameInodes(im) /\ EntriesDiffer(im) /\ Kept(img, im)
      /\ Directories(im) \subseteq Inodes
    BY DEF Disk, WellFormed, Directories
<1>3. /\ \A i \in Inodes, bn \in FileBlocks : Address(jm, i, bn) = Address(im, i, bn)
      /\ \A d \in Directories(im), off \in FileUnits : Unit(jm, d, off) = Unit(im, d, off)
    BY DEF Alike
<1>4. \A d \in Directories(im) : \A off \in Offsets(im, d) : Unit(jm, d, off) = Unit(im, d, off)
    BY <1>2, <1>3 DEF LaidOut
<1>5. LaidOut(jm)
  <2>1. \A i \in Inodes : /\ jm.ino[i].addr[ND] \in Blocks
                          /\ \A bn \in FileBlocks : Address(jm, i, bn) \in Blocks
      BY <1>2, <1>3 DEF LaidOut
  <2>2. \A i, j \in Inodes, bn \in FileBlocks :
           Address(jm, i, bn) # 0 => Address(jm, i, bn) # jm.ino[j].addr[ND]
      BY <1>2, <1>3 DEF LaidOut
  <2>3. \A d \in Directories(jm), i \in Inodes, b1, b2 \in FileBlocks :
           Address(jm, d, b1) # 0 /\ Address(jm, d, b1) = Address(jm, i, b2) => i = d /\ b1 = b2
    <3> SUFFICES ASSUME NEW d \in Directories(im), NEW i \in Inodes, NEW b1 \in FileBlocks,
                        NEW b2 \in FileBlocks,
                        Address(jm, d, b1) # 0 /\ Address(jm, d, b1) = Address(jm, i, b2)
                 PROVE  i = d /\ b1 = b2
        BY <1>1
    <3>1. Address(jm, d, b1) = Address(im, d, b1) /\ Address(jm, i, b2) = Address(im, i, b2)
        BY <1>2, <1>3
    <3>2. \A e \in Directories(im), j \in Inodes, c1, c2 \in FileBlocks :
             Address(im, e, c1) # 0 /\ Address(im, e, c1) = Address(im, j, c2) => j = e /\ c1 = c2
        BY <1>2 DEF LaidOut
    <3>3. Address(im, d, b1) # 0 /\ Address(im, d, b1) = Address(im, i, b2)
        BY <3>1
    <3>4. QED
        BY <3>2, <3>3
  <2>4. \A d \in Directories(jm) : Offsets(jm, d) \subseteq FileUnits
      BY <1>1, <1>2 DEF LaidOut
  <2>5. QED
      BY <2>1, <2>2, <2>3, <2>4 DEF LaidOut
<1>6. EntriesNameInodes(jm)
    BY <1>1, <1>2, <1>4 DEF EntriesNameInodes
<1>7. EntriesDiffer(jm)
    BY <1>1, <1>2, <1>4 DEF EntriesDiffer
<1>8. Kept(img, jm)
    BY <1>1, <1>2, <1>3 DEF Kept
<1>9. QED
    BY <1>5, <1>6, <1>7, <1>8 DEF Disk, WellFormed

(* The disk as it is.                                                       *)
LEMMA DiskStays == ASSUME WellFormed(img) PROVE Disk(img)
    BY DEF Disk, Kept

(* No entry of the directory has this name.                                 *)
Fresh(im, d, name) ==
    /\ d \in Directories(im)
    /\ \A off \in Offsets(im, d) : Unit(im, d, off)[1] # 0 => Unit(im, d, off)[2] # name

(* Inode i is taken, and belongs to no directory.                           *)
TakenIn(im, i, jm) ==
    /\ Disk(jm) /\ Directories(jm) = Directories(im) /\ i \notin Directories(im)
    /\ \A d \in Directories(im), off \in FileUnits : Unit(jm, d, off) = Unit(im, d, off)
    /\ jm.ino[i].type # 0 /\ \A j \in Inodes : j # i => jm.ino[j] = im.ino[j]

(* So it is when it is taken for a file or a device.                        *)
LEMMA TakenDisk ==
    ASSUME NEW im, Disk(im), NEW i \in Inodes, im.ino[i].type = 0,
           NEW type \in {T_FILE, T_DEV}, NEW major \in Nat,
           NEW v, v = NewInode(type, major), NEW jm, jm = [im EXCEPT !.ino[i] = v]
    PROVE  TakenIn(im, i, jm)
<1>1. /\ im \in Images /\ LaidOut(im) /\ EntriesNameInodes(im) /\ EntriesDiffer(im)
      /\ Kept(img, im) /\ im.ino \in [Inodes -> InodeSet]
    BY ImageTypes DEF Disk, WellFormed
<1>2. v \in InodeSet /\ v.type = type /\ \A x \in 0 .. ND : v.addr[x] = 0
  <2>1. [x \in 0 .. ND |-> 0] \in [0 .. ND -> Nat]
      OBVIOUS
  <2>2. type \in 0 .. 3
      BY DEF T_FILE, T_DEV
  <2>3. QED
      BY <2>1, <2>2 DEF NewInode, InodeSet
<1>3. T_DIR # 0 /\ type # T_DIR /\ type # 0 /\ ND \in Nat
    BY Sizes DEF T_FILE, T_DEV, T_DIR
<1>4. jm \in Images /\ jm.ino = [im.ino EXCEPT ![i] = v] /\ jm.blk = im.blk
  <2>1. jm = [im EXCEPT !.ino[i] = v]
      OBVIOUS
  <2>2. ASSUME NEW w \in InodeSet, NEW x, x = [im EXCEPT !.ino[i] = w]
        PROVE  x \in Images /\ x.ino = [im.ino EXCEPT ![i] = w] /\ x.blk = im.blk
      BY <1>1, <2>2, NewInImage
  <2>3. QED
      BY <1>2, <2>1, <2>2
<1>5. jm.ino[i] = v /\ \A j \in Inodes : j # i => jm.ino[j] = im.ino[j]
    BY <1>1, <1>4
<1>6. Directories(jm) = Directories(im) /\ i \notin Directories(im)
    BY <1>2, <1>3, <1>5 DEF Directories
<1>7. \A d \in Directories(im) : d \in Inodes /\ d # i /\ jm.ino[d] = im.ino[d]
    BY <1>5, <1>6 DEF Directories
<1>8. /\ \A bn \in FileBlocks : Address(jm, i, bn) = 0
      /\ \A j \in Inodes, bn \in FileBlocks : j # i => Address(jm, j, bn) = Address(im, j, bn)
  <2>1. \A bn \in FileBlocks : bn < ND => bn \in 0 .. ND
      BY Sizes DEF FileBlocks
  <2>2. ND \in 0 .. ND
      BY <1>3
  <2>3. QED
      BY <1>2, <1>4, <1>5, <2>1, <2>2 DEF Address
<1>9. \A d \in Directories(im), off \in FileUnits : Unit(jm, d, off) = Unit(im, d, off)
  <2> SUFFICES ASSUME NEW d \in Directories(im), NEW off \in FileUnits
               PROVE  Unit(jm, d, off) = Unit(im, d, off)
      OBVIOUS
  <2>1. off \div BS \in FileBlocks
      BY InFile DEF FileUnits
  <2>2. QED
      BY <1>4, <1>7, <1>8, <2>1 DEF Unit
<1>10. \A d \in Directories(im) : /\ Offsets(jm, d) = Offsets(im, d)
                                  /\ Offsets(im, d) \subseteq FileUnits
    BY <1>1, <1>7 DEF Offsets, LaidOut
<1>11. \A d \in Directories(im) : \A off \in Offsets(im, d) : Unit(jm, d, off) = Unit(im, d, off)
    BY <1>9, <1>10
<1>12. LaidOut(jm)
  <2>1. \A j \in Inodes : /\ jm.ino[j].addr[ND] \in Blocks
                          /\ \A bn \in FileBlocks : Address(jm, j, bn) \in Blocks
    <3> SUFFICES ASSUME NEW j \in Inodes
                 PROVE  /\ jm.ino[j].addr[ND] \in Blocks
                        /\ \A bn \in FileBlocks : Address(jm, j, bn) \in Blocks
        OBVIOUS
    <3>1. CASE j = i
      <4>1. v.addr[ND] = 0 /\ 0 \in Blocks
          BY <1>2, <1>3, Sizes
      <4>2. QED
          BY <1>5, <1>8, <3>1, <4>1
    <3>2. CASE j # i
        BY <1>1, <1>5, <1>8, <3>2 DEF LaidOut
    <3>3. QED
        BY <3>1, <3>2
  <2>2. ASSUME NEW j \in Inodes, NEW q \in Inodes, NEW bn \in FileBlocks, Address(jm, j, bn) # 0
        PROVE  Address(jm, j, bn) # jm.ino[q].addr[ND]
    <3>1. j # i /\ Address(jm, j, bn) = Address(im, j, bn)
        BY <1>8, <2>2
    <3>2. CASE q = i
      <4>1. v.addr[ND] = 0
          BY <1>2, <1>3
      <4>2. QED
          BY <1>5, <2>2, <3>2, <4>1
    <3>3. CASE q # i
        BY <1>1, <1>5, <2>2, <3>1, <3>3 DEF LaidOut
    <3>4. QED
        BY <3>2, <3>3
  <2>3. ASSUME NEW d \in Directories(im), NEW j \in Inodes, NEW b1 \in FileBlocks,
               NEW b2 \in FileBlocks,
               Address(jm, d, b1) # 0 /\ Address(jm, d, b1) = Address(jm, j, b2)
        PROVE  j = d /\ b1 = b2
    <3>1. j # i /\ Address(jm, d, b1) = Address(im, d, b1) /\ Address(jm, j, b2) = Address(im, j, b2)
        BY <1>7, <1>8, <2>3
    <3>2. \A e \in Directories(im), q \in Inodes, c1, c2 \in FileBlocks :
             Address(im, e, c1) # 0 /\ Address(im, e, c1) = Address(im, q, c2) => q = e /\ c1 = c2
        BY <1>1 DEF LaidOut
    <3>3. Address(im, d, b1) # 0 /\ Address(im, d, b1) = Address(im, j, b2)
        BY <2>3, <3>1
    <3>4. QED
        BY <3>2, <3>3
  <2>4. \A d \in Directories(jm) : Offsets(jm, d) \subseteq FileUnits
      BY <1>6, <1>10
  <2>5. QED
      BY <1>6, <2>1, <2>2, <2>3, <2>4 DEF LaidOut
<1>13. \A j \in Inodes : im.ino[j].type # 0 => jm.ino[j].type # 0
    BY <1>5
<1>14. EntriesNameInodes(jm)
    BY <1>1, <1>6, <1>10, <1>11, <1>13 DEF EntriesNameInodes
<1>15. EntriesDiffer(jm)
    BY <1>1, <1>6, <1>10, <1>11 DEF EntriesDiffer
<1>16. Kept(img, jm)
    BY <1>1, <1>6, <1>9, <1>10 DEF Kept
<1>17. QED
  <2>1. Disk(jm)
      BY <1>4, <1>12, <1>14, <1>15, <1>16 DEF Disk, WellFormed
  <2>2. jm.ino[i].type # 0
      BY <1>2, <1>3, <1>5
  <2>3. QED
      BY <1>5, <1>6, <1>9, <2>1, <2>2 DEF TakenIn

(* km is im but for the entry at offset at of directory d, which may be the *)
(* first behind its end; it is e or free.                                   *)
Entered(im, km, d, at, e) ==
    /\ km \in Images
    /\ \A j \in Inodes : km.ino[j].addr = im.ino[j].addr /\ km.ino[j].type = im.ino[j].type
    /\ \A f \in Directories(im) : /\ Offsets(im, f) \subseteq Offsets(km, f)
                                  /\ f # d => Offsets(km, f) = Offsets(im, f)
    /\ Offsets(km, d) \subseteq Offsets(im, d) \cup {at}
    /\ \A j \in Inodes, bn \in FileBlocks : Address(km, j, bn) = Address(im, j, bn)
    /\ \A f \in Directories(im), off \in FileUnits :
          f # d \/ off # at => Unit(km, f, off) = Unit(im, f, off)
    /\ Unit(km, d, at) = e \/ Unit(km, d, at)[1] = 0

(* A new name for an allocated inode may be entered where there is room.    *)
LEMMA EnteredDisk ==
    ASSUME NEW im, Disk(im), NEW d, NEW name, Fresh(im, d, name),
           NEW i \in Inodes, im.ino[i].type # 0, NEW at \in FileUnits,
           at \in Offsets(im, d) => Unit(im, d, at)[1] = 0,
           NEW km, Entered(im, km, d, at, <<i, name>>)
    PROVE  Disk(km)
<1>1. /\ im \in Images /\ LaidOut(im) /\ EntriesNameInodes(im) /\ EntriesDiffer(im)
      /\ Kept(img, im) /\ d \in Directories(im) /\ km \in Images
    BY DEF Disk, WellFormed, Fresh, Entered
<1>2. Directories(km) = Directories(im) /\ Directories(im) \subseteq Inodes
    BY DEF Entered, Directories
<1>3. \A f \in Directories(im) : Offsets(im, f) \subseteq FileUnits /\ Offsets(km, f) \subseteq FileUnits
    BY <1>1 DEF Entered, LaidOut
<1>4. LaidOut(km)
  <2>1. \A j \in Inodes : /\ km.ino[j].addr[ND] \in Blocks
                          /\ \A bn \in FileBlocks : Address(km, j, bn) \in Blocks
      BY <1>1 DEF LaidOut, Entered
  <2>2. \A j, q \in Inodes, bn \in FileBlocks :
           Address(km, j, bn) # 0 => Address(km, j, bn) # km.ino[q].addr[ND]
      BY <1>1 DEF LaidOut, Entered
  <2>3. ASSUME NEW f \in Directories(im), NEW j \in Inodes, NEW b1 \in FileBlocks,
               NEW b2 \in FileBlocks,
               Address(km, f, b1) # 0 /\ Address(km, f, b1) = Address(km, j, b2)
        PROVE  j = f /\ b1 = b2
    <3>1. Address(km, f, b1) = Address(im, f, b1) /\ Address(km, j, b2) = Address(im, j, b2)
        BY <1>2 DEF Entered
    <3>2. \A e \in Directories(im), q \in Inodes, c1, c2 \in FileBlocks :
             Address(im, e, c1) # 0 /\ Address(im, e, c1) = Address(im, q, c2) => q = e /\ c1 = c2
        BY <1>1 DEF LaidOut
    <3>3. Address(im, f, b1) # 0 /\ Address(im, f, b1) = Address(im, j, b2)
        BY <2>3, <3>1
    <3>4. QED
        BY <3>2, <3>3
  <2>4. \A f \in Directories(km) : Offsets(km, f) \subseteq FileUnits
      BY <1>2, <1>3
  <2>5. QED
      BY <1>2, <2>1, <2>2, <2>3, <2>4 DEF LaidOut
<1>5. ASSUME NEW f \in Directories(im), NEW off \in Offsets(km, f), Unit(km, f, off)[1] # 0
      PROVE  \/ f = d /\ off = at /\ Unit(km, f, off) = <<i, name>>
             \/ /\ off \in Offsets(im, f) /\ Unit(km, f, off) = Unit(im, f, off)
                /\ f # d \/ off # at
    <2>1. off \in FileUnits
        BY <1>3
    <2>2. CASE f = d /\ off = at
        BY <1>5, <2>2 DEF Entered
    <2>3. CASE f # d \/ off # at
        BY <2>1, <2>3 DEF Entered
    <2>4. QED
        BY <2>2, <2>3
<1>6. EntriesNameInodes(km)
  <2> SUFFICES ASSUME NEW f \in Directories(im), NEW off \in Offsets(km, f), Unit(km, f, off)[1] # 0
               PROVE  /\ Unit(km, f, off)[1] \in Inodes
                      /\ km.ino[Unit(km, f, off)[1]].type # 0
      BY <1>2 DEF EntriesNameInodes
  <2>1. CASE Unit(km, f, off) = <<i, name>>
    <3>1. Unit(km, f, off)[1] = i
        BY <2>1
    <3>2. km.ino[i].type # 0
        BY DEF Entered
    <3>3. QED
        BY <3>1, <3>2
  <2>2. CASE off \in Offsets(im, f) /\ Unit(km, f, off) = Unit(im, f, off)
    <3>1. Unit(im, f, off)[1] \in Inodes /\ im.ino[Unit(im, f, off)[1]].type # 0
        BY <1>1, <2>2 DEF EntriesNameInodes
    <3>2. QED
        BY <2>2, <3>1 DEF Entered
  <2>3. QED
      BY <1>5, <2>1, <2>2
<1>7. EntriesDiffer(km)
  <2> SUFFICES ASSUME NEW f \in Directories(im), NEW o1 \in Offsets(km, f), NEW o2 \in Offsets(km, f),
                      o1 # o2, Unit(km, f, o1)[1] # 0, Unit(km, f, o2)[1] # 0
               PROVE  Unit(km, f, o1)[2] # Unit(km, f, o2)[2]
      BY <1>2 DEF EntriesDiffer
  <2>1. ASSUME NEW o \in Offsets(im, d), Unit(im, d, o)[1] # 0
        PROVE  Unit(im, d, o)[2] # name
      BY <2>1 DEF Fresh
  <2>2. <<i, name>>[2] = name
      OBVIOUS
  <2>3. CASE f = d /\ o1 = at /\ Unit(km, f, o1) = <<i, name>>
    <3>1. o2 \in Offsets(im, d) /\ Unit(km, f, o2) = Unit(im, d, o2)
        BY <1>5, <2>3
    <3>2. QED
        BY <2>1, <2>2, <2>3, <3>1
  <2>4. CASE f = d /\ o2 = at /\ Unit(km, f, o2) = <<i, name>>
    <3>1. o1 \in Offsets(im, d) /\ Unit(km, f, o1) = Unit(im, d, o1)
        BY <1>5, <2>4
    <3>2. QED
        BY <2>1, <2>2, <2>4, <3>1
  <2>5. CASE /\ o1 \in Offsets(im, f) /\ Unit(km, f, o1) = Unit(im, f, o1)
             /\ o2 \in Offsets(im, f) /\ Unit(km, f, o2) = Unit(im, f, o2)
      BY <1>1, <2>5 DEF EntriesDiffer
  <2>6. QED
      BY <1>5, <2>3, <2>4, <2>5
<1>8. Kept(img, km)
  <2> SUFFICES ASSUME NEW f \in Directories(img), NEW off \in FileUnits,
                      off \in Offsets(img, f), Unit(img, f, off)[1] # 0
               PROVE  /\ f \in Directories(km) /\ off \in Offsets(km, f)
                      /\ Unit(km, f, off) = Unit(img, f, off)
      BY DEF Kept
  <2>1. /\ f \in Directories(im) /\ off \in Offsets(im, f)
        /\ Unit(im, f, off) = Unit(img, f, off)
      BY <1>1 DEF Kept
  <2>2. f # d \/ off # at
      BY <2>1
  <2>3. off \in Offsets(km, f) /\ Unit(km, f, off) = Unit(im, f, off)
      BY <2>1, <2>2 DEF Entered
  <2>4. QED
      BY <1>2, <2>1, <2>3
<1>9. QED
    BY <1>1, <1>4, <1>6, <1>7, <1>8 DEF Disk, WellFormed

(* A write that changes nothing of directories enters nothing.              *)
LEMMA NothingEntered ==
    ASSUME NEW im, NEW jm \in Images, jm.ino = im.ino, Alike(im, jm),
           NEW d \in Directories(im), NEW at \in FileUnits, Unit(im, d, at)[1] = 0, NEW e
    PROVE  Entered(im, jm, d, at, e)
<1>1. \A f : Offsets(jm, f) = Offsets(im, f)
    BY DEF Offsets
<1>2. Unit(jm, d, at) = Unit(im, d, at)
    BY DEF Alike
<1>3. QED
    BY <1>1, <1>2 DEF Entered, Alike

(* A unit of a directory written.                                           *)
LEMMA UnitEntered ==
    ASSUME NEW im, WellFormed(im), NEW d \in Directories(im), NEW at \in FileUnits,
           NEW e \in Nat \X Texts, NEW b, b = Address(im, d, at \div BS), b # 0,
           NEW c \in Contents, \A u \in 0 .. BS - 1 : c[u] = IF u = at % BS THEN e ELSE im.blk[b][u],
           NEW jm, jm \in Images /\ jm.ino = im.ino /\ jm.blk = [im.blk EXCEPT ![b] = c]
    PROVE  Entered(im, jm, d, at, e)
<1>1. im \in Images /\ LaidOut(im) /\ im.blk \in [Blocks -> Contents] /\ d \in Inodes
    BY ImageTypes DEF WellFormed, Directories
<1>2. \A off \in FileUnits : /\ off \in Nat /\ off \div BS \in FileBlocks
                             /\ off % BS \in 0 .. BS - 1
                             /\ off = BS * (off \div BS) + (off % BS)
    BY InFile DEF FileUnits
<1>3. b \in Blocks
    BY <1>1, <1>2 DEF LaidOut
<1>4. jm.ino = im.ino
    OBVIOUS
<1>5. jm.blk[b] = c /\ \A x \in Blocks : x # b => jm.blk[x] = im.blk[x]
    BY <1>1, <1>3, <1>4
<1>6. \A i \in Inodes : \A bn : Address(jm, i, bn) = Address(im, i, bn)
  <2>1. \A j \in Inodes : im.ino[j].addr[ND] # b /\ im.ino[j].addr[ND] \in Blocks
      BY <1>1, <1>2 DEF LaidOut
  <2>2. \A j \in Inodes : im.ino[j].addr[ND] # 0 =>
           jm.blk[im.ino[j].addr[ND]] = im.blk[im.ino[j].addr[ND]]
      BY <1>5, <2>1
  <2>3. QED
      BY <1>4, <2>2, SameAddresses
<1>7. ASSUME NEW f \in Directories(im), NEW off \in FileUnits, f # d \/ off # at
      PROVE  Unit(jm, f, off) = Unit(im, f, off)
  <2>1. f \in Inodes
      BY DEF Directories
  <2>2. PICK n, a : n = off \div BS /\ a = Address(im, f, n)
      OBVIOUS
  <2>3. n \in FileBlocks /\ Address(jm, f, n) = a /\ a \in Blocks
      BY <1>1, <1>2, <1>6, <2>1, <2>2 DEF LaidOut
  <2>4. CASE a = 0
      BY <2>2, <2>3, <2>4 DEF Unit
  <2>5. CASE a # 0 /\ a # b
    <3>1. jm.blk[a] = im.blk[a]
        BY <1>5, <2>3, <2>5
    <3>2. QED
        BY <2>2, <2>3, <2>5, <3>1 DEF Unit
  <2>6. CASE a # 0 /\ a = b
    <3>1. \A g \in Directories(im), q \in Inodes, c1, c2 \in FileBlocks :
             Address(im, g, c1) # 0 /\ Address(im, g, c1) = Address(im, q, c2) => q = g /\ c1 = c2
        BY <1>1 DEF LaidOut
    <3>2. f = d /\ n = at \div BS
        BY <1>2, <2>1, <2>2, <2>3, <2>6, <3>1
    <3>3. off % BS # at % BS
      <4>1. off = BS * n + (off % BS) /\ at = BS * n + (at % BS)
          BY <1>2, <2>2, <3>2
      <4>2. off # at
          BY <1>7, <3>2
      <4> HIDE DEF FileUnits
      <4>3. QED
          BY <4>1, <4>2
    <3>4. jm.blk[a][off % BS] = im.blk[a][off % BS]
        BY <1>2, <1>5, <2>6, <3>3
    <3>5. QED
        BY <2>2, <2>3, <2>6, <3>4 DEF Unit
  <2>7. QED
      BY <2>4, <2>5, <2>6
<1>8. Unit(jm, d, at) = e
  <2>1. Address(jm, d, at \div BS) = b
      BY <1>1, <1>2, <1>6
  <2>2. jm.blk[b][at % BS] = e
      BY <1>2, <1>5
  <2>3. QED
      BY <2>1, <2>2 DEF Unit
<1>9. \A f : Offsets(jm, f) = Offsets(im, f)
    BY <1>4 DEF Offsets
<1>10. QED
    BY <1>4, <1>6, <1>7, <1>8, <1>9 DEF Entered

(* The inode of the directory may then count the entry.                     *)
LEMMA InodeEntered ==
    ASSUME NEW im \in Images, NEW d \in Directories(im), NEW at, NEW e, NEW jm,
           jm.ino = im.ino, Entered(im, jm, d, at, e),
           NEW v \in InodeSet, v.addr = im.ino[d].addr, v.type = im.ino[d].type,
           v.size = im.ino[d].size \/ (at = im.ino[d].size /\ v.size = at + 1),
           NEW km, km = [jm EXCEPT !.ino[d] = v]
    PROVE  Entered(im, km, d, at, e)
<1>1. jm \in Images /\ d \in Inodes /\ im.ino \in [Inodes -> InodeSet]
    BY ImageTypes DEF Entered, Directories
<1>2. km \in Images /\ km.ino = [im.ino EXCEPT ![d] = v] /\ km.blk = jm.blk
    BY <1>1, NewInImage
<1>3. km.ino[d] = v /\ \A j \in Inodes : j # d => km.ino[j] = im.ino[j]
    BY <1>1, <1>2
<1>4. \A j \in Inodes : km.ino[j].addr = jm.ino[j].addr /\ km.ino[j].type = im.ino[j].type
    BY <1>3
<1>5. \A j \in Inodes : \A bn : Address(km, j, bn) = Address(jm, j, bn)
    BY <1>2, <1>4 DEF Address
<1>6. \A j \in Inodes : \A off : Unit(km, j, off) = Unit(jm, j, off)
    BY <1>2, <1>5 DEF Unit
<1>7. /\ \A f \in Directories(im) : f # d => Offsets(km, f) = Offsets(im, f)
      /\ Offsets(im, d) \subseteq Offsets(km, d) /\ Offsets(km, d) \subseteq Offsets(im, d) \cup {at}
  <2>1. \A f \in Directories(im) : f # d => Offsets(km, f) = Offsets(im, f)
      BY <1>3 DEF Offsets, Directories
  <2>2. im.ino[d].size \in Nat
      BY <1>1, ImageTypes
  <2>3. /\ Offsets(im, d) \subseteq Offsets(km, d)
        /\ Offsets(km, d) \subseteq Offsets(im, d) \cup {at}
      BY <1>3, <2>2 DEF Offsets
  <2>4. QED
      BY <2>1, <2>3
<1>8. Directories(im) \subseteq Inodes
    BY DEF Directories
<1>9. QED
    BY <1>1, <1>2, <1>4, <1>5, <1>6, <1>7, <1>8 DEF Entered

-----------------------------------------------------------------------------
(* A disk, the cache of inodes and the log of a call.                       *)

(* What the cache of inodes may hold, a log of disks, and the record s of a *)
(* call, whose disk is good whether or not the kernel has gone wild.        *)
Caches == [Slots -> [ref : 0 .. RefMod - 1, idx : Inodes \cup {0}, n : InodeSet]]
Log(l) == (\E S : l \in Seq(S)) /\ \A i \in 1 .. Len(l) : Disk(l[i])
Fields(s) ==
    s = [img |-> s.img, cached |-> s.cached, ic |-> s.ic, ok |-> s.ok, log |-> s.log,
         over |-> s.over]
State(s) ==
    /\ Fields(s) /\ Disk(s.img) /\ s.ic \in Caches /\ s.ok \in BOOLEAN /\ Log(s.log)
    /\ s.ok => s.cached \subseteq Blocks

(* A step that leaves alone inodes, in memory and on the disk, and what     *)
(* directories name.                                                        *)
Same(s, t) ==
    /\ State(t) /\ (t.ok => s.ok) /\ t.ic = s.ic /\ t.img.ino = s.img.ino
    /\ Alike(s.img, t.img)

(* Two such steps make one.                                                 *)
LEMMA SameTrans ==
    ASSUME NEW s, NEW t, NEW u, Same(s, t), Same(t, u)
    PROVE  Same(s, u)
<1>1. Alike(s.img, u.img)
    BY AlikeTrans DEF Same
<1>2. QED
    BY <1>1 DEF Same

(* Doing nothing is such a step, and so is what leaves the disk alone.      *)
LEMMA SameSelf ==
    ASSUME NEW s, NEW t, State(t), t.ok => s.ok, t.ic = s.ic, t.img = s.img
    PROVE  Same(s, t)
    BY DEF Same, Alike

(* Reading a block changes the buffer cache only.                           *)
LEMMA ReadSame ==
    ASSUME NEW s, State(s), NEW b, s.ok => b \in Blocks
    PROVE  Same(s, Read(s, b)) /\ Read(s, b).img = s.img
<1>1. CASE Read(s, b) = [s EXCEPT !.cached = @ \cup {b}]
  <2> DEFINE t == [img |-> s.img, cached |-> s.cached \cup {b}, ic |-> s.ic, ok |-> s.ok,
                   log |-> s.log, over |-> s.over]
  <2>1. Read(s, b) = t
      BY <1>1 DEF State, Fields
  <2>2. State(t) /\ t.ok = s.ok /\ t.ic = s.ic /\ t.img = s.img
      BY DEF State, Fields
  <2>3. QED
      BY <2>1, <2>2, SameSelf
<1>2. CASE Read(s, b) = Fail(s)
  <2> DEFINE t == [img |-> s.img, cached |-> s.cached, ic |-> s.ic, ok |-> FALSE,
                   log |-> s.log, over |-> s.over]
  <2>1. Read(s, b) = t
      BY <1>2 DEF State, Fields, Fail
  <2>2. State(t) /\ t.ok = FALSE /\ t.ic = s.ic /\ t.img = s.img
      BY DEF State, Fields
  <2>3. QED
      BY <2>1, <2>2, SameSelf
<1>3. QED
    BY <1>1, <1>2 DEF Read

(* A failure is final.                                                      *)
LEMMA FailSame ==
    ASSUME NEW s, State(s)
    PROVE  Same(s, Fail(s)) /\ ~Fail(s).ok
<1> DEFINE t == [img |-> s.img, cached |-> s.cached, ic |-> s.ic, ok |-> FALSE,
                 log |-> s.log, over |-> s.over]
<1>1. Fail(s) = t
  <2> SUFFICES ASSUME NEW r, r = Fail(s) PROVE r = t
      OBVIOUS
  <2>1. QED
      BY DEF State, Fields, Fail
<1>2. State(t) /\ t.ok = FALSE /\ t.ic = s.ic /\ t.img = s.img
    BY DEF State, Fields
<1>3. QED
    BY <1>1, <1>2, SameSelf

(* A log goes on.                                                           *)
LEMMA LogGrows == ASSUME NEW l, Log(l), NEW im, Disk(im) PROVE Log(Append(l, im))
<1>1. PICK S : l \in Seq(S)
    BY DEF Log
<1>2. l \in Seq(S \cup {im})
    BY <1>1, SeqMonotonic
<1>3. /\ Append(l, im) \in Seq(S \cup {im}) /\ Len(Append(l, im)) = Len(l) + 1 /\ Len(l) \in Nat
      /\ \A i \in 1 .. Len(l) + 1 : Append(l, im)[i] = IF i <= Len(l) THEN l[i] ELSE im
    BY <1>2
<1>4. QED
    BY <1>3 DEF Log

(* What a write of the disk leaves of the rest.                             *)
LEMMA WriteTo ==
    ASSUME NEW s, State(s), NEW im, s.ok => Disk(im)
    PROVE  /\ State(Write(s, im)) /\ Write(s, im).ok = s.ok
           /\ Write(s, im).ic = s.ic /\ Write(s, im).img = IF s.ok THEN im ELSE s.img
<1>1. CASE ~s.ok
    BY <1>1 DEF Write
<1>2. CASE s.ok
  <2> DEFINE t == [img |-> im, cached |-> s.cached, ic |-> s.ic, ok |-> s.ok,
                   log |-> Append(s.log, im), over |-> s.over]
  <2>1. Write(s, im) = t
    <3> SUFFICES ASSUME NEW r, r = Write(s, im) PROVE r = t
        OBVIOUS
    <3>1. QED
        BY <1>2 DEF State, Fields, Write
  <2>2. Log(Append(s.log, im))
      BY <1>2, LogGrows DEF State
  <2>3. State(t) /\ t.ok = s.ok /\ t.ic = s.ic /\ t.img = im
      BY <1>2, <2>2 DEF State, Fields
  <2>4. QED
      BY <1>2, <2>1, <2>3
<1>3. QED
    BY <1>1, <1>2

(* A block is written that has nothing to do with directories.              *)
LEMMA BlockWritten ==
    ASSUME NEW s, State(s), s.ok, NEW im, im = s.img, NEW b \in Blocks, NEW c \in Contents,
           Elsewhere(im, b),
           NEW jm, jm \in Images /\ jm.ino = im.ino /\ jm.blk = [im.blk EXCEPT ![b] = c]
    PROVE  Same(s, Write(s, jm)) /\ Write(s, jm).img.blk[b] = c
<1>1. Disk(im) /\ WellFormed(im)
    BY DEF State, Disk
<1>2. Alike(im, jm)
    BY <1>1, WrittenElsewhere
<1>3. jm.blk[b] = c
    BY <1>1, ImageTypes DEF WellFormed
<1>4. jm \in Images /\ jm.ino = im.ino
    OBVIOUS
<1>5. Disk(jm)
    BY <1>1, <1>2, <1>4, AlikeDisk
<1>6. /\ State(Write(s, jm)) /\ Write(s, jm).ok = s.ok /\ Write(s, jm).ic = s.ic
      /\ Write(s, jm).img = jm
    BY <1>5, WriteTo
<1>7. QED
    BY <1>3, <1>2, <1>4, <1>6 DEF Same

(* The same, whether or not the call has failed before.                     *)
LEMMA BlockSame ==
    ASSUME NEW s, State(s), NEW b, NEW c, NEW im, im = s.img,
           s.ok => b \in Blocks /\ c \in Contents /\ Elsewhere(im, b),
           NEW jm, jm = [im EXCEPT !.blk[b] = c]
    PROVE  /\ Same(s, Write(s, jm))
           /\ Write(s, jm).ok => s.ok /\ Write(s, jm).img.blk[b] = c
<1>1. CASE ~s.ok
  <2>1. Write(s, jm) = s
      BY <1>1 DEF Write
  <2>2. Same(s, s)
      BY SameSelf
  <2>3. QED
      BY <1>1, <2>1, <2>2
<1>2. CASE s.ok
  <2>1. im \in Images /\ b \in Blocks /\ c \in Contents /\ Elsewhere(im, b)
      BY <1>2 DEF State, Disk, WellFormed
  <2>2. jm \in Images
      BY <2>1, NewBlock
  <2>3. jm.ino = im.ino
      BY <2>1, NewBlock
  <2>4. jm.blk = [im.blk EXCEPT ![b] = c]
      BY <2>1, NewBlock
  <2>5. ASSUME NEW km, km \in Images /\ km.ino = im.ino /\ km.blk = [im.blk EXCEPT ![b] = c]
        PROVE  Same(s, Write(s, km)) /\ Write(s, km).img.blk[b] = c
      BY <1>2, <2>1, <2>5, BlockWritten
  <2>6. QED
      BY <1>2, <2>2, <2>3, <2>4, <2>5
<1>3. QED
    BY <1>1, <1>2

(* A block of zeroes.                                                       *)
LEMMA ZeroContents ==
    ZeroBlock \in Contents /\ \A u \in 0 .. BS - 1 : ZeroBlock[u] = Zero
<1>1. Zero \in Nat \X Texts
    BY DEF Zero, Texts
<1>2. QED
    BY <1>1 DEF ZeroBlock, Contents

(* balloc clears block 0 and returns it.                                    *)
LEMMA BallocSame ==
    ASSUME NEW s, State(s)
    PROVE  \E w : /\ Balloc(s) = [s |-> w, b |-> 0] /\ Same(s, w)
                  /\ w.ok => w.img.blk[0] = ZeroBlock
<1> DEFINE r == Read(Read(s, BitmapOff), 0)
<1>1. Same(s, Read(s, BitmapOff))
    BY Sizes, ReadSame
<1>2. Same(Read(s, BitmapOff), r)
    BY <1>1, Sizes, ReadSame DEF Same
<1>3. Same(s, r)
    BY <1>1, <1>2, SameTrans
<1> DEFINE w == Write(r, [r.img EXCEPT !.blk[0] = ZeroBlock])
<1>4. Balloc(s) = [s |-> w, b |-> 0]
    BY DEF Balloc
<1> HIDE DEF r
<1>5. Same(r, w) /\ (w.ok => w.img.blk[0] = ZeroBlock)
  <2>1. PICK im, jm : im = r.img /\ jm = [im EXCEPT !.blk[0] = ZeroBlock]
      OBVIOUS
  <2>2. w = Write(r, jm)
      BY <2>1
  <2>3. State(r) /\ im = r.img /\ jm = [im EXCEPT !.blk[0] = ZeroBlock]
      BY <1>3, <2>1 DEF Same
  <2>4. 0 \in Blocks /\ ZeroBlock \in Contents /\ Elsewhere(im, 0)
      BY Sizes, ZeroContents DEF Elsewhere
  <2> HIDE DEF w
  <2>5. Same(r, Write(r, jm)) /\ (Write(r, jm).ok => r.ok /\ Write(r, jm).img.blk[0] = ZeroBlock)
      BY <2>3, <2>4, BlockSame
  <2>6. QED
      BY <2>2, <2>5
<1> HIDE DEF w
<1>6. QED
    BY <1>3, <1>4, <1>5, SameTrans

(* An address stored where it is already leaves an inode as it was.         *)
LEMMA StoreSame ==
    ASSUME NEW s, State(s), NEW k, NEW x, NEW v, s.ic[k].n.addr[x] = v
    PROVE  [s EXCEPT !.ic[k].n.addr[x] = v] = s
<1> DEFINE e == s.ic[k]
<1> DEFINE a == [e EXCEPT !.n.addr[x] = v]
<1>1. ASSUME k \in Slots PROVE a = s.ic[k]
  <2>1. e \in [ref : 0 .. RefMod - 1, idx : Inodes \cup {0}, n : InodeSet]
      BY <1>1 DEF State, Caches
  <2>2. e.n \in InodeSet
      BY <2>1
  <2>3. e.n.addr \in [0 .. ND -> Nat]
      BY <2>2 DEF InodeSet
  <2>4. [e.n.addr EXCEPT ![x] = v] = e.n.addr
      BY <2>3
  <2>5. [e.n EXCEPT !.addr = e.n.addr] = e.n
      BY <2>2 DEF InodeSet
  <2>6. [e EXCEPT !.n = e.n] = e
      BY <2>1
  <2>7. a = [e EXCEPT !.n = [e.n EXCEPT !.addr = [e.n.addr EXCEPT ![x] = v]]]
      OBVIOUS
  <2>8. a = e
      BY <2>4, <2>5, <2>6, <2>7
  <2>9. QED
      BY <2>8
<1>2. [s.ic EXCEPT ![k] = a] = s.ic
  <2>1. s.ic = [q \in Slots |-> s.ic[q]]
      BY DEF State, Caches
  <2> HIDE DEF a
  <2>2. CASE k \in Slots
      BY <1>1, <2>1, <2>2
  <2>3. CASE k \notin Slots
      BY <2>1, <2>3
  <2>4. QED
      BY <2>2, <2>3
<1>3. [s EXCEPT !.ic = s.ic] = s
  <2> SUFFICES ASSUME NEW r, r = [s EXCEPT !.ic = s.ic] PROVE r = s
      OBVIOUS
  <2>1. QED
      BY DEF State, Fields
<1>4. [s EXCEPT !.ic[k].n.addr[x] = v] = [s EXCEPT !.ic = [s.ic EXCEPT ![k] = a]]
    OBVIOUS
<1>5. QED
    BY <1>2, <1>3, <1>4

(* A slot that has the addresses of an inode.                               *)
Addressed(s, k, i) == k \in Slots /\ i \in Inodes /\ s.ic[k].n.addr = s.img.ino[i].addr

(* What bmap finds: the address of a block of the inode.                    *)
Mapped(s, i, bn, m) ==
    /\ Same(s, m.s)
    /\ m.s.ok => /\ bn \in FileBlocks /\ m.b = Address(s.img, i, bn) /\ m.b \in Blocks
                 /\ m.b = 0 => m.s.img.blk[0] = ZeroBlock

(* bmap only stores an address where it is already, for balloc returns 0.   *)
LEMMA BmapFinds ==
    ASSUME NEW s, State(s), NEW k, NEW i, s.ok => Addressed(s, k, i), NEW bn \in Nat
    PROVE  Mapped(s, i, bn, Bmap(s, k, bn))
<1> DEFINE Addr(x) == s.ic[k].n.addr[x]
<1> DEFINE Direct(r) == [r EXCEPT !.s.ic[k].n.addr[bn] = r.b]
<1> DEFINE Stor(t, table) ==
          IF t.img.blk[table][bn - ND][1] # 0
          THEN [s |-> t, b |-> t.img.blk[table][bn - ND][1]] ELSE Balloc(t)
<1> DEFINE Indirect(q) == Stor(Read([q.s EXCEPT !.ic[k].n.addr[ND] = q.b], q.b), q.b)
<1> DEFINE m == IF Addr(ND) # 0 THEN [s |-> s, b |-> Addr(ND)] ELSE Balloc(s)
<1>1. Bmap(s, k, bn) =
        IF bn < ND
        THEN IF Addr(bn) # 0 THEN [s |-> s, b |-> Addr(bn)] ELSE Direct(Balloc(s))
        ELSE IF bn - ND >= BS THEN [s |-> Fail(s), b |-> 0]
        ELSE Indirect(m)
    BY DEF Bmap
<1>2. Same(s, s)
    BY SameSelf
<1>3. /\ BS \in Nat /\ BS > 0 /\ ND \in Nat /\ ND > 0 /\ 0 \in Blocks
      /\ bn \in FileBlocks <=> bn < ND + BS
  <2>1. BS \in Nat /\ BS > 0 /\ ND \in Nat /\ ND > 0 /\ 0 \in Blocks
      BY Sizes
  <2>2. FileBlocks = 0 .. (ND + BS) - 1
      BY <2>1 DEF FileBlocks
  <2>3. QED
      BY <2>1, <2>2
<1>4. ASSUME s.ok
      PROVE  /\ Addr(ND) = s.img.ino[i].addr[ND] /\ Addr(ND) \in Blocks
             /\ Addr(bn) = s.img.ino[i].addr[bn]
             /\ bn \in FileBlocks => Address(s.img, i, bn) \in Blocks
    BY <1>4 DEF State, Disk, WellFormed, LaidOut, Addressed
<1>5. CASE bn < ND /\ Addr(bn) # 0
  <2>1. Bmap(s, k, bn) = [s |-> s, b |-> Addr(bn)]
      BY <1>1, <1>5
  <2>2. s.ok => Address(s.img, i, bn) = Addr(bn) /\ bn \in FileBlocks
      BY <1>3, <1>4, <1>5 DEF Address
  <2> HIDE DEF Addr
  <2>3. QED
      BY <1>2, <1>4, <1>5, <2>1, <2>2 DEF Mapped
<1>6. CASE bn < ND /\ Addr(bn) = 0
  <2>1. PICK w : /\ Balloc(s) = [s |-> w, b |-> 0] /\ Same(s, w)
                 /\ w.ok => w.img.blk[0] = ZeroBlock
      BY BallocSame
  <2>2. w.ic[k].n.addr[bn] = 0 /\ State(w)
      BY <1>6, <2>1 DEF Same
  <2>3. [w EXCEPT !.ic[k].n.addr[bn] = 0] = w
      BY <2>2, StoreSame
  <2>4. Direct(Balloc(s)) = [s |-> [w EXCEPT !.ic[k].n.addr[bn] = 0], b |-> 0]
      BY <2>1
  <2>5. Bmap(s, k, bn) = [s |-> w, b |-> 0]
      BY <1>1, <1>6, <2>3, <2>4
  <2>6. s.ok => Address(s.img, i, bn) = 0 /\ bn \in FileBlocks
      BY <1>3, <1>4, <1>6 DEF Address
  <2>7. w.ok => s.ok
      BY <2>1 DEF Same
  <2>8. QED
      BY <1>3, <2>1, <2>5, <2>6, <2>7 DEF Mapped
<1>7. CASE ~(bn < ND) /\ bn - ND >= BS
  <2>1. Bmap(s, k, bn) = [s |-> Fail(s), b |-> 0]
      BY <1>1, <1>7
  <2>2. QED
      BY <2>1, FailSame DEF Mapped
<1>8. CASE ~(bn < ND) /\ ~(bn - ND >= BS)
  <2>1. /\ Same(s, m.s) /\ s.ic[k].n.addr[ND] = m.b
        /\ m.s.ok => IF m.b = 0 THEN m.s.img.blk[0] = ZeroBlock ELSE m.s.img = s.img
      BY <1>2, BallocSame
  <2> HIDE DEF m
  <2> DEFINE t == Read([m.s EXCEPT !.ic[k].n.addr[ND] = m.b], m.b)
  <2>2. State(m.s) /\ m.s.ic[k].n.addr[ND] = m.b /\ (m.s.ok => s.ok)
      BY <2>1 DEF Same
  <2>3. [m.s EXCEPT !.ic[k].n.addr[ND] = m.b] = m.s
      BY <2>2, StoreSame
  <2>4. t = Read(m.s, m.b)
      BY <2>3
  <2>5. m.s.ok => m.b \in Blocks
      BY <1>4, <2>1, <2>2
  <2>6. Same(m.s, t) /\ t.img = m.s.img
      BY <2>2, <2>4, <2>5, ReadSame
  <2>7. Same(s, t)
      BY <2>1, <2>6, SameTrans
  <2>8. Bmap(s, k, bn) = Stor(t, m.b)
      BY <1>1, <1>8
  <2> HIDE DEF t
  <2>9. State(t) /\ (t.ok => m.s.ok /\ s.ok)
      BY <2>2, <2>6 DEF Same
  <2>10. bn - ND \in 0 .. BS - 1 /\ bn \in FileBlocks /\ bn \notin 0 .. ND - 1
      BY <1>3, <1>8
  <2> DEFINE v == t.img.blk[m.b][bn - ND][1]
  <2>11. ASSUME s.ok PROVE Address(s.img, i, bn) =
             IF m.b = 0 THEN 0 ELSE s.img.blk[m.b][bn - ND][1]
      BY <1>4, <1>8, <2>1, <2>11 DEF Address
  <2>12. t.ok => Address(s.img, i, bn) = v
    <3>1. CASE t.ok /\ m.b = 0
      <4>1. t.img.blk[0] = ZeroBlock
          BY <2>1, <2>6, <2>9, <3>1
      <4>2. t.img.blk[0][bn - ND] = Zero
          BY <2>10, <4>1, ZeroContents
      <4>3. Zero[1] = 0
          BY DEF Zero
      <4>4. v = 0
          BY <3>1, <4>2, <4>3
      <4> HIDE DEF v
      <4>5. QED
          BY <2>9, <2>11, <3>1, <4>4
    <3>2. CASE t.ok /\ m.b # 0
      <4>1. t.img = s.img
          BY <2>1, <2>6, <2>9, <3>2
      <4>2. QED
          BY <2>9, <2>11, <3>2, <4>1
    <3>3. QED
        BY <3>1, <3>2
  <2>13. CASE v # 0
    <3>1. Bmap(s, k, bn) = [s |-> t, b |-> v]
        BY <2>8, <2>13
    <3> HIDE DEF v
    <3>2. t.ok => v \in Blocks
        BY <1>4, <2>9, <2>10, <2>12
    <3>3. QED
        BY <2>7, <2>10, <2>12, <2>13, <3>1, <3>2 DEF Mapped
  <2>14. CASE v = 0
    <3>1. PICK w : /\ Balloc(t) = [s |-> w, b |-> 0] /\ Same(t, w)
                   /\ w.ok => w.img.blk[0] = ZeroBlock
        BY <2>9, BallocSame
    <3>2. Bmap(s, k, bn) = [s |-> w, b |-> 0]
        BY <2>8, <2>14, <3>1
    <3>3. Same(s, w) /\ (w.ok => t.ok)
        BY <2>7, <3>1, SameTrans DEF Same
    <3> HIDE DEF v
    <3>4. QED
        BY <1>3, <2>10, <2>12, <2>14, <3>1, <3>2, <3>3 DEF Mapped
  <2>15. QED
      BY <2>13, <2>14
<1>9. QED
    BY <1>5, <1>6, <1>7, <1>8

-----------------------------------------------------------------------------
(* Loops                                                                    *)

(* A turn of the loop c.                                                    *)
Turn(c, t, i) ==
    CASE c.kind = "read" -> ReadBlock(t, c.k, c.off, c.n, c.off \div BS + i)
      [] c.kind = "write" -> WriteBlock(t, c.k, c.off, c.n, c.off \div BS + i, c.data)
      [] c.kind = "inodes" -> Read(t, IBlock(i + 1))
      [] OTHER -> Component(t, c.path[i + 1])

(* The states a loop goes through.                                          *)
IsRun(f, c, s, n) == f = [k \in 0 .. n |-> IF k = 0 THEN s ELSE Turn(c, f[k - 1], k - 1)]

(* Those states exist: the loop's function is defined on all its turns.     *)
LEMMA Runs ==
    ASSUME NEW c, NEW s, NEW n \in Nat
    PROVE  \E f : IsRun(f, c, s, n)
<1> DEFINE Run(f, m) == f = [k \in 0 .. m |-> IF k = 0 THEN s ELSE Turn(c, f[k - 1], k - 1)]
<1> DEFINE Bad == {m \in 0 .. n : ~ \E f : Run(f, m)}
<1>1. Bad = {}
  <2> SUFFICES ASSUME Bad # {} PROVE FALSE
      OBVIOUS
  <2>1. PICK m \in Bad : \A k \in Bad : m <= k
    <3>1. Bad \in SUBSET Nat
        OBVIOUS
    <3> HIDE DEF Bad
    <3>2. QED
        BY <3>1, Least
  <2>2. m # 0
    <3> DEFINE f == [k \in 0 .. 0 |-> s]
    <3>1. f = [k \in 0 .. 0 |-> IF k = 0 THEN s ELSE Turn(c, f[k - 1], k - 1)]
        BY \A k \in 0 .. 0 : k = 0
    <3>2. QED
        BY <3>1
  <2>3. m - 1 \in 0 .. n - 1 /\ m - 1 \notin Bad /\ m - 1 \in 0 .. n /\ m \in 0 .. n
    <3>1. m \in 0 .. n
        OBVIOUS
    <3> HIDE DEF Bad
    <3>2. QED
        BY <2>1, <2>2, <3>1
  <2>4. PICK g : Run(g, m - 1)
      BY <2>3
  <2> DEFINE f == [k \in 0 .. m |-> IF k = m THEN Turn(c, g[m - 1], m - 1) ELSE g[k]]
  <2>5. ASSUME NEW k \in 0 .. m
        PROVE  f[k] = IF k = 0 THEN s ELSE Turn(c, f[k - 1], k - 1)
    <3>1. CASE k = 0
      <4>1. f[k] = g[0] /\ 0 \in 0 .. m - 1
          BY <2>2, <2>3, <3>1
      <4>2. g[0] = s
          BY <2>4, <4>1
      <4>3. QED
          BY <3>1, <4>1, <4>2
    <3>2. CASE k # 0 /\ k = m
      <4>1. f[k - 1] = g[k - 1]
          BY <2>3, <3>2
      <4>2. QED
          BY <3>2, <4>1
    <3>3. CASE k # 0 /\ k # m
      <4>1. f[k - 1] = g[k - 1] /\ f[k] = g[k] /\ k \in 0 .. m - 1
          BY <2>3, <3>3
      <4>2. g[k] = Turn(c, g[k - 1], k - 1)
          BY <2>4, <3>3, <4>1
      <4>3. QED
          BY <3>3, <4>1, <4>2
    <3>4. QED
        BY <3>1, <3>2, <3>3
  <2>6. f = [k \in 0 .. m |-> f[k]]
      OBVIOUS
  <2> HIDE DEF f
  <2>7. Run(f, m)
      BY <2>5, <2>6
  <2>8. QED
      BY <2>3, <2>7
<1>2. n \in 0 .. n
    OBVIOUS
<1> HIDE DEF Run
<1>3. \E f : Run(f, n)
    BY <1>1, <1>2
<1>4. QED
    BY <1>3 DEF Run, IsRun

(* What holds at the start and after every turn holds at the end.           *)
LEMMA ToTheEnd ==
    ASSUME NEW n \in Nat, NEW G, 0 \in G, \A k \in 0 .. n - 1 : k \in G => k + 1 \in G
    PROVE  n \in G
<1> DEFINE Bad == {m \in 0 .. n : m \notin G}
<1> SUFFICES ASSUME Bad # {} PROVE FALSE
    OBVIOUS
<1>1. PICK m \in Bad : \A k \in Bad : m <= k
  <2>1. Bad \in SUBSET Nat
      OBVIOUS
  <2> HIDE DEF Bad
  <2>2. QED
      BY <2>1, Least
<1>2. m # 0
    OBVIOUS
<1>3. m - 1 \in 0 .. n - 1 /\ m - 1 \notin Bad /\ m - 1 \in 0 .. n /\ m - 1 + 1 = m
    BY <1>1, <1>2
<1>4. m - 1 \in G
    BY <1>3
<1>5. QED
    BY <1>3, <1>4

-----------------------------------------------------------------------------
(* Files                                                                    *)

(* The blocks and units of a transfer can be counted.                       *)
LEMMA Counting ==
    ASSUME NEW off \in Int, NEW n \in Int
    PROVE  Span(off, n) \in Nat /\ \A bn : Cardinality(Within(off, n, bn)) \in Nat
<1> DEFINE U == off .. off + n - 1
<1>1. IsFiniteSet(U)
  <2>1. off \in Int /\ off + n - 1 \in Int
      OBVIOUS
  <2>2. QED
      BY <2>1, FS_Interval
<1> HIDE DEF U
<1>2. IsFiniteSet({u \div BS : u \in U})
  <2> DEFINE h == [u \in U |-> u \div BS]
  <2>1. h \in Surjection(U, {u \div BS : u \in U})
      BY DEF Surjection
  <2> HIDE DEF h
  <2>2. QED
      BY <1>1, <2>1, FS_Surjection
<1>3. \A bn : IsFiniteSet({u \in U : u \div BS = bn})
  <2> SUFFICES ASSUME NEW bn PROVE IsFiniteSet({u \in U : u \div BS = bn})
      OBVIOUS
  <2>1. {u \in U : u \div BS = bn} \subseteq U
      OBVIOUS
  <2>2. QED
      BY <1>1, <2>1, FS_Subset
<1>4. QED
    BY <1>2, <1>3, FS_CardinalityType DEF Span, Within, U

(* A step that leaves inodes alone leaves a slot's addresses.               *)
LEMMA AddressedStays ==
    ASSUME NEW s, NEW t, Same(s, t), NEW k, NEW i, s.ok => Addressed(s, k, i)
    PROVE  t.ok => Addressed(t, k, i)
    BY DEF Same, Addressed

(* What a transfer has read so far.                                         *)
Reading(s, n, t) ==
    t = [s |-> t.s, ret |-> n, data |-> t.data] /\ Same(s, t.s) /\ \E S : t.data \in Seq(S)

(* After a turn that finds m the transfer t is u, w units longer.           *)
Turned(t, m, off, w, u) ==
    /\ u.s = Read(m.s, m.b) /\ Len(t.data) \in Nat /\ Len(u.data) = Len(t.data) + w
    /\ \A j \in 1 .. Len(t.data) : u.data[j] = t.data[j]
    /\ \A j \in 1 .. w : u.data[Len(t.data) + j] =
                           m.s.img.blk[m.b][(off + Len(t.data) + j - 1) % BS]

(* A turn of tinyfs_data_read's loop.                                       *)
LEMMA ReadBlockKeeps ==
    ASSUME NEW s, NEW n \in Int, NEW t, Reading(s, n, t), NEW k, NEW i,
           s.ok => Addressed(s, k, i), NEW off \in Nat, NEW bn \in Nat
    PROVE  /\ Reading(s, n, ReadBlock(t, k, off, n, bn))
           /\ Turned(t, Bmap(t.s, k, bn), off, Cardinality(Within(off, n, bn)),
                     ReadBlock(t, k, off, n, bn))
           /\ ReadBlock(t, k, off, n, bn).s.ok => Bmap(t.s, k, bn).s.ok
<1> DEFINE m == Bmap(t.s, k, bn)
<1> DEFINE w == Cardinality(Within(off, n, bn))
<1> DEFINE g == [j \in 1 .. w |-> m.s.img.blk[m.b][(off + Len(t.data) + j - 1) % BS]]
<1> DEFINE x == Read(m.s, m.b)
<1>1. Same(s, x) /\ (x.ok => m.s.ok)
  <2>1. Same(s, t.s)
      BY DEF Reading
  <2>2. State(t.s)
      BY <2>1 DEF Same
  <2>3. t.s.ok => Addressed(t.s, k, i)
      BY <2>1, AddressedStays
  <2>4. Mapped(t.s, i, bn, m)
      BY <2>2, <2>3, BmapFinds
  <2>5. Same(t.s, m.s) /\ State(m.s) /\ (m.s.ok => m.b \in Blocks)
      BY <2>4 DEF Mapped, Same
  <2>6. Same(m.s, x)
      BY <2>5, ReadSame
  <2> HIDE DEF m, x
  <2>7. Same(s, m.s)
      BY <2>1, <2>5, SameTrans
  <2>8. QED
      BY <2>6, <2>7, SameTrans DEF Same
<1>2. w \in Nat
  <2>1. off \in Int
      OBVIOUS
  <2>2. \A c : Cardinality(Within(off, n, c)) \in Nat
      BY <2>1, Counting
  <2>3. QED
      BY <2>2
<1>3. ReadBlock(t, k, off, n, bn) = [t EXCEPT !.s = x, !.data = t.data \o g]
    BY Zenon DEF ReadBlock, CopyUnits
<1> HIDE DEF x, w, m
<1> DEFINE R == {g[j] : j \in 1 .. w}
<1>4. g \in Seq(R) /\ Len(g) = w /\ \A j \in 1 .. w :
         g[j] = m.s.img.blk[m.b][(off + Len(t.data) + j - 1) % BS]
  <2>1. g \in [1 .. w -> R]
      OBVIOUS
  <2>2. \A j \in 1 .. w : g[j] = m.s.img.blk[m.b][(off + Len(t.data) + j - 1) % BS]
      OBVIOUS
  <2> HIDE DEF R, g
  <2>3. QED
      BY <1>2, <2>1, <2>2
<1> HIDE DEF g, R
<1>5. PICK S : t.data \in Seq(S)
    BY DEF Reading
<1>6. t.data \in Seq(S \cup R) /\ g \in Seq(S \cup R)
  <2>1. S \subseteq S \cup R /\ R \subseteq S \cup R
      OBVIOUS
  <2>2. QED
      BY <1>4, <1>5, <2>1, SeqMonotonic
<1>7. PICK d : d = t.data \o g
    OBVIOUS
<1>8. /\ d \in Seq(S \cup R) /\ Len(t.data) \in Nat /\ Len(d) = Len(t.data) + w
      /\ \A j \in 1 .. Len(t.data) : d[j] = t.data[j]
      /\ \A j \in 1 .. w : d[Len(t.data) + j] = g[j]
  <2>1. /\ d \in Seq(S \cup R) /\ Len(d) = Len(t.data) + Len(g)
        /\ \A j \in 1 .. Len(t.data) + Len(g) :
              d[j] = IF j <= Len(t.data) THEN t.data[j] ELSE g[j - Len(t.data)]
      BY <1>6, <1>7, ConcatProperties
  <2>2. Len(t.data) \in Nat /\ Len(g) = w
      BY <1>4, <1>6
  <2>3. ASSUME NEW j \in 1 .. w PROVE d[Len(t.data) + j] = g[j]
    <3>1. PICK l, z : l = Len(t.data) /\ z = l + j
        OBVIOUS
    <3>2. z \in 1 .. l + Len(g) /\ ~(z <= l) /\ z - l = j
        BY <1>2, <2>2, <3>1
    <3>3. d[z] = g[z - l]
        BY <2>1, <3>1, <3>2
    <3>4. QED
        BY <3>1, <3>2, <3>3
  <2>4. QED
      BY <1>2, <2>1, <2>2, <2>3
<1>9. ReadBlock(t, k, off, n, bn) = [s |-> x, ret |-> n, data |-> d]
  <2> SUFFICES ASSUME NEW r, r = ReadBlock(t, k, off, n, bn)
               PROVE  r = [s |-> x, ret |-> n, data |-> d]
      OBVIOUS
  <2>1. r = [t EXCEPT !.s = x, !.data = d]
      BY <1>3, <1>7
  <2>2. PICK a, b : t = [s |-> a, ret |-> n, data |-> b]
      BY DEF Reading
  <2>3. r = [[s |-> a, ret |-> n, data |-> b] EXCEPT !.s = x, !.data = d]
      BY <2>1, <2>2
  <2>4. QED
      BY <2>3
<1>10. PICK u : u = ReadBlock(t, k, off, n, bn)
    OBVIOUS
<1>11. u.s = x /\ u.data = d /\ u = [s |-> u.s, ret |-> n, data |-> u.data]
    BY <1>9, <1>10
<1>12. Reading(s, n, u)
    BY <1>1, <1>8, <1>11 DEF Reading
<1>13. Turned(t, m, off, w, u)
    BY <1>4, <1>8, <1>11 DEF Turned, x
<1>14. QED
    BY <1>1, <1>10, <1>11, <1>12, <1>13 DEF m, w

(* Size of the file in a slot.                                              *)
LEMMA SizeOf ==
    ASSUME NEW s, State(s), NEW k \in Slots
    PROVE  s.ic[k].n \in InodeSet /\ s.ic[k].n.size \in Nat
<1>1. s.ic[k] \in [ref : 0 .. RefMod - 1, idx : Inodes \cup {0}, n : InodeSet]
    BY DEF State, Caches
<1>2. s.ic[k].n \in InodeSet
    BY <1>1
<1>3. QED
    BY <1>2 DEF InodeSet

(* The turns of tinyfs_data_read's loop.                                    *)
LEMMA ReadRun ==
    ASSUME NEW s, NEW k, NEW off \in Nat, NEW cnt \in Int, s.ic[k].n.size \in Nat,
           ~(off > s.ic[k].n.size)
    PROVE  LET n == Clamp(off, cnt, s.ic[k].n.size)
           IN  /\ n \in Int /\ Span(off, n) \in Nat
               /\ \E g : /\ DataRead(s, k, off, cnt) = g[Span(off, n)]
                         /\ g[0] = [s |-> s, ret |-> n, data |-> <<>>]
                         /\ \A j \in 0 .. Span(off, n) - 1 :
                               /\ off \div BS + j \in Nat
                               /\ g[j + 1] = ReadBlock(g[j], k, off, n, off \div BS + j)
<1> DEFINE n == Clamp(off, cnt, s.ic[k].n.size)
<1> DEFINE N == Span(off, n)
<1> DEFINE a == [s |-> s, ret |-> n, data |-> <<>>]
<1> DEFINE Do(t, i) == ReadBlock(t, k, off, n, off \div BS + i)
<1> DEFINE g == CHOOSE at : at = [i \in 0 .. N |-> IF i = 0 THEN a ELSE Do(at[i - 1], i - 1)]
<1>1. n \in Int
    BY DEF Clamp
<1>2. DataRead(s, k, off, cnt) = g[N]
  <2>1. DataRead(s, k, off, cnt)
          = Iterate(LAMBDA t, i : ReadBlock(t, k, off, n, off \div BS + i), a, N)
      BY Zenon DEF DataRead
  <2>2. QED
      BY <2>1, Zenon DEF Iterate
<1>3. N \in Nat
  <2>1. off \in Int
      OBVIOUS
  <2>2. QED
      BY <1>1, <2>1, Counting
<1>4. PICK f : f = [i \in 0 .. N |-> IF i = 0 THEN a ELSE Do(f[i - 1], i - 1)]
  <2> DEFINE c == [kind |-> "read", k |-> k, off |-> off, n |-> n]
  <2>1. \A t, i : Turn(c, t, i) = Do(t, i)
      BY DEF Turn
  <2> HIDE DEF Do, c, a, N
  <2>2. PICK f : IsRun(f, c, a, N)
      BY <1>3, Runs
  <2>3. f = [i \in 0 .. N |-> IF i = 0 THEN a ELSE Do(f[i - 1], i - 1)]
      BY <2>1, <2>2 DEF IsRun
  <2>4. QED
      BY <2>3
<1>5. g = [i \in 0 .. N |-> IF i = 0 THEN a ELSE Do(g[i - 1], i - 1)]
    BY <1>4
<1> HIDE DEF g, Do, N, n
<1>6. \A i \in 0 .. N : g[i] = IF i = 0 THEN a ELSE Do(g[i - 1], i - 1)
    BY <1>5
<1>7. g[0] = a
    BY <1>3, <1>6
<1>8. ASSUME NEW j \in 0 .. N - 1
      PROVE  /\ off \div BS + j \in Nat /\ g[j + 1] = Do(g[j], j)
  <2>1. j + 1 \in 0 .. N /\ j + 1 - 1 = j /\ j + 1 # 0 /\ j \in Nat
      BY <1>3
  <2>2. off \div BS \in Nat
      BY InFile
  <2>3. QED
      BY <1>6, <2>1, <2>2
<1>9. QED
    BY <1>1, <1>2, <1>3, <1>7, <1>8, Zenon DEF Do, N, n

(* Reading leaves inodes alone and yields a sequence.                       *)
Got(s, r) == Same(s, r.s) /\ r.ret \in Int /\ \E S : r.data \in Seq(S)

(* tinyfs_data_read.                                                        *)
LEMMA DataReadSame ==
    ASSUME NEW s, State(s), NEW k \in Slots, NEW i, s.ok => Addressed(s, k, i),
           NEW off \in Nat, NEW cnt \in Int
    PROVE  Got(s, DataRead(s, k, off, cnt))
<1> DEFINE size == s.ic[k].n.size
<1>1. size \in Nat
    BY SizeOf
<1>2. Same(s, s)
    BY SameSelf
<1>3. <<>> \in Seq({})
    OBVIOUS
<1>4. CASE off > size
  <2>1. DataRead(s, k, off, cnt) = [s |-> s, ret |-> -1, data |-> <<>>]
      BY <1>4 DEF DataRead
  <2>2. QED
      BY <1>2, <1>3, <2>1 DEF Got
<1>5. CASE ~(off > size)
  <2>1. PICK n : n = Clamp(off, cnt, size)
      OBVIOUS
  <2>2. n \in Int /\ Span(off, n) \in Nat
      BY <1>1, <1>5, <2>1, ReadRun
  <2>3. PICK g : /\ DataRead(s, k, off, cnt) = g[Span(off, n)]
                 /\ g[0] = [s |-> s, ret |-> n, data |-> <<>>]
                 /\ \A j \in 0 .. Span(off, n) - 1 :
                       /\ off \div BS + j \in Nat
                       /\ g[j + 1] = ReadBlock(g[j], k, off, n, off \div BS + j)
      BY <1>1, <1>5, <2>1, ReadRun
  <2>4. PICK N : N = Span(off, n)
      OBVIOUS
  <2>5. N \in Nat
      BY <2>2, <2>4
  <2> DEFINE G == {j \in 0 .. N : Reading(s, n, g[j])}
  <2>6. 0 \in G
    <3>1. Reading(s, n, g[0])
        BY <1>2, <1>3, <2>3 DEF Reading
    <3>2. QED
        BY <2>5, <3>1
  <2>7. ASSUME NEW j \in 0 .. N - 1, j \in G PROVE j + 1 \in G
    <3>1. j + 1 \in 0 .. N
        BY <2>5
    <3>2. off \div BS + j \in Nat /\ g[j + 1] = ReadBlock(g[j], k, off, n, off \div BS + j)
        BY <2>3, <2>4
    <3>3. Reading(s, n, g[j])
        BY <2>7
    <3>4. Reading(s, n, ReadBlock(g[j], k, off, n, off \div BS + j))
        BY <2>2, <3>2, <3>3, ReadBlockKeeps
    <3>5. QED
        BY <3>1, <3>2, <3>4
  <2> HIDE DEF G
  <2>8. N \in G
      BY <2>5, <2>6, <2>7, ToTheEnd
  <2>9. Reading(s, n, g[N])
      BY <2>8 DEF G
  <2>10. g[N].ret = n
      BY <2>9 DEF Reading
  <2>11. QED
      BY <2>2, <2>3, <2>4, <2>9, <2>10 DEF Reading, Got
<1>6. QED
    BY <1>4, <1>5

(* Offsets of a block.                                                      *)
LEMMA InBlock ==
    ASSUME NEW j \in Nat
    PROVE  /\ BS * j \in Nat /\ BS * (j + 1) = BS * j + BS
           /\ \A u \in Nat : u \div BS = j <=> (BS * j <= u /\ u < BS * j + BS)
           /\ \A v \in 0 .. BS - 1 : (BS * j + v) \div BS = j /\ (BS * j + v) % BS = v
<1>1. BS \in Nat \ {0}
    BY Sizes
<1>2. BS * j \in Nat /\ BS * (j + 1) = BS * j + BS
    BY <1>1
<1>3. ASSUME NEW u \in Nat PROVE u \div BS = j <=> (BS * j <= u /\ u < BS * j + BS)
  <2>1. PICK q, r : q = u \div BS /\ r = u % BS
      OBVIOUS
  <2>2. q \in Nat /\ r \in 0 .. BS - 1 /\ u = BS * q + r
      BY <1>1, <2>1, InFile
  <2>3. q < j => BS * q + BS <= BS * j
      BY <1>1, <2>2
  <2>4. q > j => BS * j + BS <= BS * q
      BY <1>1, <2>2
  <2>5. BS * q \in Nat
      BY <1>1, <2>2
  <2>6. q = j <=> (BS * j <= u /\ u < BS * j + BS)
    <3>1. CASE q = j
        BY <1>1, <2>2, <2>5, <3>1
    <3>2. CASE q < j
        BY <1>1, <1>2, <2>2, <2>3, <2>5, <3>2
    <3>3. CASE q > j
        BY <1>1, <1>2, <2>2, <2>4, <2>5, <3>3
    <3>4. QED
        BY <2>2, <3>1, <3>2, <3>3
  <2>7. QED
      BY <2>1, <2>6
<1>4. ASSUME NEW v \in 0 .. BS - 1 PROVE (BS * j + v) \div BS = j /\ (BS * j + v) % BS = v
  <2>1. PICK u : u = BS * j + v
      OBVIOUS
  <2>2. u \in Nat /\ BS * j <= u /\ u < BS * j + BS
      BY <1>1, <1>2, <2>1
  <2>3. u \div BS = j
      BY <1>3, <2>2
  <2>4. u = BS * (u \div BS) + (u % BS) /\ u % BS \in 0 .. BS - 1
      BY <2>2, InFile
  <2>5. u % BS = v
      BY <1>1, <1>2, <2>1, <2>3, <2>4
  <2>6. QED
      BY <2>1, <2>3, <2>5
<1>5. QED
    BY <1>2, <1>3, <1>4

(* Of n units from the start of a file those before block j.                *)
Before(n, j) == IF BS * j < n THEN BS * j ELSE n

(* The units of the next block come on top.                                 *)
LEMMA WithinBlock ==
    ASSUME NEW n \in Nat, NEW j \in Nat
    PROVE  /\ Before(n, j + 1) = Before(n, j) + Cardinality(Within(0, n, j))
           /\ Cardinality(Within(0, n, j)) \in 0 .. BS
           /\ Before(n, j) \in 0 .. n
           /\ Cardinality(Within(0, n, j)) > 0 => Before(n, j) = BS * j
<1>1. BS \in Nat \ {0}
    BY Sizes
<1>2. PICK z : z = BS * j
    OBVIOUS
<1>3. z \in Nat /\ BS * (j + 1) = z + BS
    BY <1>2, InBlock
<1>4. Within(0, n, j) = {u \in 0 .. n - 1 : u \div BS = j}
    BY DEF Within
<1>5. \A u \in Nat : u \div BS = j <=> (z <= u /\ u < z + BS)
    BY <1>2, InBlock
<1>6. PICK c, y : c = Cardinality(Within(0, n, j)) /\ y = z + BS
    OBVIOUS
<1>7. \A u : u \in Within(0, n, j) <=> u \in 0 .. n - 1 /\ z <= u /\ u < y
    BY <1>4, <1>5, <1>6
<1>8. CASE n <= z
  <2>1. Within(0, n, j) = {}
      BY <1>3, <1>4, <1>5, <1>8
  <2>2. c = 0
      BY <1>6, <2>1, FS_EmptySet
  <2>3. ~(z < n) /\ ~(z + BS < n)
      BY <1>1, <1>3, <1>8
  <2>4. QED
      BY <1>1, <1>2, <1>3, <1>6, <2>2, <2>3 DEF Before
<1>9. CASE z < n /\ z + BS <= n
  <2>1. \A u : u \in Within(0, n, j) <=> u \in z .. y - 1
      BY <1>1, <1>3, <1>6, <1>7, <1>9
  <2>2. Within(0, n, j) = z .. y - 1
    <3>1. PICK A, B : A = Within(0, n, j) /\ B = z .. y - 1
        OBVIOUS
    <3>2. \A u : u \in A <=> u \in B
        BY <2>1, <3>1
    <3>3. A = B
        BY <3>2
    <3>4. QED
        BY <3>1, <3>3
  <2>3. z \in Int /\ y - 1 \in Int /\ Within(0, n, j) = z .. y - 1
      BY <1>1, <1>3, <1>6, <2>2
  <2>4. Cardinality(z .. y - 1) = IF z > y - 1 THEN 0 ELSE y - 1 - z + 1
      BY <2>3, FS_Interval
  <2>5. c = BS
      BY <1>1, <1>3, <1>6, <2>3, <2>4
  <2>6. Before(n, j) = z /\ Before(n, j + 1) = z + BS
      BY <1>1, <1>2, <1>3, <1>9 DEF Before
  <2>7. QED
      BY <1>1, <1>2, <1>3, <1>6, <1>9, <2>5, <2>6
<1>10. CASE z < n /\ n < z + BS
  <2>1. \A u : u \in Within(0, n, j) <=> u \in z .. n - 1
      BY <1>1, <1>3, <1>6, <1>7, <1>10
  <2>2. Within(0, n, j) = z .. n - 1
    <3>1. PICK A, B : A = Within(0, n, j) /\ B = z .. n - 1
        OBVIOUS
    <3>2. \A u : u \in A <=> u \in B
        BY <2>1, <3>1
    <3>3. A = B
        BY <3>2
    <3>4. QED
        BY <3>1, <3>3
  <2>3. z \in Int /\ n - 1 \in Int /\ Within(0, n, j) = z .. n - 1
      BY <1>1, <1>3, <1>6, <2>2
  <2>4. Cardinality(z .. n - 1) = IF z > n - 1 THEN 0 ELSE n - 1 - z + 1
      BY <2>3, FS_Interval
  <2>5. c = n - z
      BY <1>1, <1>3, <1>6, <1>10, <2>3, <2>4
  <2>6. Before(n, j) = z /\ Before(n, j + 1) = n
      BY <1>1, <1>2, <1>3, <1>10 DEF Before
  <2>7. QED
      BY <1>1, <1>2, <1>3, <1>6, <1>10, <2>5, <2>6
<1>11. QED
    BY <1>1, <1>3, <1>8, <1>9, <1>10

(* A transfer from the start has a turn for every block.                    *)
LEMMA SpanCovers ==
    ASSUME NEW n \in Nat
    PROVE  Span(0, n) \in Nat /\ Before(n, Span(0, n)) = n /\ \A m \in 0 .. n : Span(0, m) <= Span(0, n)
<1>1. BS \in Nat \ {0}
    BY Sizes
<1>2. ASSUME NEW m \in Nat
      PROVE  IF m = 0 THEN Span(0, m) = 0 ELSE Span(0, m) = (m - 1) \div BS + 1
  <2>1. Span(0, m) = Cardinality({u \div BS : u \in 0 .. m - 1})
      BY DEF Span
  <2>2. CASE m = 0
    <3>1. {u \div BS : u \in 0 .. m - 1} = {}
        BY <2>2
    <3>2. QED
        BY <2>1, <2>2, <3>1, FS_EmptySet
  <2>3. CASE m # 0
    <3>1. PICK q : q = (m - 1) \div BS
        OBVIOUS
    <3>2. m - 1 \in Nat
        BY <2>3
    <3>3. q \in Nat /\ BS * q \in Nat /\ BS * q <= m - 1 /\ m - 1 < BS * q + BS
        BY <3>1, <3>2, InFile, InBlock
    <3>4. ASSUME NEW c \in 0 .. q PROVE \E u \in 0 .. m - 1 : c = u \div BS
      <4>1. PICK u : u = BS * c
          OBVIOUS
      <4>2. u \in Nat /\ u \div BS = c
        <5>1. u \in Nat /\ BS * c <= u /\ u < BS * c + BS
            BY <1>1, <4>1, InBlock
        <5>2. QED
            BY <5>1, InBlock
      <4>3. u <= BS * q
          BY <1>1, <3>3, <4>1
      <4>4. u \in 0 .. m - 1
          BY <3>3, <4>2, <4>3
      <4>5. QED
          BY <4>2, <4>4
    <3>5. ASSUME NEW u \in 0 .. m - 1 PROVE u \div BS \in 0 .. q
      <4>1. PICK c : c = u \div BS
          OBVIOUS
      <4>2. u \in Nat /\ c \in Nat
          BY <4>1, InFile
      <4>3. BS * c <= u
          BY <4>1, <4>2, InBlock
      <4>4. c > q => BS * q + BS <= BS * c
          BY <1>1, <3>3, <4>2
      <4>5. BS * c \in Nat
          BY <1>1, <4>2
      <4>6. c <= q
          BY <1>1, <3>3, <4>2, <4>3, <4>4, <4>5
      <4>7. QED
          BY <3>3, <4>1, <4>2, <4>6
    <3>6. {u \div BS : u \in 0 .. m - 1} = 0 .. q
        BY <3>4, <3>5
    <3>7. 0 \in Int /\ q \in Int
        BY <3>3
    <3>8. Cardinality(0 .. q) = IF 0 > q THEN 0 ELSE q - 0 + 1
        BY <3>7, FS_Interval
    <3>9. Span(0, m) = Cardinality(0 .. q)
        BY <2>1, <3>6
    <3>10. Cardinality(0 .. q) = q + 1
        BY <3>3, <3>8
    <3>11. QED
        BY <2>3, <3>1, <3>9, <3>10
  <2>4. QED
      BY <2>2, <2>3
<1>3. ASSUME NEW m \in Nat, m # 0
      PROVE  LET q == (m - 1) \div BS IN q \in Nat /\ BS * q <= m - 1 /\ m - 1 < BS * q + BS
  <2>1. m - 1 \in Nat
      BY <1>3
  <2>2. QED
      BY <2>1, InFile, InBlock
<1>4. CASE n = 0
  <2>1. Span(0, n) = 0
      BY <1>2, <1>4
  <2>2. Before(n, Span(0, n)) = n
      BY <1>1, <1>4, <2>1 DEF Before
  <2>3. QED
      BY <1>4, <2>1, <2>2
<1>5. CASE n # 0
  <2>1. PICK q : q = (n - 1) \div BS
      OBVIOUS
  <2>2. q \in Nat /\ BS * q <= n - 1 /\ n - 1 < BS * q + BS
      BY <1>3, <1>5, <2>1
  <2>3. Span(0, n) = q + 1
      BY <1>2, <1>5, <2>1
  <2>4. BS * (q + 1) = BS * q + BS /\ BS * q \in Nat
      BY <2>2, InBlock
  <2>5. Before(n, q + 1) = n
      BY <1>1, <2>2, <2>4 DEF Before
  <2>6. ASSUME NEW m \in 0 .. n PROVE Span(0, m) <= q + 1
    <3>1. CASE m = 0
        BY <1>2, <2>2, <3>1
    <3>2. CASE m # 0
      <4>1. PICK c : c = (m - 1) \div BS
          OBVIOUS
      <4>2. c \in Nat /\ BS * c <= m - 1
          BY <1>3, <3>2, <4>1
      <4>3. c > q => BS * q + BS <= BS * c
          BY <1>1, <2>2, <4>2
      <4>4. BS * c \in Nat /\ BS * q \in Nat
          BY <1>1, <2>2, <4>2
      <4>5. c <= q
          BY <1>1, <2>2, <4>2, <4>3, <4>4
      <4>6. Span(0, m) = c + 1
          BY <1>2, <3>2, <4>1
      <4>7. QED
          BY <2>2, <4>2, <4>5, <4>6
    <3>3. QED
        BY <3>1, <3>2
  <2>7. QED
      BY <2>2, <2>3, <2>5, <2>6
<1>6. QED
    BY <1>4, <1>5

(* What bmap finds for a directory is where its units are.                  *)
LEMMA MappedUnit ==
    ASSUME NEW s, NEW t, Same(s, t), NEW d \in Directories(s.img), NEW off \in Nat,
           NEW m, Mapped(t, d, off \div BS, m), m.s.ok
    PROVE  m.s.img.blk[m.b][off % BS] = Unit(s.img, d, off)
<1>1. PICK bn : bn = off \div BS
    OBVIOUS
<1>2. /\ Same(t, m.s) /\ bn \in FileBlocks /\ m.b = Address(t.img, d, bn)
      /\ m.b = 0 => m.s.img.blk[0] = ZeroBlock
    BY <1>1 DEF Mapped
<1>3. Alike(s.img, t.img) /\ Alike(t.img, m.s.img) /\ t.img.ino = s.img.ino
      /\ m.s.img.ino = t.img.ino
    BY <1>2 DEF Same
<1>4. Alike(s.img, m.s.img)
    BY <1>3, AlikeTrans
<1>5. off \in FileUnits /\ off % BS \in 0 .. BS - 1
    BY <1>1, <1>2, InFile
<1>6. Unit(m.s.img, d, off) = Unit(s.img, d, off)
    BY <1>4, <1>5 DEF Alike
<1>7. Address(m.s.img, d, bn) = m.b
    BY <1>2, <1>3 DEF Alike, Directories
<1>8. CASE m.b = 0
  <2>1. Unit(m.s.img, d, off) = Zero
      BY <1>1, <1>7, <1>8 DEF Unit
  <2>2. m.s.img.blk[m.b] = ZeroBlock
      BY <1>2, <1>8
  <2>3. ZeroBlock[off % BS] = Zero
      BY <1>5, ZeroContents
  <2>4. QED
      BY <1>6, <2>1, <2>2, <2>3
<1>9. CASE m.b # 0
    BY <1>1, <1>6, <1>7, <1>9 DEF Unit
<1>10. QED
    BY <1>8, <1>9

(* What has been read of directory d after j turns of a read of n units,    *)
(* which go through the states g.                                           *)
Partly(s, d, n, g, j) ==
    /\ Reading(s, n, g[j]) /\ Len(g[j].data) = Before(n, j)
    /\ \A i \in 0 .. j : g[i].s.ok =>
          \A u \in 1 .. Before(n, i) : g[j].data[u] = Unit(s.img, d, u - 1)

(* One turn more.                                                           *)
LEMMA PartlyMore ==
    ASSUME NEW s, State(s), NEW k \in Slots, NEW d,
           s.ok => Addressed(s, k, d) /\ d \in Directories(s.img),
           NEW n \in Nat, NEW g, NEW j \in Nat, Partly(s, d, n, g, j),
           g[j + 1] = ReadBlock(g[j], k, 0, n, j)
    PROVE  Partly(s, d, n, g, j + 1)
<1>1. PICK t, u, m, w, l :
         /\ t = g[j] /\ u = g[j + 1] /\ m = Bmap(t.s, k, j)
         /\ w = Cardinality(Within(0, n, j)) /\ l = Before(n, j)
    OBVIOUS
<1>2. /\ Reading(s, n, t) /\ Len(t.data) = l /\ u = ReadBlock(t, k, 0, n, j)
      /\ \A i \in 0 .. j : g[i].s.ok => \A v \in 1 .. Before(n, i) : t.data[v] = Unit(s.img, d, v - 1)
    BY <1>1 DEF Partly
<1>3. /\ Before(n, j + 1) = l + w /\ w \in 0 .. BS /\ l \in 0 .. n
      /\ w > 0 => l = BS * j
    BY <1>1, WithinBlock
<1>4. Reading(s, n, u) /\ Turned(t, m, 0, w, u) /\ (u.s.ok => m.s.ok)
  <2>1. s.ok => Addressed(s, k, d)
      OBVIOUS
  <2>2. 0 \in Nat /\ n \in Int
      OBVIOUS
  <2>3. /\ Reading(s, n, ReadBlock(t, k, 0, n, j))
        /\ Turned(t, Bmap(t.s, k, j), 0, Cardinality(Within(0, n, j)), ReadBlock(t, k, 0, n, j))
        /\ ReadBlock(t, k, 0, n, j).s.ok => Bmap(t.s, k, j).s.ok
      BY <1>2, <2>1, <2>2, ReadBlockKeeps
  <2>4. QED
      BY <1>1, <1>2, <2>3
<1>5. Mapped(t.s, d, j, m) /\ Same(s, t.s) /\ (m.s.ok => t.s.ok /\ s.ok)
  <2>1. Same(s, t.s) /\ State(t.s)
      BY <1>2 DEF Reading, Same
  <2>2. s.ok => Addressed(s, k, d)
      OBVIOUS
  <2>3. t.s.ok => Addressed(t.s, k, d)
      BY <2>1, <2>2, AddressedStays
  <2>4. Mapped(t.s, d, j, m)
      BY <1>1, <2>1, <2>3, BmapFinds
  <2>5. QED
      BY <2>1, <2>4 DEF Mapped, Same
<1>6. /\ Len(u.data) = l + w
      /\ \A v \in 1 .. l : u.data[v] = t.data[v]
      /\ \A v \in 1 .. w : u.data[l + v] = m.s.img.blk[m.b][(0 + l + v - 1) % BS]
    BY <1>2, <1>4 DEF Turned
<1>7. ASSUME u.s.ok, NEW v \in 1 .. w PROVE u.data[l + v] = Unit(s.img, d, l + v - 1)
  <2>1. BS \in Nat \ {0} /\ l = BS * j /\ v - 1 \in 0 .. BS - 1 /\ BS * j \in Nat
      BY <1>3, <1>7, Sizes, InBlock
  <2>2. PICK x : x = v - 1
      OBVIOUS
  <2>3. PICK off : off = BS * j + x
      OBVIOUS
  <2>4. off \div BS = j /\ off \in Nat
      BY <2>1, <2>2, <2>3, InBlock
  <2>5. 0 + l + v - 1 = off /\ l + v - 1 = off
      BY <2>1, <2>2, <2>3
  <2>6. d \in Directories(s.img) /\ m.s.ok /\ Mapped(t.s, d, off \div BS, m)
      BY <1>4, <1>5, <1>7, <2>4
  <2>7. m.s.img.blk[m.b][off % BS] = Unit(s.img, d, off)
      BY <1>5, <2>4, <2>6, MappedUnit
  <2>8. QED
      BY <1>6, <2>5, <2>7
<1>8. ASSUME NEW i \in 0 .. j + 1, g[i].s.ok, NEW v \in 1 .. Before(n, i)
      PROVE  u.data[v] = Unit(s.img, d, v - 1)
  <2>1. ASSUME NEW i1 \in 0 .. j, g[i1].s.ok, NEW v1 \in 1 .. Before(n, i1), v1 <= l
        PROVE  u.data[v1] = Unit(s.img, d, v1 - 1)
    <3>1. v1 \in 1 .. l
        BY <1>3, <2>1
    <3>2. t.data[v1] = Unit(s.img, d, v1 - 1)
        BY <1>2, <2>1
    <3>3. QED
        BY <1>6, <3>1, <3>2
  <2>2. CASE i = j + 1
    <3>1. u.s.ok /\ v \in 1 .. l + w
        BY <1>1, <1>3, <1>8, <2>2
    <3>2. CASE v <= l
      <4>1. g[j].s.ok /\ v \in 1 .. Before(n, j) /\ j \in 0 .. j
          BY <1>1, <1>3, <1>4, <1>5, <3>1, <3>2
      <4>2. QED
          BY <2>1, <3>2, <4>1
    <3>3. CASE v > l
      <4>1. PICK y : y = v - l
          OBVIOUS
      <4>2. y \in 1 .. w /\ l + y = v
          BY <1>3, <3>1, <3>3, <4>1
      <4>3. u.data[l + y] = Unit(s.img, d, l + y - 1)
          BY <1>7, <3>1, <4>2
      <4>4. l + y - 1 = v - 1
          BY <1>3, <4>2
      <4>5. QED
          BY <4>2, <4>3, <4>4
    <3>4. QED
        BY <1>3, <3>1, <3>2, <3>3
  <2>3. CASE i # j + 1
    <3>1. i \in 0 .. j
        BY <2>3
    <3>2. Before(n, i) <= l
      <4>1. BS * i \in Nat /\ BS * j \in Nat
          BY <3>1, InBlock
      <4>2. BS * i <= BS * j
          BY <3>1, Sizes
      <4>3. QED
          BY <1>1, <4>1, <4>2 DEF Before
    <3>3. Before(n, i) \in Nat
        BY <3>1, WithinBlock
    <3>4. v <= l
        BY <1>3, <3>2, <3>3
    <3>5. QED
        BY <1>8, <2>1, <3>1, <3>4
  <2>4. QED
      BY <2>2, <2>3
<1>9. QED
    BY <1>1, <1>3, <1>4, <1>6, <1>8 DEF Partly

(* A directory is read unit by unit.  A read of its first m units goes      *)
(* through the states of a longer one, which therefore agrees as far as the *)
(* shorter gets.                                                            *)
LEMMA DirectoryRead ==
    ASSUME NEW s, State(s), NEW k \in Slots, NEW d,
           s.ok => Addressed(s, k, d) /\ d \in Directories(s.img),
           NEW n \in Nat, n <= s.ic[k].n.size
    PROVE  /\ Len(DataRead(s, k, 0, n).data) = n
           /\ \A m \in 0 .. n : DataRead(s, k, 0, m).s.ok =>
                 \A u \in 1 .. m : DataRead(s, k, 0, n).data[u] = Unit(s.img, d, u - 1)
<1> DEFINE size == s.ic[k].n.size
<1> DEFINE IsReading(g, m) ==
        /\ DataRead(s, k, 0, m) = g[Span(0, m)]
        /\ g[0] = [s |-> s, ret |-> m, data |-> <<>>]
        /\ \A j \in 0 .. Span(0, m) - 1 : g[j + 1] = ReadBlock(g[j], k, 0, m, j)
<1>1. size \in Nat
    BY SizeOf
<1>2. ASSUME NEW m \in 0 .. n PROVE \E g : IsReading(g, m)
  <2>1. Clamp(0, m, size) = m /\ ~(0 > size) /\ 0 \in Nat /\ m \in Int
      BY <1>1 DEF Clamp
  <2>2. PICK g : /\ DataRead(s, k, 0, m) = g[Span(0, m)]
                 /\ g[0] = [s |-> s, ret |-> m, data |-> <<>>]
                 /\ \A j \in 0 .. Span(0, m) - 1 :
                       /\ 0 \div BS + j \in Nat
                       /\ g[j + 1] = ReadBlock(g[j], k, 0, m, 0 \div BS + j)
      BY <1>1, <2>1, ReadRun
  <2>3. 0 \div BS = 0
      BY Sizes
  <2>4. m \in Nat
      OBVIOUS
  <2>5. Span(0, m) \in Nat
      BY <2>4, SpanCovers
  <2>6. \A j \in 0 .. Span(0, m) - 1 : 0 \div BS + j = j
      BY <2>3, <2>5
  <2>7. QED
      BY <2>2, <2>6
<1>3. PICK g : IsReading(g, n)
  <2>1. n \in 0 .. n
      OBVIOUS
  <2>2. QED
      BY <1>2, <2>1
<1>4. PICK N : N = Span(0, n) /\ N \in Nat
    BY SpanCovers
<1>5. \A j \in 0 .. N : Partly(s, d, n, g, j)
  <2> DEFINE G == {j \in 0 .. N : Partly(s, d, n, g, j)}
  <2>1. Partly(s, d, n, g, 0)
    <3>1. Before(n, 0) = 0
        BY Sizes DEF Before
    <3>2. Same(s, s) /\ <<>> \in Seq({}) /\ Len(<<>>) = 0
        BY SameSelf
    <3>3. Reading(s, n, g[0]) /\ Len(g[0].data) = 0
        BY <1>3, <3>2 DEF Reading
    <3>4. \A i \in 0 .. 0 : Before(n, i) = 0
        BY <3>1
    <3>5. QED
        BY <3>1, <3>3, <3>4 DEF Partly
  <2>2. ASSUME NEW j \in 0 .. N - 1, j \in G PROVE j + 1 \in G
    <3>1. j + 1 \in 0 .. N /\ j \in Nat
        BY <1>4
    <3>2. g[j + 1] = ReadBlock(g[j], k, 0, n, j)
        BY <1>3, <1>4
    <3>3. Partly(s, d, n, g, j)
        BY <2>2
    <3>4. Partly(s, d, n, g, j + 1)
        BY <3>1, <3>2, <3>3, PartlyMore
    <3>5. QED
        BY <3>1, <3>4
  <2>3. 0 \in G
      BY <1>4, <2>1
  <2> HIDE DEF G
  <2>4. ASSUME NEW q \in 0 .. N PROVE q \in G
    <3>1. q \in Nat /\ \A j \in 0 .. q - 1 : j \in G => j + 1 \in G
        BY <1>4, <2>2
    <3>2. QED
        BY <2>3, <3>1, ToTheEnd
  <2>5. QED
      BY <2>4 DEF G
<1>6. Len(DataRead(s, k, 0, n).data) = n
  <2>1. Partly(s, d, n, g, N)
      BY <1>4, <1>5
  <2>2. Before(n, N) = n
      BY <1>4, SpanCovers
  <2>3. QED
      BY <1>3, <1>4, <2>1, <2>2 DEF Partly
<1>7. ASSUME NEW m \in 0 .. n, DataRead(s, k, 0, m).s.ok, NEW u \in 1 .. m
      PROVE  DataRead(s, k, 0, n).data[u] = Unit(s.img, d, u - 1)
  <2>1. PICK h : IsReading(h, m)
      BY <1>2
  <2>2. PICK M : M = Span(0, m) /\ M \in 0 .. N /\ Before(m, M) = m
    <3>1. m \in Nat
        OBVIOUS
    <3>2. Span(0, m) \in Nat /\ Before(m, Span(0, m)) = m /\ Span(0, m) <= N
        BY <1>4, <3>1, SpanCovers
    <3>3. QED
        BY <1>4, <3>2
  <2>3. h[M].s = g[M].s
    <3> DEFINE G == {j \in 0 .. M : h[j].s = g[j].s /\ Reading(s, m, h[j])}
    <3>1. 0 \in G
      <4>1. Same(s, s) /\ <<>> \in Seq({})
          BY SameSelf
      <4>2. h[0] = [s |-> s, ret |-> m, data |-> <<>>] /\ g[0].s = s
          BY <1>3, <2>1
      <4>3. Reading(s, m, h[0])
          BY <4>1, <4>2 DEF Reading
      <4>4. QED
          BY <2>2, <4>2, <4>3
    <3>2. ASSUME NEW j \in 0 .. M - 1, j \in G PROVE j + 1 \in G
      <4>1. /\ j + 1 \in 0 .. M /\ h[j].s = g[j].s /\ j \in 0 .. N - 1 /\ j \in Nat
            /\ Reading(s, m, h[j]) /\ j \in 0 .. N
          BY <1>4, <2>2, <3>2
      <4>2. h[j + 1] = ReadBlock(h[j], k, 0, m, j) /\ g[j + 1] = ReadBlock(g[j], k, 0, n, j)
          BY <1>3, <1>4, <2>1, <2>2, <4>1
      <4>3. Reading(s, n, g[j])
          BY <1>5, <4>1 DEF Partly
      <4>4. s.ok => Addressed(s, k, d)
          OBVIOUS
      <4>5. 0 \in Nat /\ n \in Int /\ m \in Int
          OBVIOUS
      <4>6. /\ Reading(s, m, ReadBlock(h[j], k, 0, m, j))
            /\ Turned(h[j], Bmap(h[j].s, k, j), 0, Cardinality(Within(0, m, j)),
                      ReadBlock(h[j], k, 0, m, j))
          BY <4>1, <4>4, <4>5, ReadBlockKeeps
      <4>7. Turned(g[j], Bmap(g[j].s, k, j), 0, Cardinality(Within(0, n, j)),
                   ReadBlock(g[j], k, 0, n, j))
          BY <4>1, <4>3, <4>4, <4>5, ReadBlockKeeps
      <4>8. h[j + 1].s = g[j + 1].s
          BY <4>1, <4>2, <4>6, <4>7 DEF Turned
      <4>9. QED
          BY <4>1, <4>2, <4>6, <4>8
    <3> HIDE DEF G
    <3>3. M \in Nat
        BY <1>4, <2>2
    <3>4. M \in G
        BY <3>1, <3>2, <3>3, ToTheEnd
    <3>5. QED
        BY <3>4 DEF G
  <2>4. g[M].s.ok
      BY <1>7, <2>1, <2>2, <2>3
  <2>5. u \in 1 .. Before(n, M)
    <3>1. BS * M \in Nat
        BY <1>4, <2>2, InBlock
    <3>2. m <= Before(n, M)
        BY <2>2, <3>1 DEF Before
    <3>3. Before(n, M) \in Int
        BY <3>1 DEF Before
    <3>4. QED
        BY <3>2, <3>3
  <2>6. Partly(s, d, n, g, N) /\ M \in 0 .. N
      BY <1>4, <1>5, <2>2
  <2>7. g[N].data[u] = Unit(s.img, d, u - 1)
      BY <2>4, <2>5, <2>6 DEF Partly
  <2>8. QED
      BY <1>3, <1>4, <2>7
<1>8. QED
    BY <1>6, <1>7

(* What a call reads or writes.                                             *)
Units == Nat \X Texts

(* A block with some units replaced.                                        *)
Filled(im, b, off, n, bn, data) ==
    [u \in 0 .. BS - 1 |-> IF bn * BS + u \in Within(off, n, bn)
                           THEN data[bn * BS + u - off + 1] ELSE im.blk[b][u]]

(* It is a block again.                                                     *)
LEMMA FilledContents ==
    ASSUME NEW im \in Images, NEW b \in Blocks, NEW off \in Nat, NEW n \in Int, NEW bn \in Nat,
           NEW data \in Seq(Units), n <= Len(data)
    PROVE  Filled(im, b, off, n, bn, data) \in Contents
<1>1. im.blk[b] \in [0 .. BS - 1 -> Units]
    BY ImageTypes DEF Contents, Units
<1>2. ASSUME NEW u \in 0 .. BS - 1, bn * BS + u \in Within(off, n, bn)
      PROVE  data[bn * BS + u - off + 1] \in Units
  <2>1. bn * BS \in Nat
      BY Sizes
  <2>2. PICK z : z = bn * BS
      OBVIOUS
  <2>3. z + u \in off .. off + n - 1
      BY <1>2, <2>2 DEF Within
  <2>4. z + u - off + 1 \in 1 .. Len(data)
      BY <2>1, <2>2, <2>3
  <2>5. PICK y : y = z + u - off + 1
      OBVIOUS
  <2>6. data[y] \in Units
      BY <2>4, <2>5
  <2>7. QED
      BY <2>2, <2>5, <2>6
<1>3. \A u \in 0 .. BS - 1 : (IF bn * BS + u \in Within(off, n, bn)
         THEN data[bn * BS + u - off + 1] ELSE im.blk[b][u]) \in Units
    BY <1>1, <1>2
<1>4. QED
    BY <1>3 DEF Filled, Contents, Units

(* The blocks of a file are where no directory is.                          *)
LEMMA FileElsewhere ==
    ASSUME NEW im, WellFormed(im), NEW i \in Inodes, i \notin Directories(im),
           NEW bn \in FileBlocks, NEW b, b = Address(im, i, bn)
    PROVE  Elsewhere(im, b)
<1>1. LaidOut(im)
    BY DEF WellFormed
<1>2. b # 0 => \A j \in Inodes : b # im.ino[j].addr[ND]
    BY <1>1 DEF LaidOut
<1>3. ASSUME b # 0, NEW d \in Directories(im), NEW c \in FileBlocks, Address(im, d, c) = b
      PROVE  FALSE
  <2>1. \A e \in Directories(im), q \in Inodes, c1, c2 \in FileBlocks :
           Address(im, e, c1) # 0 /\ Address(im, e, c1) = Address(im, q, c2) => q = e /\ c1 = c2
      BY <1>1 DEF LaidOut
  <2>2. QED
      BY <1>3, <2>1
<1>4. QED
    BY <1>2, <1>3 DEF Elsewhere

(* A turn of tinyfs_data_write's loop.                                      *)
LEMMA WriteBlockSame ==
    ASSUME NEW s, State(s), NEW k, NEW i,
           s.ok => Addressed(s, k, i) /\ i \notin Directories(s.img),
           NEW off \in Nat, NEW n \in Int, NEW bn \in Nat,
           NEW data \in Seq(Units), n <= Len(data)
    PROVE  Same(s, WriteBlock(s, k, off, n, bn, data))
<1>1. PICK m : m = Bmap(s, k, bn)
    OBVIOUS
<1>2. PICK im : im = m.s.img
    OBVIOUS
<1>3. PICK c : c = Filled(im, m.b, off, n, bn, data)
    OBVIOUS
<1>4. PICK jm : jm = [im EXCEPT !.blk[m.b] = c]
    OBVIOUS
<1>5. PICK x, b : x = Read(m.s, m.b) /\ b = m.b
    OBVIOUS
<1>6. jm = [im EXCEPT !.blk[b] = c]
    BY <1>4, <1>5
<1>7. c = Filled(im, b, off, n, bn, data)
    BY <1>3, <1>5
<1>8. s.ok => Addressed(s, k, i)
    OBVIOUS
<1>9. Mapped(s, i, bn, m)
  <2>1. m = Bmap(s, k, bn)
      BY <1>1
  <2>2. QED
      BY <1>8, <2>1, BmapFinds
<1>10. Same(s, m.s) /\ State(m.s) /\ (m.s.ok => m.b \in Blocks)
    BY <1>9 DEF Mapped, Same
<1>11. Same(m.s, x) /\ x.img = m.s.img
    BY <1>5, <1>10, ReadSame
<1>12. Same(s, x) /\ State(x) /\ x.img = im
  <2>1. im = m.s.img
      BY <1>2
  <2>2. QED
      BY <1>10, <1>11, <2>1, SameTrans DEF Same
<1>13. ASSUME x.ok PROVE b \in Blocks /\ c \in Contents /\ Elsewhere(im, b)
  <2>1. m.s.ok /\ s.ok
      BY <1>10, <1>11, <1>13 DEF Same
  <2>2. /\ bn \in FileBlocks /\ b = Address(s.img, i, bn) /\ b \in Blocks
      BY <1>5, <1>9, <2>1 DEF Mapped
  <2>3. im \in Images /\ WellFormed(im)
      BY <1>12 DEF State, Disk, WellFormed
  <2>4. c \in Contents
      BY <1>7, <2>2, <2>3, FilledContents
  <2>5. i \in Inodes /\ i \notin Directories(im)
      BY <1>12, <2>1 DEF Addressed, Same, Directories
  <2>6. b = Address(im, i, bn)
      BY <1>12, <2>2, <2>5 DEF Same, Alike
  <2>7. Elsewhere(im, b)
      BY <2>2, <2>3, <2>5, <2>6, FileElsewhere
  <2>8. QED
      BY <2>2, <2>4, <2>7
<1>14. Same(x, Write(x, jm))
  <2>1. State(x) /\ im = x.img
      BY <1>12
  <2>2. x.ok => b \in Blocks /\ c \in Contents /\ Elsewhere(im, b)
      BY <1>13
  <2>3. QED
      BY <1>6, <2>1, <2>2, BlockSame
<1>15. WriteBlock(s, k, off, n, bn, data) = Write(x, jm)
  <2>1. WriteBlock(s, k, off, n, bn, data) = FillUnits(off, n, bn, data, m)
      BY <1>1, Zenon DEF WriteBlock
  <2>2. FillUnits(off, n, bn, data, m) = Write(Read(m.s, m.b), jm)
      BY <1>2, <1>3, <1>4, Zenon DEF FillUnits, Filled
  <2>3. QED
      BY <1>5, <2>1, <2>2, Zenon
<1>16. QED
    BY <1>12, <1>14, <1>15, SameTrans

(* The turns of tinyfs_data_write's loop.                                   *)
LEMMA WriteRun ==
    ASSUME NEW s, NEW k, NEW off \in Nat, NEW data, Len(data) \in Nat, s.ic[k].n.size \in Nat,
           ~(off > s.ic[k].n.size)
    PROVE  LET n == Clamp(off, Len(data), s.ic[k].n.size)
           IN  /\ n \in Int /\ n <= Len(data) /\ Span(off, n) \in Nat
               /\ \E g : /\ DataWrite(s, k, off, data) = [s |-> g[Span(off, n)], ret |-> n]
                         /\ g[0] = s
                         /\ \A j \in 0 .. Span(off, n) - 1 :
                               /\ off \div BS + j \in Nat
                               /\ g[j + 1] = WriteBlock(g[j], k, off, n, off \div BS + j, data)
<1> DEFINE n == Clamp(off, Len(data), s.ic[k].n.size)
<1> DEFINE N == Span(off, n)
<1> DEFINE Do(t, i) == WriteBlock(t, k, off, n, off \div BS + i, data)
<1> DEFINE g == CHOOSE at : at = [i \in 0 .. N |-> IF i = 0 THEN s ELSE Do(at[i - 1], i - 1)]
<1>1. n \in Int /\ n <= Len(data)
    BY DEF Clamp
<1>2. DataWrite(s, k, off, data) = [s |-> g[N], ret |-> n]
  <2>1. DataWrite(s, k, off, data)
          = [s |-> Iterate(LAMBDA t, i : WriteBlock(t, k, off, n, off \div BS + i, data), s, N),
             ret |-> n]
      BY Zenon DEF DataWrite
  <2>2. QED
      BY <2>1, Zenon DEF Iterate
<1>3. N \in Nat
  <2>1. off \in Int
      OBVIOUS
  <2>2. QED
      BY <1>1, <2>1, Counting
<1>4. PICK f : f = [i \in 0 .. N |-> IF i = 0 THEN s ELSE Do(f[i - 1], i - 1)]
  <2> DEFINE c == [kind |-> "write", k |-> k, off |-> off, n |-> n, data |-> data]
  <2>1. \A t, i : Turn(c, t, i) = Do(t, i)
      BY DEF Turn
  <2> HIDE DEF Do, c, N
  <2>2. PICK f : IsRun(f, c, s, N)
      BY <1>3, Runs
  <2>3. f = [i \in 0 .. N |-> IF i = 0 THEN s ELSE Do(f[i - 1], i - 1)]
      BY <2>1, <2>2 DEF IsRun
  <2>4. QED
      BY <2>3
<1>5. g = [i \in 0 .. N |-> IF i = 0 THEN s ELSE Do(g[i - 1], i - 1)]
    BY <1>4
<1> HIDE DEF g, Do, N, n
<1>6. \A i \in 0 .. N : g[i] = IF i = 0 THEN s ELSE Do(g[i - 1], i - 1)
    BY <1>5
<1>7. g[0] = s
    BY <1>3, <1>6
<1>8. ASSUME NEW j \in 0 .. N - 1
      PROVE  /\ off \div BS + j \in Nat /\ g[j + 1] = Do(g[j], j)
  <2>1. j + 1 \in 0 .. N /\ j + 1 - 1 = j /\ j + 1 # 0 /\ j \in Nat
      BY <1>3
  <2>2. off \div BS \in Nat
      BY InFile
  <2>3. QED
      BY <1>6, <2>1, <2>2
<1>9. QED
    BY <1>1, <1>2, <1>3, <1>7, <1>8, Zenon DEF Do, N, n

(* Writing a file leaves inodes and directories alone.                      *)
LEMMA DataWriteSame ==
    ASSUME NEW s, State(s), NEW k \in Slots, NEW i,
           s.ok => Addressed(s, k, i) /\ i \notin Directories(s.img),
           NEW off \in Nat, NEW data \in Seq(Units)
    PROVE  Same(s, DataWrite(s, k, off, data).s) /\ DataWrite(s, k, off, data).ret \in Int
<1> DEFINE size == s.ic[k].n.size
<1>1. size \in Nat /\ Len(data) \in Nat
    BY SizeOf
<1>2. Same(s, s)
    BY SameSelf
<1>3. CASE off > size
  <2>1. DataWrite(s, k, off, data) = [s |-> s, ret |-> -1]
      BY <1>3 DEF DataWrite
  <2>2. QED
      BY <1>2, <2>1
<1>4. CASE ~(off > size)
  <2> DEFINE n == Clamp(off, Len(data), size)
  <2>1. /\ n \in Int /\ n <= Len(data) /\ Span(off, n) \in Nat
        /\ \E g : /\ DataWrite(s, k, off, data) = [s |-> g[Span(off, n)], ret |-> n]
                  /\ g[0] = s
                  /\ \A j \in 0 .. Span(off, n) - 1 :
                        /\ off \div BS + j \in Nat
                        /\ g[j + 1] = WriteBlock(g[j], k, off, n, off \div BS + j, data)
      BY <1>1, <1>4, WriteRun
  <2> HIDE DEF n
  <2>2. PICK g : /\ DataWrite(s, k, off, data) = [s |-> g[Span(off, n)], ret |-> n]
                 /\ g[0] = s
                 /\ \A j \in 0 .. Span(off, n) - 1 :
                       /\ off \div BS + j \in Nat
                       /\ g[j + 1] = WriteBlock(g[j], k, off, n, off \div BS + j, data)
      BY <2>1
  <2>3. PICK N : N = Span(off, n)
      OBVIOUS
  <2>4. N \in Nat
      BY <2>1, <2>3
  <2> DEFINE G == {j \in 0 .. N : Same(s, g[j])}
  <2>5. 0 \in G
      BY <1>2, <2>2, <2>4
  <2>6. ASSUME NEW j \in 0 .. N - 1, j \in G PROVE j + 1 \in G
    <3>1. j + 1 \in 0 .. N
        BY <2>4
    <3>2. off \div BS + j \in Nat /\ g[j + 1] = WriteBlock(g[j], k, off, n, off \div BS + j, data)
        BY <2>2, <2>3
    <3>3. Same(s, g[j]) /\ State(g[j])
        BY <2>6 DEF Same
    <3>4. g[j].ok => Addressed(g[j], k, i) /\ i \notin Directories(g[j].img)
        BY <3>3 DEF Same, Addressed, Directories
    <3>5. Same(g[j], g[j + 1])
      <4>1. PICK bn \in Nat : bn = off \div BS + j
          BY <3>2
      <4>2. State(g[j])
          BY <3>3
      <4>3. Same(g[j], WriteBlock(g[j], k, off, n, bn, data))
          BY <2>1, <3>4, <4>2, WriteBlockSame
      <4>4. QED
          BY <3>2, <4>1, <4>3
    <3>6. Same(s, g[j + 1])
        BY <3>3, <3>5, SameTrans
    <3>7. QED
        BY <3>1, <3>6
  <2> HIDE DEF G
  <2>7. N \in G
      BY <2>4, <2>5, <2>6, ToTheEnd
  <2>8. Same(s, g[N])
      BY <2>7 DEF G
  <2>9. QED
      BY <2>1, <2>2, <2>3, <2>8
<1>5. QED
    BY <1>3, <1>4

(* What is entered in one disk is entered in one that is alike.             *)
LEMMA EnteredAlike ==
    ASSUME NEW im, NEW jm, jm.ino = im.ino, Alike(im, jm),
           NEW km, NEW d, NEW at, NEW e, Entered(jm, km, d, at, e)
    PROVE  Entered(im, km, d, at, e)
<1>1. Directories(jm) = Directories(im) /\ \A j \in Inodes : Offsets(jm, j) = Offsets(im, j)
    BY DEF Directories, Offsets
<1>2. Offsets(jm, d) = Offsets(im, d)
    BY DEF Offsets
<1>3. \A f \in Directories(im) : f \in Inodes
    BY DEF Directories
<1>4. \A j \in Inodes : km.ino[j].addr = im.ino[j].addr /\ km.ino[j].type = im.ino[j].type
    BY DEF Entered
<1>5. \A f \in Directories(im) : /\ Offsets(im, f) \subseteq Offsets(km, f)
                                 /\ f # d => Offsets(km, f) = Offsets(im, f)
    BY <1>1, <1>3 DEF Entered
<1>6. \A j \in Inodes, bn \in FileBlocks : Address(km, j, bn) = Address(im, j, bn)
    BY DEF Entered, Alike
<1>7. \A f \in Directories(im), off \in FileUnits :
         f # d \/ off # at => Unit(km, f, off) = Unit(im, f, off)
    BY <1>1 DEF Entered, Alike
<1>8. /\ km \in Images /\ Offsets(km, d) \subseteq Offsets(im, d) \cup {at}
      /\ Unit(km, d, at) = e \/ Unit(km, d, at)[1] = 0
    BY <1>2 DEF Entered
<1>9. QED
    BY <1>4, <1>5, <1>6, <1>7, <1>8 DEF Entered

(* c is block b but for the unit at offset at of a file.                    *)
OneReplaced(im, b, at, e, c) ==
    c[at % BS] = e /\ \A u \in 0 .. BS - 1 : u # at % BS => c[u] = im.blk[b][u]

(* That is what a transfer of one unit makes of it.                         *)
LEMMA FilledUnit ==
    ASSUME NEW im, NEW b, NEW at \in Nat, NEW e, NEW data, data[1] = e,
           NEW n, n = 1, NEW bn, bn = at \div BS,
           NEW c, c = Filled(im, b, at, n, bn, data)
    PROVE  OneReplaced(im, b, at, e, c)
<1>1. at % BS \in 0 .. BS - 1
    BY InFile
<1> SUFFICES ASSUME NEW u \in 0 .. BS - 1
             PROVE  c[u] = IF u = at % BS THEN e ELSE im.blk[b][u]
    BY <1>1 DEF OneReplaced
<1>2. PICK z : z = (at \div BS) * BS
    OBVIOUS
<1>3. at % BS \in 0 .. BS - 1 /\ at = z + (at % BS) /\ z \in Nat
  <2>1. /\ at \div BS \in Nat /\ at % BS \in 0 .. BS - 1 /\ at = BS * (at \div BS) + (at % BS)
      BY InFile
  <2>2. z = BS * (at \div BS)
      BY <1>2, <2>1, Sizes
  <2>3. z \in Nat
      BY <1>2, <2>1, Sizes
  <2>4. at = z + (at % BS)
      BY <2>1, <2>2
  <2>5. QED
      BY <2>1, <2>3, <2>4
<1>4. c[u] = IF z + u \in Within(at, 1, at \div BS) THEN data[z + u - at + 1] ELSE im.blk[b][u]
    BY <1>2 DEF Filled
<1>5. PICK y \in 0 .. BS - 1 : y = at % BS
    BY <1>3
<1>6. at = z + y
    BY <1>3, <1>5
<1>7. z + u \in Within(at, 1, at \div BS) <=> u = y
  <2>1. \A v : v \in at .. at + 1 - 1 <=> v = at
      OBVIOUS
  <2>2. \A v : v \in Within(at, 1, at \div BS) <=> v = at
      BY <2>1 DEF Within
  <2>3. z + u = at <=> u = y
      BY <1>3, <1>6, Sizes
  <2>4. QED
      BY <2>2, <2>3
<1>8. u = y => z + u - at + 1 = 1
    BY <1>3, <1>6, Sizes
<1>9. PICK x : x = z + u - at + 1
    OBVIOUS
<1>10. u = y => data[x] = e
    BY <1>8, <1>9
<1>11. QED
    BY <1>4, <1>5, <1>7, <1>9, <1>10

(* A transfer of one unit takes one turn.                                   *)
LEMMA OneUnit ==
    ASSUME NEW s, NEW k, s.ic[k].n.size \in Nat, NEW at \in Nat, at < s.ic[k].n.size, NEW e
    PROVE  DataWrite(s, k, at, <<e>>).s = WriteBlock(s, k, at, 1, at \div BS, <<e>>)
<1> DEFINE size == s.ic[k].n.size
<1>1. PICK data : data = <<e>>
    OBVIOUS
<1>2. Span(at, 1) = 1
  <2>1. PICK A : A = {u \div BS : u \in at .. at + 1 - 1}
      OBVIOUS
  <2>2. \A v : v \in A <=> v = at \div BS
      BY <2>1
  <2>3. A = {at \div BS}
      BY <2>2
  <2>4. Cardinality(A) = 1
      BY <2>3, FS_Singleton
  <2>5. QED
      BY <2>1, <2>4 DEF Span
<1> DEFINE n == Clamp(at, Len(data), size)
<1>3. n = 1
    BY <1>1 DEF Clamp
<1>4. Len(data) \in Nat /\ ~(at > size)
    BY <1>1
<1>5. \E g : /\ DataWrite(s, k, at, data) = [s |-> g[Span(at, n)], ret |-> n]
             /\ g[0] = s
             /\ \A j \in 0 .. Span(at, n) - 1 :
                   /\ at \div BS + j \in Nat
                   /\ g[j + 1] = WriteBlock(g[j], k, at, n, at \div BS + j, data)
    BY <1>4, WriteRun
<1> HIDE DEF n
<1>6. PICK g : /\ DataWrite(s, k, at, data) = [s |-> g[Span(at, n)], ret |-> n]
               /\ g[0] = s
               /\ \A j \in 0 .. Span(at, n) - 1 :
                     /\ at \div BS + j \in Nat
                     /\ g[j + 1] = WriteBlock(g[j], k, at, n, at \div BS + j, data)
    BY <1>5
<1>7. DataWrite(s, k, at, <<e>>).s = g[1] /\ g[0 + 1] = WriteBlock(g[0], k, at, 1, at \div BS + 0, <<e>>)
  <2>1. DataWrite(s, k, at, data) = [s |-> g[1], ret |-> 1]
      BY <1>2, <1>3, <1>6
  <2>2. g[0 + 1] = WriteBlock(g[0], k, at, 1, at \div BS + 0, data)
      BY <1>2, <1>3, <1>6
  <2>3. QED
      BY <1>1, <2>1, <2>2
<1>8. at \div BS + 0 = at \div BS
    BY InFile
<1>9. QED
    BY <1>6, <1>7, <1>8

(* A unit of a directory is written into its block.                         *)
LEMMA UnitStored ==
    ASSUME NEW s, State(s), NEW k, NEW d \in Directories(s.img), Addressed(s, k, d),
           NEW at \in Nat, NEW e \in Units,
           NEW data \in Seq(Units), Len(data) = 1, data[1] = e
    PROVE  \E x, jm : /\ WriteBlock(s, k, at, 1, at \div BS, data) = Write(x, jm)
                      /\ Same(s, x)
                      /\ x.ok => /\ at \in FileUnits /\ jm.ino = s.img.ino
                                 /\ Entered(s.img, jm, d, at, e)
<1>1. PICK bn \in Nat : bn = at \div BS
    BY InFile
<1>2. PICK m : m = Bmap(s, k, bn)
    OBVIOUS
<1>3. PICK x, b, im : x = Read(m.s, m.b) /\ b = m.b /\ im = m.s.img
    OBVIOUS
<1>4. PICK n \in Int : n = 1
    OBVIOUS
<1>5. PICK c : c = Filled(im, b, at, n, bn, data)
    OBVIOUS
<1>6. PICK jm : jm = [im EXCEPT !.blk[b] = c]
    OBVIOUS
<1>7. WriteBlock(s, k, at, 1, at \div BS, data) = Write(x, jm)
  <2>1. WriteBlock(s, k, at, 1, bn, data) = FillUnits(at, 1, bn, data, m)
      BY <1>2, Zenon DEF WriteBlock
  <2>2. FillUnits(at, 1, bn, data, m) = Write(Read(m.s, m.b), jm)
      BY <1>3, <1>4, <1>5, <1>6, Zenon DEF FillUnits, Filled
  <2>3. QED
      BY <1>1, <1>3, <2>1, <2>2
<1>8. Mapped(s, d, bn, m)
    BY <1>2, BmapFinds
<1>9. Same(s, m.s) /\ State(m.s) /\ (m.s.ok => m.b \in Blocks)
    BY <1>8 DEF Mapped, Same
<1>10. Same(m.s, x) /\ x.img = im
    BY <1>3, <1>9, ReadSame
<1>11. Same(s, x) /\ State(x)
    BY <1>9, <1>10, SameTrans DEF Same
<1>12. ASSUME x.ok PROVE at \in FileUnits /\ jm.ino = s.img.ino /\ Entered(s.img, jm, d, at, e)
  <2>1. /\ bn \in FileBlocks /\ b = Address(s.img, d, bn) /\ b \in Blocks
      BY <1>3, <1>8, <1>10, <1>12 DEF Mapped, Same
  <2>2. at \in FileUnits
      BY <1>1, <2>1, InFile
  <2>3. /\ WellFormed(im) /\ im \in Images /\ im.ino = s.img.ino /\ Alike(s.img, im)
      BY <1>10, <1>11 DEF Same, State, Disk, WellFormed
  <2>4. d \in Directories(im) /\ d \in Inodes
      BY <2>3 DEF Directories
  <2>5. b = Address(im, d, bn)
      BY <2>1, <2>3, <2>4 DEF Alike
  <2>6. c \in Contents
    <3>1. Filled(im, b, at, n, bn, data) \in Contents
      <4>1. n <= Len(data) /\ im \in Images /\ b \in Blocks
          BY <1>4, <2>1, <2>3
      <4>2. QED
          BY <4>1, FilledContents, Zenon
    <3>2. QED
        BY <1>5, <3>1
  <2>7. \A u \in 0 .. BS - 1 : c[u] = IF u = at % BS THEN e ELSE im.blk[b][u]
    <3>1. OneReplaced(im, b, at, e, c)
        BY <1>1, <1>4, <1>5, FilledUnit
    <3>2. QED
        BY <3>1 DEF OneReplaced
  <2>8. jm \in Images /\ jm.ino = im.ino /\ jm.blk = [im.blk EXCEPT ![b] = c]
    <3>1. jm \in Images
        BY <1>6, <2>1, <2>3, <2>6, NewBlock
    <3>2. jm.ino = im.ino
        BY <1>6, <2>1, <2>3, <2>6, NewBlock
    <3>3. jm.blk = [im.blk EXCEPT ![b] = c]
        BY <1>6, <2>1, <2>3, <2>6, NewBlock
    <3>4. QED
        BY <3>1, <3>2, <3>3
  <2>9. Entered(im, jm, d, at, e)
    <3>1. CASE b = 0
      <4>1. Elsewhere(im, b)
          BY <3>1 DEF Elsewhere
      <4>2. Alike(im, jm)
          BY <2>1, <2>3, <2>6, <2>8, <4>1, WrittenElsewhere
      <4>3. Unit(im, d, at) = Zero
          BY <1>1, <2>5, <3>1 DEF Unit
      <4>4. Zero[1] = 0
          BY DEF Zero
      <4>5. QED
          BY <2>2, <2>4, <2>8, <4>2, <4>3, <4>4, NothingEntered
    <3>2. CASE b # 0
      <4>1. e \in Nat \X Texts /\ b = Address(im, d, at \div BS)
          BY <1>1, <2>5 DEF Units
      <4>2. QED
          BY <2>2, <2>3, <2>4, <2>6, <2>7, <2>8, <3>2, <4>1, UnitEntered
    <3>3. QED
        BY <3>1, <3>2
  <2>10. Entered(s.img, jm, d, at, e)
      BY <2>3, <2>9, EnteredAlike
  <2>11. QED
      BY <2>2, <2>3, <2>8, <2>10
<1>13. QED
    BY <1>7, <1>11, <1>12

(* A new name is written where a directory has room.                        *)
LEMMA UnitWritten ==
    ASSUME NEW s, State(s), s.ok, NEW k \in Slots, NEW d, Addressed(s, k, d),
           NEW name \in Texts, Fresh(s.img, d, name),
           NEW i \in Inodes, s.img.ino[i].type # 0,
           NEW at \in Nat, at < s.ic[k].n.size, at \in Offsets(s.img, d) => Unit(s.img, d, at)[1] = 0,
           NEW w, w = DataWrite(s, k, at, << <<i, name>> >>).s
    PROVE  /\ State(w) /\ w.ic = s.ic /\ w.img.ino = s.img.ino
           /\ w.ok => at \in FileUnits /\ Entered(s.img, w.img, d, at, <<i, name>>)
<1>1. PICK e : e = <<i, name>>
    OBVIOUS
<1>2. PICK data : data = <<e>>
    OBVIOUS
<1>3. e \in Units /\ d \in Directories(s.img)
    BY <1>1, Sizes DEF Units, Fresh
<1>4. data \in Seq(Units) /\ Len(data) = 1 /\ data[1] = e
    BY <1>2, <1>3
<1>5. w = WriteBlock(s, k, at, 1, at \div BS, data)
  <2>1. s.ic[k].n.size \in Nat
      BY SizeOf
  <2>2. DataWrite(s, k, at, <<e>>).s = WriteBlock(s, k, at, 1, at \div BS, <<e>>)
      BY <2>1, OneUnit
  <2>3. QED
      BY <1>1, <1>2, <2>2
<1>6. PICK x, jm : /\ WriteBlock(s, k, at, 1, at \div BS, data) = Write(x, jm)
                   /\ Same(s, x)
                   /\ x.ok => /\ at \in FileUnits /\ jm.ino = s.img.ino
                              /\ Entered(s.img, jm, d, at, e)
    BY <1>3, <1>4, UnitStored
<1>7. w = Write(x, jm) /\ State(x)
    BY <1>5, <1>6 DEF Same
<1>8. CASE ~x.ok
  <2>1. w = x
      BY <1>7, <1>8 DEF Write
  <2>2. QED
      BY <1>6, <1>8, <2>1 DEF Same
<1>9. CASE x.ok
  <2>1. Disk(s.img)
      BY DEF State
  <2>2. Entered(s.img, jm, d, at, <<i, name>>)
      BY <1>1, <1>6, <1>9
  <2>3. at \in FileUnits
      BY <1>6, <1>9
  <2>4. Disk(jm)
      BY <2>1, <2>2, <2>3, EnteredDisk
  <2>5. State(w) /\ w.ic = x.ic /\ w.img = jm
      BY <1>7, <1>9, <2>4, WriteTo
  <2>6. QED
      BY <1>6, <1>9, <2>2, <2>3, <2>5 DEF Same
<1>10. QED
    BY <1>8, <1>9

-----------------------------------------------------------------------------
(* Searches                                                                 *)

(* The first of some slots.                                                 *)
LEMMA FirstSlot ==
    ASSUME NEW S \in SUBSET Slots, S # {}
    PROVE  (CHOOSE k \in S : \A j \in S : k <= j) \in S
<1>1. S \in SUBSET Nat
    BY DEF Slots
<1>2. \E k \in S : \A j \in S : k <= j
    BY <1>1, Least
<1>3. QED
    BY <1>2

(* Where a search of a directory may stop: at the first of the entries I,   *)
(* or behind all of them if there is none.                                  *)
StopAt(entries, I, at) ==
    /\ at \in 0 .. Len(entries)
    /\ at = Len(entries) => I = {}
    /\ at # Len(entries) => at + 1 \in I

(* The searches of tinyfs_lookupi and tinyfs_data_linki.                    *)
LEMMA StopsAt ==
    ASSUME NEW S, NEW entries \in Seq(S), NEW name
    PROVE  /\ StopAt(entries, {i \in 1 .. Len(entries) : Matches(name, entries[i])},
                     FirstMatch(entries, name))
           /\ StopAt(entries, {i \in 1 .. Len(entries) : entries[i][1] = 0}, FirstFree(entries))
<1>1. Len(entries) \in Nat
    OBVIOUS
<1>2. ASSUME NEW I \in SUBSET (1 .. Len(entries))
      PROVE  StopAt(entries, I, OrEnd(IF I # {} THEN Min(I) ELSE 0, entries))
  <2>1. I \in SUBSET Nat
      OBVIOUS
  <2>2. I # {} => \E x \in I : \A y \in I : x =< y
      BY <2>1, Least
  <2>3. I # {} => Min(I) \in I
      BY <2>2 DEF Min
  <2>4. CASE I # {}
    <3>1. PICK m \in 1 .. Len(entries) : m = Min(I) /\ m \in I
        BY <2>3, <2>4
    <3>2. OrEnd(m, entries) = m - 1
        BY <3>1 DEF OrEnd
    <3>3. m - 1 \in 0 .. Len(entries) /\ m - 1 # Len(entries) /\ m - 1 + 1 = m
        BY <1>1, <3>1
    <3>4. StopAt(entries, I, m - 1)
        BY <3>1, <3>3 DEF StopAt
    <3>5. QED
        BY <2>4, <3>1, <3>2, <3>4
  <2>5. CASE I = {}
    <3>1. OrEnd(0, entries) = Len(entries) /\ Len(entries) \in 0 .. Len(entries)
        BY <1>1 DEF OrEnd
    <3>2. QED
        BY <2>5, <3>1 DEF StopAt
  <2>6. QED
      BY <2>4, <2>5
<1>3. StopAt(entries, {i \in 1 .. Len(entries) : Matches(name, entries[i])}, FirstMatch(entries, name))
  <2> DEFINE I == {i \in 1 .. Len(entries) : Matches(name, entries[i])}
  <2>1. SelectInSeq(entries, LAMBDA e : Matches(name, e)) = IF I # {} THEN Min(I) ELSE 0
      BY DEF SelectInSeq
  <2>2. I \in SUBSET (1 .. Len(entries))
      OBVIOUS
  <2>3. FirstMatch(entries, name) = OrEnd(IF I # {} THEN Min(I) ELSE 0, entries)
      BY <2>1, Zenon DEF FirstMatch
  <2> HIDE DEF I
  <2>4. StopAt(entries, I, FirstMatch(entries, name))
      BY <1>2, <2>2, <2>3
  <2>5. QED
      BY <2>4 DEF I
<1>4. StopAt(entries, {i \in 1 .. Len(entries) : entries[i][1] = 0}, FirstFree(entries))
  <2> DEFINE I == {i \in 1 .. Len(entries) : entries[i][1] = 0}
  <2>1. SelectInSeq(entries, LAMBDA e : e[1] = 0) = IF I # {} THEN Min(I) ELSE 0
      BY DEF SelectInSeq
  <2>2. I \in SUBSET (1 .. Len(entries))
      OBVIOUS
  <2>3. FirstFree(entries) = OrEnd(IF I # {} THEN Min(I) ELSE 0, entries)
      BY <2>1, Zenon DEF FirstFree
  <2> HIDE DEF I
  <2>4. StopAt(entries, I, FirstFree(entries))
      BY <1>2, <2>2, <2>3
  <2>5. QED
      BY <2>4 DEF I
<1>5. QED
    BY <1>3, <1>4

-----------------------------------------------------------------------------
(* Whatever has wrapped around                                              *)

(* What is true of an image and of a call's record in any case: the types,  *)
(* and that an entry in use has the number of an inode.                     *)
Framed(im) ==
    /\ im = [magic |-> im.magic, bits |-> im.bits, ino |-> im.ino, blk |-> im.blk]
    /\ im.ino \in [Inodes -> InodeSet] /\ DOMAIN im.blk = Blocks
    /\ \A b \in Blocks : DOMAIN im.blk[b] = 0 .. BS - 1
Named(c) == \A k \in Slots : c[k].ref # 0 => c[k].idx \in Inodes
Raw(s) ==
    /\ Fields(s) /\ Framed(s.img) /\ s.ic \in Caches /\ Named(s.ic)
    /\ \E S : s.log \in Seq(S)
    /\ \A i \in 1 .. Len(s.log) : Framed(s.log[i])

(* A step of a call: a count that has wrapped around is not forgotten, and  *)
(* an entry that has had an inode has one.                                  *)
Onward(s, t) ==
    /\ Raw(t) /\ (s.over => t.over)
    /\ \A k \in Slots : s.ic[k].idx \in Inodes => t.ic[k].idx \in Inodes

(* Two such steps make one, and doing nothing is one.                       *)
LEMMA OnwardTrans ==
    ASSUME NEW s, NEW t, NEW u, Onward(s, t), Onward(t, u)
    PROVE  Onward(s, u)
    BY DEF Onward
LEMMA OnwardSelf == ASSUME NEW s, Raw(s) PROVE Onward(s, s)
    BY DEF Onward

(* A step that leaves disk and cache alone.                                 *)
LEMMA OnwardSame ==
    ASSUME NEW s, Raw(s), NEW t, Fields(t), t.img = s.img, t.ic = s.ic, t.log = s.log,
           t.over = s.over
    PROVE  Onward(s, t)
    BY DEF Onward, Raw

(* A block is read, and a call fails.                                       *)
LEMMA RawRead ==
    ASSUME NEW s, Raw(s), NEW b
    PROVE  Onward(s, Read(s, b)) /\ Read(s, b).ic = s.ic /\ Read(s, b).img = s.img
<1>1. CASE Read(s, b) = [s EXCEPT !.cached = @ \cup {b}]
  <2> DEFINE t == [img |-> s.img, cached |-> s.cached \cup {b}, ic |-> s.ic, ok |-> s.ok,
                   log |-> s.log, over |-> s.over]
  <2>1. Read(s, b) = t
      BY <1>1 DEF Raw, Fields
  <2>2. Fields(t) /\ t.img = s.img /\ t.ic = s.ic /\ t.log = s.log /\ t.over = s.over
      BY DEF Fields
  <2>3. QED
      BY <2>1, <2>2, OnwardSame
<1>2. CASE Read(s, b) = Fail(s)
  <2> DEFINE t == [img |-> s.img, cached |-> s.cached, ic |-> s.ic, ok |-> FALSE,
                   log |-> s.log, over |-> s.over]
  <2>1. Read(s, b) = t
      BY <1>2 DEF Raw, Fields, Fail
  <2>2. Fields(t) /\ t.img = s.img /\ t.ic = s.ic /\ t.log = s.log /\ t.over = s.over
      BY DEF Fields
  <2>3. QED
      BY <2>1, <2>2, OnwardSame
<1>3. QED
    BY <1>1, <1>2 DEF Read
LEMMA RawFail == ASSUME NEW s, Raw(s) PROVE Onward(s, Fail(s)) /\ Fail(s).ok = FALSE
<1> DEFINE t == [img |-> s.img, cached |-> s.cached, ic |-> s.ic, ok |-> FALSE,
                 log |-> s.log, over |-> s.over]
<1>1. Fail(s) = t
  <2> SUFFICES ASSUME NEW r, r = Fail(s) PROVE r = t
      OBVIOUS
  <2>1. QED
      BY DEF Raw, Fields, Fail
<1>2. Fields(t) /\ t.img = s.img /\ t.ic = s.ic /\ t.log = s.log /\ t.over = s.over
    BY DEF Fields
<1>3. QED
    BY <1>1, <1>2, OnwardSame

(* The disk is written.                                                     *)
LEMMA RawWrite ==
    ASSUME NEW s, Raw(s), NEW im, Framed(im)
    PROVE  Onward(s, Write(s, im)) /\ Write(s, im).ic = s.ic
<1>1. CASE ~s.ok
    BY <1>1, OnwardSelf DEF Write
<1>2. CASE s.ok
  <2> DEFINE t == [img |-> im, cached |-> s.cached, ic |-> s.ic, ok |-> s.ok,
                   log |-> Append(s.log, im), over |-> s.over]
  <2>1. Write(s, im) = t
    <3> SUFFICES ASSUME NEW r, r = Write(s, im) PROVE r = t
        OBVIOUS
    <3>1. QED
        BY <1>2 DEF Raw, Fields, Write
  <2>2. PICK l : l = Append(s.log, im)
      OBVIOUS
  <2>3. (\E S : l \in Seq(S)) /\ \A i \in 1 .. Len(l) : Framed(l[i])
    <3>1. PICK S : s.log \in Seq(S)
        BY DEF Raw
    <3>2. s.log \in Seq(S \cup {im})
        BY <3>1, SeqMonotonic
    <3>3. /\ l \in Seq(S \cup {im}) /\ Len(l) = Len(s.log) + 1 /\ Len(s.log) \in Nat
          /\ \A i \in 1 .. Len(s.log) + 1 : l[i] = IF i <= Len(s.log) THEN s.log[i] ELSE im
        BY <2>2, <3>2
    <3>4. QED
        BY <3>3 DEF Raw
  <2>4. Fields(t) /\ t.img = im /\ t.ic = s.ic /\ t.log = l /\ t.over = s.over
      BY <2>2 DEF Fields
  <2> HIDE DEF t
  <2>5. Onward(s, t)
      BY <2>3, <2>4 DEF Onward, Raw
  <2>6. QED
      BY <2>1, <2>4, <2>5
<1>3. QED
    BY <1>1, <1>2

(* A block of an image is replaced, and an inode.                           *)
LEMMA RawBlock ==
    ASSUME NEW im, Framed(im), NEW b, NEW c, DOMAIN c = 0 .. BS - 1,
           NEW jm, jm = [im EXCEPT !.blk[b] = c]
    PROVE  Framed(jm)
<1>1. jm = [magic |-> im.magic, bits |-> im.bits, ino |-> im.ino, blk |-> [im.blk EXCEPT ![b] = c]]
    BY DEF Framed
<1>2. jm.ino = im.ino /\ jm.blk = [im.blk EXCEPT ![b] = c] /\ jm.magic = im.magic /\ jm.bits = im.bits
    BY <1>1
<1>3. DOMAIN jm.blk = Blocks /\ \A x \in Blocks : DOMAIN jm.blk[x] = 0 .. BS - 1
    BY <1>2 DEF Framed
<1>4. QED
    BY <1>1, <1>2, <1>3 DEF Framed
LEMMA RawIno ==
    ASSUME NEW im, Framed(im), NEW i, NEW v \in InodeSet, NEW jm, jm = [im EXCEPT !.ino[i] = v]
    PROVE  Framed(jm)
<1>1. jm = [magic |-> im.magic, bits |-> im.bits, ino |-> [im.ino EXCEPT ![i] = v], blk |-> im.blk]
    BY DEF Framed
<1>2. jm.ino = [im.ino EXCEPT ![i] = v] /\ jm.blk = im.blk /\ jm.magic = im.magic /\ jm.bits = im.bits
    BY <1>1
<1>3. QED
    BY <1>1, <1>2 DEF Framed

(* An entry of the cache is replaced, and the inode in it.                  *)
LEMMA RawSlot ==
    ASSUME NEW s, Raw(s), NEW k \in Slots,
           NEW e \in [ref : 0 .. RefMod - 1, idx : Inodes \cup {0}, n : InodeSet],
           e.ref # 0 \/ s.ic[k].idx \in Inodes => e.idx \in Inodes
    PROVE  /\ Onward(s, [s EXCEPT !.ic[k] = e]) /\ [s EXCEPT !.ic[k] = e].ic[k] = e
           /\ [s EXCEPT !.ic[k] = e].ok = s.ok
<1> DEFINE c == [s.ic EXCEPT ![k] = e]
<1> DEFINE t == [img |-> s.img, cached |-> s.cached, ic |-> c, ok |-> s.ok, log |-> s.log,
                 over |-> s.over]
<1>1. [s EXCEPT !.ic[k] = e] = t
    BY DEF Raw, Fields
<1>2. s.ic \in Caches
    BY DEF Raw
<1>3. c \in Caches
    BY <1>2 DEF Caches
<1>4. \A j \in Slots : c[j] = IF j = k THEN e ELSE s.ic[j]
    BY <1>2 DEF Caches
<1>5. Named(s.ic)
    BY DEF Raw
<1> HIDE DEF c
<1>6. Named(c) /\ \A j \in Slots : s.ic[j].idx \in Inodes => c[j].idx \in Inodes
    BY <1>4, <1>5 DEF Named
<1>7. Fields(t) /\ t.img = s.img /\ t.ic = c /\ t.log = s.log /\ t.over = s.over /\ t.ok = s.ok
    BY DEF Fields
<1> HIDE DEF t
<1>8. Onward(s, t)
    BY <1>3, <1>6, <1>7 DEF Onward, Raw
<1>9. QED
    BY <1>1, <1>4, <1>7, <1>8
LEMMA RawInode ==
    ASSUME NEW s, Raw(s), NEW k \in Slots, NEW v \in InodeSet, NEW t, t = [s EXCEPT !.ic[k].n = v]
    PROVE  /\ Onward(s, t) /\ t.ic[k].n = v /\ t.ic[k].idx = s.ic[k].idx
           /\ t.ok = s.ok
<1> DEFINE e == [s.ic[k] EXCEPT !.n = v]
<1>1. s.ic[k] \in [ref : 0 .. RefMod - 1, idx : Inodes \cup {0}, n : InodeSet]
    BY DEF Raw, Caches
<1>2. e \in [ref : 0 .. RefMod - 1, idx : Inodes \cup {0}, n : InodeSet]
    BY <1>1
<1>3. e.ref = s.ic[k].ref /\ e.idx = s.ic[k].idx /\ e.n = v
    BY <1>1
<1>4. t = [s EXCEPT !.ic[k] = e]
    OBVIOUS
<1>5. e.ref # 0 \/ s.ic[k].idx \in Inodes => e.idx \in Inodes
    BY <1>3 DEF Raw, Named
<1> HIDE DEF e
<1>6. QED
    BY <1>2, <1>3, <1>4, <1>5, RawSlot

(* What the inode in an entry is.                                           *)
LEMMA RawSize ==
    ASSUME NEW s, Raw(s), NEW k \in Slots
    PROVE  /\ s.ic[k].n \in InodeSet /\ s.ic[k].n.size \in Nat /\ s.ic[k].n.n_link \in Nat
           /\ s.ic[k].n.addr \in [0 .. ND -> Nat] /\ s.ic[k].ref \in 0 .. RefMod - 1
<1>1. s.ic[k] \in [ref : 0 .. RefMod - 1, idx : Inodes \cup {0}, n : InodeSet]
    BY DEF Raw, Caches
<1>2. s.ic[k].n \in InodeSet /\ s.ic[k].ref \in 0 .. RefMod - 1
    BY <1>1
<1>3. QED
    BY <1>2 DEF InodeSet

(* balloc and bmap.                                                         *)
LEMMA RawBalloc ==
    ASSUME NEW s, Raw(s)
    PROVE  \E w : Balloc(s) = [s |-> w, b |-> 0] /\ Onward(s, w) /\ w.ic = s.ic
<1> DEFINE r == Read(Read(s, BitmapOff), 0)
<1> DEFINE w == Write(r, [r.img EXCEPT !.blk[0] = ZeroBlock])
<1>1. Onward(s, Read(s, BitmapOff)) /\ Read(s, BitmapOff).ic = s.ic
    BY RawRead
<1>2. Onward(Read(s, BitmapOff), r) /\ r.ic = s.ic
    BY <1>1, RawRead DEF Onward
<1>3. Onward(s, r)
    BY <1>1, <1>2, OnwardTrans
<1>4. Balloc(s) = [s |-> w, b |-> 0]
    BY DEF Balloc
<1> HIDE DEF r
<1>5. Onward(r, w) /\ w.ic = r.ic
  <2>1. PICK im, jm : im = r.img /\ jm = [im EXCEPT !.blk[0] = ZeroBlock]
      OBVIOUS
  <2>2. w = Write(r, jm)
      BY <2>1
  <2>3. Raw(r) /\ Framed(im)
      BY <1>3, <2>1 DEF Onward, Raw
  <2>4. DOMAIN ZeroBlock = 0 .. BS - 1
      BY DEF ZeroBlock
  <2>5. Framed(jm)
      BY <2>1, <2>3, <2>4, RawBlock
  <2> HIDE DEF w
  <2>6. QED
      BY <2>2, <2>3, <2>5, RawWrite
<1> HIDE DEF w
<1>6. QED
    BY <1>2, <1>3, <1>4, <1>5, OnwardTrans
LEMMA RawBmap ==
    ASSUME NEW s, Raw(s), NEW k \in Slots, NEW bn
    PROVE  Onward(s, Bmap(s, k, bn).s)
<1> DEFINE Addr(x) == s.ic[k].n.addr[x]
<1> DEFINE Direct(r) == [r EXCEPT !.s.ic[k].n.addr[bn] = r.b]
<1> DEFINE Stor(t, table) ==
          IF t.img.blk[table][bn - ND][1] # 0
          THEN [s |-> t, b |-> t.img.blk[table][bn - ND][1]] ELSE Balloc(t)
<1> DEFINE Indirect(q) == Stor(Read([q.s EXCEPT !.ic[k].n.addr[ND] = q.b], q.b), q.b)
<1> DEFINE m == IF Addr(ND) # 0 THEN [s |-> s, b |-> Addr(ND)] ELSE Balloc(s)
<1>1. Bmap(s, k, bn) =
        IF bn < ND
        THEN IF Addr(bn) # 0 THEN [s |-> s, b |-> Addr(bn)] ELSE Direct(Balloc(s))
        ELSE IF bn - ND >= BS THEN [s |-> Fail(s), b |-> 0]
        ELSE Indirect(m)
    BY DEF Bmap
<1>2. Onward(s, s)
    BY OnwardSelf
<1>3. ASSUME NEW w, Raw(w), NEW x, NEW a \in Nat
      PROVE  Onward(w, [w EXCEPT !.ic[k].n.addr[x] = a])
  <2> DEFINE v == [w.ic[k].n EXCEPT !.addr[x] = a]
  <2>1. w.ic[k].n \in InodeSet /\ w.ic[k].n.addr \in [0 .. ND -> Nat]
      BY <1>3, RawSize
  <2>2. v \in InodeSet
      BY <2>1 DEF InodeSet
  <2>3. [w EXCEPT !.ic[k].n.addr[x] = a] = [w EXCEPT !.ic[k].n = v]
      OBVIOUS
  <2> HIDE DEF v
  <2>4. QED
      BY <1>3, <2>2, <2>3, RawInode
<1>4. CASE bn < ND /\ Addr(bn) # 0
  <2>1. PICK a : a = Addr(bn)
      OBVIOUS
  <2>2. Bmap(s, k, bn) = [s |-> s, b |-> a]
      BY <1>1, <1>4, <2>1, Zenon
  <2>3. QED
      BY <1>2, <2>2
<1>5. CASE bn < ND /\ Addr(bn) = 0
  <2>1. PICK w : Balloc(s) = [s |-> w, b |-> 0] /\ Onward(s, w)
      BY RawBalloc
  <2>2. Bmap(s, k, bn) = Direct([s |-> w, b |-> 0])
      BY <1>1, <1>5, <2>1, Zenon
  <2>3. Onward(w, [w EXCEPT !.ic[k].n.addr[bn] = 0])
      BY <1>3, <2>1 DEF Onward
  <2>4. PICK x : x = [w EXCEPT !.ic[k].n.addr[bn] = 0]
      OBVIOUS
  <2>5. Direct([s |-> w, b |-> 0]) = [s |-> x, b |-> 0]
      BY <2>4
  <2>6. QED
      BY <2>1, <2>2, <2>3, <2>4, <2>5, OnwardTrans
<1>6. CASE ~(bn < ND) /\ bn - ND >= BS
  <2>1. PICK f : f = Fail(s)
      OBVIOUS
  <2>2. Bmap(s, k, bn) = [s |-> f, b |-> 0]
      BY <1>1, <1>6, <2>1, Zenon
  <2>3. Onward(s, f)
      BY <2>1, RawFail
  <2>4. QED
      BY <2>2, <2>3
<1>7. CASE ~(bn < ND) /\ ~(bn - ND >= BS)
  <2>1. Onward(s, m.s) /\ m.b \in Nat
    <3>1. PICK w : Balloc(s) = [s |-> w, b |-> 0] /\ Onward(s, w)
        BY RawBalloc
    <3>2. Addr(ND) \in Nat
      <4>1. s.ic[k].n.addr \in [0 .. ND -> Nat] /\ ND \in 0 .. ND
          BY RawSize, Sizes
      <4>2. QED
          BY <4>1
    <3>3. QED
        BY <1>2, <3>1, <3>2
  <2> HIDE DEF m
  <2> DEFINE u == [m.s EXCEPT !.ic[k].n.addr[ND] = m.b]
  <2> DEFINE t == Read(u, m.b)
  <2>2. Onward(m.s, u)
      BY <1>3, <2>1 DEF Onward
  <2> HIDE DEF u
  <2>3. Onward(u, t)
      BY <2>2, RawRead DEF Onward
  <2>4. Onward(s, t)
      BY <2>1, <2>2, <2>3, OnwardTrans
  <2>5. Bmap(s, k, bn) = Stor(t, m.b)
      BY <1>1, <1>7 DEF u
  <2> HIDE DEF t
  <2>6. PICK w : Balloc(t) = [s |-> w, b |-> 0] /\ Onward(t, w)
      BY <2>4, RawBalloc DEF Onward
  <2>7. Stor(t, m.b).s \in {t, w}
      BY <2>6
  <2>8. QED
      BY <2>4, <2>5, <2>6, <2>7, OnwardTrans
<1>8. QED
    BY <1>4, <1>5, <1>6, <1>7

(* Transfers of data, turn by turn.                                         *)
Carrying(s, n, t) ==
    t = [s |-> t.s, ret |-> n, data |-> t.data] /\ Onward(s, t.s) /\ \E S : t.data \in Seq(S)
LEMMA RawReadBlock ==
    ASSUME NEW s, NEW n \in Int, NEW t, Carrying(s, n, t), NEW k \in Slots, NEW off \in Int, NEW bn
    PROVE  Carrying(s, n, ReadBlock(t, k, off, n, bn))
<1>1. PICK m : m = Bmap(t.s, k, bn)
    OBVIOUS
<1>2. Onward(s, m.s)
    BY <1>1, RawBmap, OnwardTrans DEF Carrying, Onward
<1>3. PICK x : x = Read(m.s, m.b)
    OBVIOUS
<1>4. Onward(s, x)
    BY <1>2, <1>3, RawRead, OnwardTrans DEF Onward
<1>5. PICK w : w = [i \in 1 .. Cardinality(Within(off, n, bn)) |->
                     m.s.img.blk[m.b][(off + Len(t.data) + i - 1) % BS]]
    OBVIOUS
<1>6. ReadBlock(t, k, off, n, bn) = [t EXCEPT !.s = x, !.data = t.data \o w]
    BY <1>1, <1>3, <1>5, Zenon DEF ReadBlock, CopyUnits
<1>7. PICK d, y : d = t.data /\ y = d \o w
    OBVIOUS
<1>8. ReadBlock(t, k, off, n, bn) = [s |-> x, ret |-> n, data |-> y]
  <2>1. PICK a, e : t = [s |-> a, ret |-> n, data |-> e]
      BY DEF Carrying
  <2>2. ReadBlock(t, k, off, n, bn) = [t EXCEPT !.s = x, !.data = y]
      BY <1>6, <1>7
  <2>3. [t EXCEPT !.s = x, !.data = y] = [s |-> x, ret |-> n, data |-> y]
    <3> SUFFICES ASSUME NEW r, r = [t EXCEPT !.s = x, !.data = y]
                 PROVE  r = [s |-> x, ret |-> n, data |-> y]
        OBVIOUS
    <3>1. QED
        BY <2>1
  <2>4. QED
      BY <2>2, <2>3
<1>9. \E S : y \in Seq(S)
  <2>1. PICK S : d \in Seq(S)
      BY <1>7 DEF Carrying
  <2>2. PICK N \in Nat : N = Cardinality(Within(off, n, bn))
      BY Counting
  <2>3. w \in Seq({w[i] : i \in 1 .. N})
    <3>1. w = [i \in 1 .. N |-> w[i]]
        BY <1>5, <2>2
    <3>2. QED
        BY <2>2, <3>1
  <2>4. d \in Seq(S \cup {w[i] : i \in 1 .. N}) /\ w \in Seq(S \cup {w[i] : i \in 1 .. N})
      BY <2>1, <2>3, SeqMonotonic
  <2>5. PICK T : d \in Seq(T) /\ w \in Seq(T)
      BY <2>4
  <2>6. y \in Seq(T)
      BY <1>7, <2>5
  <2>7. QED
      BY <2>6
<1>10. QED
    BY <1>4, <1>8, <1>9 DEF Carrying
LEMMA RawDataRead ==
    ASSUME NEW s, Raw(s), NEW k \in Slots, NEW off \in Nat, NEW cnt \in Int
    PROVE  /\ Onward(s, DataRead(s, k, off, cnt).s) /\ DataRead(s, k, off, cnt).ret \in Int
           /\ \E S : DataRead(s, k, off, cnt).data \in Seq(S)
<1>1. PICK size \in Nat : size = s.ic[k].n.size
    BY RawSize
<1>2. Onward(s, s)
    BY OnwardSelf
<1>3. <<>> \in Seq({})
    OBVIOUS
<1>4. CASE off > size
  <2>1. DataRead(s, k, off, cnt) = [s |-> s, ret |-> -1, data |-> <<>>]
      BY <1>1, <1>4 DEF DataRead
  <2>2. QED
      BY <1>2, <1>3, <2>1
<1>5. CASE ~(off > size)
  <2>1. PICK n : n = Clamp(off, cnt, size)
      OBVIOUS
  <2>2. n \in Int /\ Span(off, n) \in Nat
      BY <1>1, <1>5, <2>1, ReadRun
  <2>3. PICK g : /\ DataRead(s, k, off, cnt) = g[Span(off, n)]
                 /\ g[0] = [s |-> s, ret |-> n, data |-> <<>>]
                 /\ \A j \in 0 .. Span(off, n) - 1 :
                       /\ off \div BS + j \in Nat
                       /\ g[j + 1] = ReadBlock(g[j], k, off, n, off \div BS + j)
      BY <1>1, <1>5, <2>1, ReadRun
  <2>4. PICK N \in Nat : N = Span(off, n)
      BY <2>2
  <2> DEFINE G == {j \in 0 .. N : Carrying(s, n, g[j])}
  <2>5. 0 \in G
    <3>1. Carrying(s, n, g[0])
        BY <1>2, <1>3, <2>3 DEF Carrying
    <3>2. QED
        BY <3>1
  <2>6. ASSUME NEW j \in 0 .. N - 1, j \in G PROVE j + 1 \in G
    <3>1. j + 1 \in 0 .. N
        OBVIOUS
    <3>2. g[j + 1] = ReadBlock(g[j], k, off, n, off \div BS + j)
        BY <2>3, <2>4
    <3>3. Carrying(s, n, g[j])
        BY <2>6
    <3>4. Carrying(s, n, ReadBlock(g[j], k, off, n, off \div BS + j))
        BY <2>2, <3>3, RawReadBlock
    <3>5. QED
        BY <3>1, <3>2, <3>4
  <2> HIDE DEF G
  <2>7. N \in G
      BY <2>5, <2>6, ToTheEnd
  <2>8. Carrying(s, n, g[N])
      BY <2>7 DEF G
  <2>9. g[N].ret = n
      BY <2>8 DEF Carrying
  <2>10. QED
      BY <2>2, <2>3, <2>4, <2>8, <2>9 DEF Carrying
<1>6. QED
    BY <1>4, <1>5
LEMMA RawWriteBlock ==
    ASSUME NEW s, Raw(s), NEW k \in Slots, NEW off, NEW n, NEW bn, NEW data
    PROVE  Onward(s, WriteBlock(s, k, off, n, bn, data))
<1>1. PICK m : m = Bmap(s, k, bn)
    OBVIOUS
<1>2. Onward(s, m.s)
    BY <1>1, RawBmap
<1>3. PICK x : x = Read(m.s, m.b)
    OBVIOUS
<1>4. Onward(s, x)
    BY <1>2, <1>3, RawRead, OnwardTrans DEF Onward
<1>5. PICK im, b : im = m.s.img /\ b = m.b
    OBVIOUS
<1>6. PICK c : c = Filled(im, b, off, n, bn, data)
    OBVIOUS
<1>7. DOMAIN c = 0 .. BS - 1
    BY <1>6 DEF Filled
<1>8. PICK jm : jm = [im EXCEPT !.blk[b] = c]
    OBVIOUS
<1>9. Framed(im)
    BY <1>2, <1>5 DEF Onward, Raw
<1>10. Framed(jm)
    BY <1>7, <1>8, <1>9, RawBlock
<1>11. WriteBlock(s, k, off, n, bn, data) = Write(x, jm)
  <2>1. WriteBlock(s, k, off, n, bn, data) = FillUnits(off, n, bn, data, m)
      BY <1>1, Zenon DEF WriteBlock
  <2>2. jm = [m.s.img EXCEPT !.blk[m.b] = Filled(im, m.b, off, n, bn, data)]
      BY <1>5, <1>6, <1>8
  <2>3. FillUnits(off, n, bn, data, m) = Write(Read(m.s, m.b), jm)
      BY <1>5, <2>2, Zenon DEF FillUnits, Filled
  <2>4. QED
      BY <1>3, <2>1, <2>3, Zenon
<1>12. Onward(x, Write(x, jm))
    BY <1>4, <1>10, RawWrite DEF Onward
<1>13. QED
    BY <1>4, <1>11, <1>12, OnwardTrans
LEMMA RawDataWrite ==
    ASSUME NEW s, Raw(s), NEW k \in Slots, NEW off \in Nat, NEW data, Len(data) \in Nat
    PROVE  Onward(s, DataWrite(s, k, off, data).s) /\ DataWrite(s, k, off, data).ret \in Int
<1>1. PICK size \in Nat : size = s.ic[k].n.size
    BY RawSize
<1>2. Onward(s, s)
    BY OnwardSelf
<1>3. CASE off > size
  <2>1. DataWrite(s, k, off, data) = [s |-> s, ret |-> -1]
      BY <1>1, <1>3 DEF DataWrite
  <2>2. QED
      BY <1>2, <2>1
<1>4. CASE ~(off > size)
  <2> DEFINE n == Clamp(off, Len(data), s.ic[k].n.size)
  <2>1. s.ic[k].n.size \in Nat /\ ~(off > s.ic[k].n.size)
      BY <1>1, <1>4
  <2>2. /\ n \in Int /\ n <= Len(data) /\ Span(off, n) \in Nat
        /\ \E g : /\ DataWrite(s, k, off, data) = [s |-> g[Span(off, n)], ret |-> n]
                  /\ g[0] = s
                  /\ \A j \in 0 .. Span(off, n) - 1 :
                        /\ off \div BS + j \in Nat
                        /\ g[j + 1] = WriteBlock(g[j], k, off, n, off \div BS + j, data)
      BY <2>1, WriteRun
  <2> HIDE DEF n
  <2>3. PICK g : /\ DataWrite(s, k, off, data) = [s |-> g[Span(off, n)], ret |-> n]
                 /\ g[0] = s
                 /\ \A j \in 0 .. Span(off, n) - 1 :
                       /\ off \div BS + j \in Nat
                       /\ g[j + 1] = WriteBlock(g[j], k, off, n, off \div BS + j, data)
      BY <2>2
  <2>4. PICK N \in Nat : N = Span(off, n)
      BY <2>2
  <2> DEFINE G == {j \in 0 .. N : Onward(s, g[j])}
  <2>5. 0 \in G
      BY <1>2, <2>3
  <2>6. ASSUME NEW j \in 0 .. N - 1, j \in G PROVE j + 1 \in G
    <3>1. j + 1 \in 0 .. N
        OBVIOUS
    <3>2. g[j + 1] = WriteBlock(g[j], k, off, n, off \div BS + j, data)
        BY <2>3, <2>4
    <3>3. Onward(s, g[j]) /\ Raw(g[j])
        BY <2>6 DEF Onward
    <3>4. Onward(g[j], WriteBlock(g[j], k, off, n, off \div BS + j, data))
        BY <3>3, RawWriteBlock
    <3>5. Onward(s, g[j + 1])
        BY <3>2, <3>3, <3>4, OnwardTrans
    <3>6. QED
        BY <3>1, <3>5
  <2> HIDE DEF G
  <2>7. N \in G
      BY <2>5, <2>6, ToTheEnd
  <2>8. Onward(s, g[N])
      BY <2>7 DEF G
  <2>9. QED
      BY <2>2, <2>3, <2>4, <2>8
<1>5. QED
    BY <1>3, <1>4

(* References and inodes.                                                   *)
LEMMA RawDup ==
    ASSUME NEW s, Raw(s), NEW k \in Slots, s.ic[k].idx \in Inodes
    PROVE  Onward(s, Dup(s, k)) /\ Dup(s, k).ok = s.ok
<1>1. PICK e : e = [s.ic[k] EXCEPT !.ref = (@ + 1) % RefMod]
    OBVIOUS
<1>2. PICK o : o = (s.over \/ s.ic[k].ref + 1 = RefMod)
    OBVIOUS
<1>3. s.ic[k] \in [ref : 0 .. RefMod - 1, idx : Inodes \cup {0}, n : InodeSet]
    BY DEF Raw, Caches
<1>4. e \in [ref : 0 .. RefMod - 1, idx : Inodes \cup {0}, n : InodeSet] /\ e.idx = s.ic[k].idx
  <2>1. s.ic[k].ref \in Int /\ (s.ic[k].ref + 1) % RefMod \in 0 .. RefMod - 1
      BY <1>3, CacheSizes
  <2>2. e = [s.ic[k] EXCEPT !.ref = (s.ic[k].ref + 1) % RefMod]
      BY <1>1
  <2>3. PICK x \in 0 .. RefMod - 1 : x = (s.ic[k].ref + 1) % RefMod
      BY <2>1
  <2>4. e = [s.ic[k] EXCEPT !.ref = x]
      BY <2>2, <2>3
  <2>5. QED
      BY <1>3, <2>4
<1>5. PICK r : r = [s EXCEPT !.ic[k] = e]
    OBVIOUS
<1>6. Onward(s, r) /\ r.ok = s.ok
    BY <1>4, <1>5, RawSlot
<1>7. Dup(s, k) = [r EXCEPT !.over = o]
  <2>1. Dup(s, k) = [s EXCEPT !.ic[k] = e, !.over = o]
    <3>1. s.over = [s EXCEPT !.ic[k].ref = (@ + 1) % RefMod].over
        BY DEF Raw, Fields
    <3>2. QED
        BY <1>1, <1>2, <3>1 DEF Dup
  <2>2. QED
      BY <1>5, <2>1
<1>8. [r EXCEPT !.over = o] = [img |-> r.img, cached |-> r.cached, ic |-> r.ic, ok |-> r.ok,
                               log |-> r.log, over |-> o]
    BY <1>6 DEF Onward, Raw, Fields
<1>9. PICK t : t = Dup(s, k)
    OBVIOUS
<1>10. /\ Fields(t) /\ t.img = r.img /\ t.ic = r.ic /\ t.log = r.log /\ t.ok = r.ok
       /\ t.over = o
    BY <1>7, <1>8, <1>9 DEF Fields
<1>11. Raw(t)
    BY <1>6, <1>10 DEF Onward, Raw
<1>12. s.over => t.over
    BY <1>2, <1>10
<1>13. QED
    BY <1>6, <1>9, <1>10, <1>11, <1>12 DEF Onward

(* tinyfs_geti.                                                             *)
Slotful(s, r) ==
    /\ r = [s |-> r.s, k |-> r.k] /\ Onward(s, r.s) /\ r.k \in Slots \cup {0}
    /\ r.s.ok => r.k \in Slots
LEMMA RawGeti ==
    ASSUME NEW s, Raw(s), NEW idx
    PROVE  /\ Slotful(s, Geti(s, idx))
           /\ Geti(s, idx).s.ok => Geti(s, idx).s.ic[Geti(s, idx).k].idx \in Inodes
<1> DEFINE hit == {k \in Slots : s.ic[k].ref # 0 /\ s.ic[k].idx = idx}
<1> DEFINE free == {k \in Slots : s.ic[k].ref = 0}
<1> DEFINE h == CHOOSE k \in hit : \A j \in hit : k <= j
<1> DEFINE g == CHOOSE k \in free : \A j \in free : k <= j
<1> DEFINE e == [ref |-> 1, idx |-> idx, n |-> [s.ic[g].n EXCEPT !.type = 0, !.major = 0]]
<1>1. Geti(s, idx) =
        IF hit # {} THEN [s |-> Dup(s, h), k |-> h]
        ELSE IF free = {} \/ idx \notin Inodes THEN [s |-> Fail(s), k |-> 0]
        ELSE [k |-> g, s |-> [s EXCEPT !.ic[g] = e]]
    BY Zenon DEF Geti
<1>2. CASE hit # {}
  <2>1. h \in hit
      BY <1>2, FirstSlot
  <2> HIDE DEF h
  <2>2. h \in Slots /\ s.ic[h].idx \in Inodes
      BY <2>1 DEF Raw, Named
  <2>3. PICK t : t = Dup(s, h)
      OBVIOUS
  <2>4. Onward(s, t)
      BY <2>2, <2>3, RawDup
  <2>5. Geti(s, idx) = [s |-> t, k |-> h]
      BY <1>1, <1>2, <2>3
  <2>6. QED
      BY <2>2, <2>4, <2>5 DEF Slotful, Onward
<1>3. CASE hit = {} /\ (free = {} \/ idx \notin Inodes)
  <2>1. PICK f : f = Fail(s)
      OBVIOUS
  <2>2. Geti(s, idx) = [s |-> f, k |-> 0]
      BY <1>1, <1>3, <2>1
  <2>3. Onward(s, f) /\ f.ok = FALSE
      BY <2>1, RawFail
  <2>4. QED
      BY <2>2, <2>3 DEF Slotful
<1>4. CASE hit = {} /\ free # {} /\ idx \in Inodes
  <2>1. g \in Slots
    <3>1. g \in free
        BY <1>4, FirstSlot
    <3>2. QED
        BY <3>1
  <2> HIDE DEF g
  <2>2. e \in [ref : 0 .. RefMod - 1, idx : Inodes \cup {0}, n : InodeSet]
    <3>1. s.ic[g].n \in InodeSet
        BY <2>1, RawSize
    <3>2. ASSUME NEW n \in InodeSet PROVE [n EXCEPT !.type = 0, !.major = 0] \in InodeSet
      <4>1. [n EXCEPT !.type = 0] \in InodeSet
          BY 0 \in 0 .. 3 DEF InodeSet
      <4>2. \A m \in InodeSet : [m EXCEPT !.major = 0] \in InodeSet
          BY DEF InodeSet
      <4>3. QED
          BY <4>1, <4>2
    <3>3. 1 \in 0 .. RefMod - 1
        BY CacheSizes
    <3>4. QED
        BY <1>4, <3>1, <3>2, <3>3
  <2>3. e.idx \in Inodes
      BY <1>4
  <2> HIDE DEF e
  <2>4. PICK t : t = [s EXCEPT !.ic[g] = e]
      OBVIOUS
  <2>5. Onward(s, t) /\ t.ic[g] = e
      BY <2>1, <2>2, <2>3, <2>4, RawSlot
  <2>6. Geti(s, idx) = [k |-> g, s |-> t]
      BY <1>1, <1>4, <2>4 DEF g, e
  <2>7. QED
      BY <2>1, <2>3, <2>5, <2>6 DEF Slotful
<1>5. QED
    BY <1>2, <1>3, <1>4

(* meta_readi, and both.                                                    *)
LEMMA RawMetaRead ==
    ASSUME NEW s, Raw(s), NEW k, s.ok => k \in Slots /\ s.ic[k].idx \in Inodes
    PROVE  Onward(s, MetaRead(s, k)) /\ (MetaRead(s, k).ok => s.ok)
<1>1. CASE ~s.ok
    BY <1>1, OnwardSelf DEF MetaRead
<1>2. CASE s.ok
  <2>1. PICK v \in InodeSet : v = s.img.ino[s.ic[k].idx]
      BY <1>2 DEF Raw, Framed
  <2>2. PICK x : x = Read(s, IBlock(s.ic[k].idx))
      OBVIOUS
  <2>3. Onward(s, x)
      BY <2>2, RawRead
  <2>4. PICK t : t = [x EXCEPT !.ic[k].n = v]
      OBVIOUS
  <2>5. Onward(x, t)
      BY <1>2, <2>3, <2>4, RawInode DEF Onward
  <2>6. MetaRead(s, k) = t
      BY <1>2, <2>1, <2>2, <2>4 DEF MetaRead
  <2>7. QED
      BY <1>2, <2>3, <2>5, <2>6, OnwardTrans
<1>3. QED
    BY <1>1, <1>2
LEMMA RawGetInode ==
    ASSUME NEW s, Raw(s), NEW idx
    PROVE  /\ Slotful(s, GetInode(s, idx))
           /\ GetInode(s, idx).s.ok => GetInode(s, idx).s.ic[GetInode(s, idx).k].idx \in Inodes
           /\ Geti(s, idx).s.over => GetInode(s, idx).s.over
<1>1. PICK g : g = Geti(s, idx)
    OBVIOUS
<1>2. Slotful(s, g) /\ (g.s.ok => g.s.ic[g.k].idx \in Inodes)
    BY <1>1, RawGeti
<1>3. PICK a, b : g = [s |-> a, k |-> b]
    BY <1>2 DEF Slotful
<1>4. PICK t : t = MetaRead(a, b)
    OBVIOUS
<1>5. Onward(a, t) /\ (t.ok => a.ok)
  <2>1. Raw(a) /\ (a.ok => b \in Slots /\ a.ic[b].idx \in Inodes)
      BY <1>2, <1>3 DEF Slotful, Onward
  <2>2. QED
      BY <1>4, <2>1, RawMetaRead
<1>6. GetInode(s, idx) = [s |-> t, k |-> b]
  <2>1. GetInode(s, idx) = [g EXCEPT !.s = MetaRead(g.s, g.k)]
      BY <1>1 DEF GetInode
  <2>2. MetaRead(g.s, g.k) = t
      BY <1>3, <1>4
  <2>3. [g EXCEPT !.s = t] = [s |-> t, k |-> b]
      BY <1>3
  <2>4. QED
      BY <2>1, <2>2, <2>3
<1>7. PICK r : r = GetInode(s, idx)
    OBVIOUS
<1>8. r = [s |-> t, k |-> b] /\ r.s = t /\ r.k = b
    BY <1>6, <1>7
<1>9. Slotful(s, r)
    BY <1>2, <1>3, <1>5, <1>8, OnwardTrans DEF Slotful
<1>10. r.s.ok => r.s.ic[r.k].idx \in Inodes
    BY <1>2, <1>3, <1>5, <1>8 DEF Onward, Slotful
<1>11. QED
    BY <1>1, <1>3, <1>5, <1>7, <1>8, <1>9, <1>10 DEF Onward
LEMMA RawMetaWrite ==
    ASSUME NEW s, Raw(s), NEW k \in Slots
    PROVE  Onward(s, MetaWrite(s, k)) /\ MetaWrite(s, k).ic = s.ic
<1>1. PICK i, v : i = s.ic[k].idx /\ v = s.ic[k].n
    OBVIOUS
<1>2. v \in InodeSet
    BY <1>1, RawSize
<1>3. PICK r : r = Read(s, IBlock(i))
    OBVIOUS
<1>4. Onward(s, r) /\ r.ic = s.ic
    BY <1>3, RawRead
<1>5. PICK im : im = r.img
    OBVIOUS
<1>6. PICK jm : jm = [im EXCEPT !.ino[i] = v]
    OBVIOUS
<1>7. Framed(jm)
    BY <1>2, <1>4, <1>5, <1>6, RawIno DEF Onward, Raw
<1>8. MetaWrite(s, k) = Write(r, jm)
    BY <1>1, <1>3, <1>5, <1>6 DEF MetaWrite
<1>9. Onward(r, Write(r, jm)) /\ Write(r, jm).ic = r.ic
    BY <1>4, <1>7, RawWrite DEF Onward
<1>10. QED
    BY <1>4, <1>8, <1>9, OnwardTrans

(* The search for a free inode, and taking it.                              *)
LEMMA RawSearch ==
    ASSUME NEW s, Raw(s), NEW N \in Nat
    PROVE  Onward(s, Iterate(LAMBDA t, j : Read(t, IBlock(j + 1)), s, N))
<1> DEFINE Do(t, j) == Read(t, IBlock(j + 1))
<1> DEFINE g == CHOOSE at : at = [i \in 0 .. N |-> IF i = 0 THEN s ELSE Do(at[i - 1], i - 1)]
<1>1. Iterate(LAMBDA t, j : Read(t, IBlock(j + 1)), s, N) = g[N]
    BY Zenon DEF Iterate
<1>2. PICK f : f = [i \in 0 .. N |-> IF i = 0 THEN s ELSE Do(f[i - 1], i - 1)]
  <2> DEFINE c == [kind |-> "inodes"]
  <2>1. \A t, i : Turn(c, t, i) = Do(t, i)
      BY DEF Turn
  <2> HIDE DEF Do, c
  <2>2. PICK f : IsRun(f, c, s, N)
      BY Runs
  <2>3. f = [i \in 0 .. N |-> IF i = 0 THEN s ELSE Do(f[i - 1], i - 1)]
      BY <2>1, <2>2 DEF IsRun
  <2>4. QED
      BY <2>3
<1>3. g = [i \in 0 .. N |-> IF i = 0 THEN s ELSE Do(g[i - 1], i - 1)]
    BY <1>2
<1> HIDE DEF g, Do
<1>4. \A i \in 0 .. N : g[i] = IF i = 0 THEN s ELSE Do(g[i - 1], i - 1)
    BY <1>3
<1> DEFINE G == {i \in 0 .. N : Onward(s, g[i])}
<1>5. 0 \in G
    BY <1>4, OnwardSelf
<1>6. ASSUME NEW j \in 0 .. N - 1, j \in G PROVE j + 1 \in G
  <2>1. j + 1 \in 0 .. N /\ j + 1 - 1 = j /\ j + 1 # 0
      OBVIOUS
  <2>2. g[j + 1] = Do(g[j], j)
      BY <1>4, <2>1
  <2>3. Onward(s, g[j]) /\ Raw(g[j])
      BY <1>6 DEF Onward
  <2>4. Onward(g[j], Do(g[j], j))
      BY <2>3, RawRead DEF Do
  <2>5. Onward(s, g[j + 1])
      BY <2>2, <2>3, <2>4, OnwardTrans
  <2>6. QED
      BY <2>1, <2>5
<1> HIDE DEF G
<1>7. N \in G
    BY <1>5, <1>6, ToTheEnd
<1>8. QED
    BY <1>1, <1>7 DEF G
LEMMA RawAlloci ==
    ASSUME NEW s, Raw(s), NEW type \in {T_FILE, T_DEV}, NEW major \in Nat
    PROVE  Slotful(s, Alloci(s, type, major))
<1> DEFINE free == {i \in Inodes : s.img.ino[i].type = 0}
<1> DEFINE i == CHOOSE i \in free : \A j \in free : i <= j
<1> DEFINE r == Iterate(LAMBDA t, j : Read(t, IBlock(j + 1)), s, i)
<1> DEFINE im == [r.img EXCEPT !.ino[i] = NewInode(type, major)]
<1>1. Alloci(s, type, major) = IF free = {} THEN [s |-> Fail(s), k |-> 0]
                               ELSE GetInode(Write(r, im), i)
    BY DEF Alloci
<1>2. CASE free = {}
  <2>1. PICK f : f = Fail(s)
      OBVIOUS
  <2>2. Alloci(s, type, major) = [s |-> f, k |-> 0]
      BY <1>1, <1>2, <2>1
  <2>3. Onward(s, f) /\ f.ok = FALSE
      BY <2>1, RawFail
  <2>4. QED
      BY <2>2, <2>3 DEF Slotful
<1>3. CASE free # {}
  <2>1. i \in Nat
    <3>1. free \in SUBSET Nat
        BY DEF Inodes
    <3>2. \E x \in free : \A j \in free : x <= j
        BY <1>3, <3>1, Least
    <3>3. QED
        BY <3>1, <3>2
  <2> HIDE DEF i, free
  <2>2. Onward(s, r)
      BY <2>1, RawSearch
  <2> HIDE DEF r
  <2>3. NewInode(type, major) \in InodeSet
    <3>1. [x \in 0 .. ND |-> 0] \in [0 .. ND -> Nat] /\ type \in 0 .. 3
        BY DEF T_FILE, T_DEV
    <3>2. QED
        BY <3>1 DEF NewInode, InodeSet
  <2>4. Framed(im)
    <3>1. PICK v \in InodeSet : v = NewInode(type, major)
        BY <2>3
    <3>2. PICK jm : jm = r.img
        OBVIOUS
    <3>3. Framed(jm)
        BY <2>2, <3>2 DEF Onward, Raw
    <3>4. im = [jm EXCEPT !.ino[i] = v]
        BY <3>1, <3>2
    <3>5. QED
        BY <3>3, <3>4, RawIno
  <2> HIDE DEF im
  <2>5. Onward(s, Write(r, im))
      BY <2>2, <2>4, RawWrite, OnwardTrans DEF Onward
  <2>6. Slotful(Write(r, im), GetInode(Write(r, im), i))
      BY <2>5, RawGetInode DEF Onward
  <2>7. QED
      BY <1>1, <1>3, <2>5, <2>6, OnwardTrans DEF Slotful
<1>4. QED
    BY <1>2, <1>3

(* Directories and paths.                                                   *)
Ahead(s, r) == r = [s |-> r.s, k |-> r.k] /\ Onward(s, r.s) /\ r.k \in Slots \cup {0}
LEMMA AheadOn ==
    ASSUME NEW s, NEW t, NEW r, Onward(s, t), Ahead(t, r)
    PROVE  Ahead(s, r)
    BY OnwardTrans DEF Ahead
LEMMA RawLookup ==
    ASSUME NEW s, Raw(s), NEW k \in Slots, NEW name
    PROVE  Ahead(s, Lookup(s, k, name))
<1>1. PICK size \in Nat : size = s.ic[k].n.size
    BY RawSize
<1>2. PICK r : r = DataRead(s, k, 0, size)
    OBVIOUS
<1>3. Onward(s, r.s) /\ \E S : r.data \in Seq(S)
    BY <1>1, <1>2, RawDataRead
<1>4. PICK at \in Nat : at = FirstMatch(r.data, name)
    BY <1>3, StopsAt DEF StopAt
<1>5. PICK q, i : q = DataRead(s, k, 0, at + 1).s /\ i = r.data[at + 1][1]
    OBVIOUS
<1>6. Onward(s, q)
    BY <1>5, RawDataRead
<1>7. Lookup(s, k, name) = IF at = size THEN [s |-> r.s, k |-> 0] ELSE GetInode(q, i)
    BY <1>1, <1>2, <1>4, <1>5 DEF Lookup
<1>8. CASE at = size
  <2>1. PICK a : a = r.s
      OBVIOUS
  <2>2. Lookup(s, k, name) = [s |-> a, k |-> 0]
      BY <1>7, <1>8, <2>1
  <2>3. QED
      BY <1>3, <2>1, <2>2 DEF Ahead
<1>9. CASE at # size
  <2>1. Slotful(q, GetInode(q, i))
      BY <1>6, RawGetInode DEF Onward
  <2>2. Ahead(q, GetInode(q, i))
      BY <2>1 DEF Slotful, Ahead
  <2>3. QED
      BY <1>6, <1>7, <1>9, <2>2, AheadOn
<1>10. QED
    BY <1>8, <1>9
LEMMA RawLink ==
    ASSUME NEW s, Raw(s), NEW k \in Slots, NEW idx, NEW name
    PROVE  Onward(s, Link(s, k, idx, name))
<1>1. PICK size \in Nat : size = s.ic[k].n.size
    BY RawSize
<1>2. PICK r : r = DataRead(s, k, 0, size)
    OBVIOUS
<1>3. Onward(s, r.s) /\ \E S : r.data \in Seq(S)
    BY <1>1, <1>2, RawDataRead
<1>4. PICK at \in Nat : at = FirstFree(r.data)
  <2>1. PICK S : r.data \in Seq(S)
      BY <1>3
  <2>2. StopAt(r.data, {i \in 1 .. Len(r.data) : r.data[i][1] = 0}, FirstFree(r.data))
      BY <2>1, StopsAt
  <2>3. Len(r.data) \in Nat
      BY <2>1
  <2>4. FirstFree(r.data) \in Nat
      BY <2>2, <2>3 DEF StopAt
  <2>5. QED
      BY <2>4
<1>5. PICK q, w : q = DataRead(s, k, 0, at + 1).s /\ w = r.s
    OBVIOUS
<1>6. Onward(s, q) /\ Onward(s, w)
  <2>1. 0 \in Nat /\ at + 1 \in Int
      OBVIOUS
  <2>2. Onward(s, DataRead(s, k, 0, at + 1).s)
      BY <2>1, RawDataRead
  <2>3. QED
      BY <1>3, <1>5, <2>2
<1>7. PICK g : g = [w EXCEPT !.ic[k].n.size = @ + 1]
    OBVIOUS
<1>8. Onward(s, g)
  <2>1. PICK n, v : n = w.ic[k].n /\ v = [n EXCEPT !.size = @ + 1]
      OBVIOUS
  <2>2. n \in InodeSet /\ n.size \in Nat
      BY <1>6, <2>1, RawSize DEF Onward
  <2>3. v \in InodeSet
    <3>1. PICK z \in Nat : z = n.size + 1
        BY <2>2
    <3>2. v = [n EXCEPT !.size = z]
        BY <2>1, <3>1
    <3>3. QED
        BY <2>2, <3>2 DEF InodeSet
  <2>4. g = [w EXCEPT !.ic[k].n = v]
      BY <1>7, <2>1
  <2>5. QED
      BY <1>6, <2>3, <2>4, RawInode, OnwardTrans DEF Onward
<1>9. PICK m : m = IF at = size THEN g ELSE q
    OBVIOUS
<1>10. Onward(s, m)
    BY <1>6, <1>8, <1>9
<1>11. PICK e : e = << <<idx, name>> >>
    OBVIOUS
<1>12. Len(e) \in Nat
    BY <1>11
<1>13. PICK u : u = DataWrite(m, k, at, e).s
    OBVIOUS
<1>14. Onward(s, u)
    BY <1>10, <1>12, <1>13, RawDataWrite, OnwardTrans DEF Onward
<1>15. Link(s, k, idx, name) = [u EXCEPT !.ic[k].n.n_link = @ + 1]
  <2>1. m = IF at = size THEN [DataRead(s, k, 0, size).s EXCEPT !.ic[k].n.size = @ + 1]
            ELSE DataRead(s, k, 0, at + 1).s
      BY <1>2, <1>5, <1>7, <1>9
  <2>2. u = DataWrite(IF at = size THEN [DataRead(s, k, 0, size).s EXCEPT !.ic[k].n.size = @ + 1]
                      ELSE DataRead(s, k, 0, at + 1).s, k, at, << <<idx, name>> >>).s
      BY <1>11, <1>13, <2>1
  <2>3. at = FirstFree(DataRead(s, k, 0, size).data)
      BY <1>2, <1>4
  <2>4. QED
      BY <1>1, <2>2, <2>3, Zenon DEF Link
<1>16. Onward(s, [u EXCEPT !.ic[k].n.n_link = @ + 1])
  <2>1. PICK n, v : n = u.ic[k].n /\ v = [n EXCEPT !.n_link = @ + 1]
      OBVIOUS
  <2>2. n \in InodeSet /\ n.n_link \in Nat
      BY <1>14, <2>1, RawSize DEF Onward
  <2>3. v \in InodeSet
    <3>1. PICK z \in Nat : z = n.n_link + 1
        BY <2>2
    <3>2. v = [n EXCEPT !.n_link = z]
        BY <2>1, <3>1
    <3>3. QED
        BY <2>2, <3>2 DEF InodeSet
  <2>4. [u EXCEPT !.ic[k].n.n_link = @ + 1] = [u EXCEPT !.ic[k].n = v]
      BY <2>1
  <2>5. QED
      BY <1>14, <2>3, <2>4, RawInode, OnwardTrans DEF Onward
<1>17. QED
    BY <1>15, <1>16
LEMMA RawComponent ==
    ASSUME NEW s, NEW t, Ahead(s, t), NEW name
    PROVE  Ahead(s, Component(t, name)) /\ (t.s.over => Component(t, name).s.over)
<1>1. CASE t.k = 0 \/ ~t.s.ok
    BY <1>1 DEF Component
<1>2. CASE ~(t.k = 0 \/ ~t.s.ok) /\ t.s.ic[t.k].n.type # T_DIR
  <2>1. PICK a : a = t.s
      OBVIOUS
  <2>2. Component(t, name) = [s |-> a, k |-> 0]
      BY <1>2, <2>1 DEF Component
  <2>3. QED
      BY <2>1, <2>2 DEF Ahead
<1>3. CASE ~(t.k = 0 \/ ~t.s.ok) /\ t.s.ic[t.k].n.type = T_DIR
  <2>1. Component(t, name) = Lookup(t.s, t.k, name)
      BY <1>3 DEF Component
  <2>2. Raw(t.s) /\ t.k \in Slots
      BY <1>3 DEF Ahead, Onward
  <2>3. Ahead(t.s, Lookup(t.s, t.k, name))
      BY <2>2, RawLookup
  <2>4. QED
      BY <2>1, <2>3, AheadOn DEF Ahead, Onward
<1>4. QED
    BY <1>1, <1>2, <1>3

(* The turns of namex.                                                      *)
IsWalk(g, s, start, path) ==
    /\ Walk(s, start, path) = g[Len(path)]
    /\ g[0] = [s |-> Dup(s, start), k |-> start]
    /\ \A j \in 0 .. Len(path) - 1 : g[j + 1] = Component(g[j], path[j + 1])
LEMMA WalkRun ==
    ASSUME NEW s, NEW start, NEW path, Len(path) \in Nat
    PROVE  \E g : IsWalk(g, s, start, path)
<1> DEFINE Do(t, i) == Component(t, path[i + 1])
<1> DEFINE N == Len(path)
<1> DEFINE a == [s |-> Dup(s, start), k |-> start]
<1> DEFINE g == CHOOSE at : at = [i \in 0 .. N |-> IF i = 0 THEN a ELSE Do(at[i - 1], i - 1)]
<1>1. Walk(s, start, path) = g[N]
    BY Zenon DEF Walk, Iterate
<1>2. N \in Nat
    OBVIOUS
<1> HIDE DEF N
<1>3. PICK f : f = [i \in 0 .. N |-> IF i = 0 THEN a ELSE Do(f[i - 1], i - 1)]
  <2> DEFINE c == [kind |-> "path", path |-> path]
  <2>1. \A t, i : Turn(c, t, i) = Do(t, i)
      BY DEF Turn
  <2> HIDE DEF Do, c, a
  <2>2. PICK f : IsRun(f, c, a, N)
      BY <1>2, Runs
  <2>3. f = [i \in 0 .. N |-> IF i = 0 THEN a ELSE Do(f[i - 1], i - 1)]
      BY <2>1, <2>2 DEF IsRun
  <2>4. QED
      BY <2>3
<1>4. g = [i \in 0 .. N |-> IF i = 0 THEN a ELSE Do(g[i - 1], i - 1)]
    BY <1>3
<1> HIDE DEF g, Do
<1>5. \A i \in 0 .. N : g[i] = IF i = 0 THEN a ELSE Do(g[i - 1], i - 1)
    BY <1>4
<1>6. g[0] = a
    BY <1>2, <1>5
<1>7. ASSUME NEW j \in 0 .. N - 1 PROVE g[j + 1] = Do(g[j], j)
  <2>1. j + 1 \in 0 .. N /\ j + 1 - 1 = j /\ j + 1 # 0
      BY <1>2
  <2>2. QED
      BY <1>5, <2>1
<1>8. QED
    BY <1>1, <1>6, <1>7, Zenon DEF Do, N, IsWalk
LEMMA RawWalk ==
    ASSUME NEW s, Raw(s), NEW start \in Slots, s.ic[start].idx \in Inodes,
           NEW path, Len(path) \in Nat
    PROVE  Ahead(s, Walk(s, start, path))
<1>1. PICK g : IsWalk(g, s, start, path)
    BY WalkRun
<1>2. PICK N \in Nat : N = Len(path)
    OBVIOUS
<1> DEFINE G == {i \in 0 .. N : Ahead(s, g[i])}
<1>3. 0 \in G
  <2>1. PICK d : d = Dup(s, start)
      OBVIOUS
  <2>2. Onward(s, d)
      BY <2>1, RawDup
  <2>3. g[0] = [s |-> d, k |-> start]
      BY <1>1, <2>1 DEF IsWalk
  <2>4. Ahead(s, g[0])
      BY <2>2, <2>3 DEF Ahead
  <2>5. QED
      BY <2>4
<1>4. ASSUME NEW j \in 0 .. N - 1, j \in G PROVE j + 1 \in G
  <2>1. j + 1 \in 0 .. N /\ g[j + 1] = Component(g[j], path[j + 1])
      BY <1>1, <1>2 DEF IsWalk
  <2>2. Ahead(s, g[j])
      BY <1>4
  <2>3. QED
      BY <2>1, <2>2, RawComponent
<1> HIDE DEF G
<1>5. N \in G
    BY <1>3, <1>4, ToTheEnd
<1>6. QED
    BY <1>1, <1>2, <1>5 DEF G, IsWalk
LEMMA RawWalkParent ==
    ASSUME NEW s, Raw(s), NEW start \in Slots, s.ic[start].idx \in Inodes,
           NEW path, Len(Front(path)) \in Nat
    PROVE  /\ Ahead(s, WalkParent(s, start, path))
           /\ WalkParent(s, start, path).s = Walk(s, start, Front(path)).s
<1>1. PICK w : w = Walk(s, start, Front(path))
    OBVIOUS
<1>2. Ahead(s, w)
    BY <1>1, RawWalk
<1>3. PICK a, b : w = [s |-> a, k |-> b]
    BY <1>2 DEF Ahead
<1>4. WalkParent(s, start, path) \in {w, [w EXCEPT !.k = 0]}
    BY <1>1 DEF WalkParent
<1>5. [w EXCEPT !.k = 0] = [s |-> a, k |-> 0]
    BY <1>3
<1>6. QED
    BY <1>1, <1>2, <1>3, <1>4, <1>5 DEF Ahead

(* do_createi, and what it has found on the way.                            *)
LEMMA RawCreateI ==
    ASSUME NEW s, Raw(s), NEW start \in Slots, s.ic[start].idx \in Inodes,
           NEW path, Len(Front(path)) \in Nat, NEW type \in {T_FILE, T_DEV}, NEW major \in Nat,
           NEW dp, dp = WalkParent(s, start, path),
           NEW old, old = Lookup(dp.s, dp.k, Last(path)),
           NEW new, new = Alloci(old.s, type, major),
           NEW r, r = CreateI(s, start, path, type, major)
    PROVE  /\ Ahead(s, r) /\ (dp.s.over => r.s.over)
           /\ dp.k # 0 /\ dp.s.ok => (old.s.over => r.s.over)
           /\ dp.k # 0 /\ dp.s.ok /\ old.s.ok /\ old.k = 0 => (new.s.over => r.s.over)
<1> DEFINE t == Link(new.s, dp.k, new.s.ic[new.k].idx, Last(path))
<1> DEFINE t1 == MetaWrite(t, new.k)
<1> DEFINE t2 == MetaWrite(t1, dp.k)
<1> DEFINE kept == IF type = T_FILE /\ old.s.ic[old.k].n.type = T_FILE THEN old.k ELSE 0
<1>1. r = IF dp.k = 0 \/ ~dp.s.ok THEN dp
          ELSE IF ~old.s.ok THEN old
          ELSE IF old.k # 0 THEN [old EXCEPT !.k = kept]
          ELSE IF ~new.s.ok THEN new
          ELSE [s |-> t2, k |-> new.k]
    BY Zenon DEF CreateI
<1>2. Ahead(s, dp)
    BY RawWalkParent
<1>3. CASE dp.k = 0 \/ ~dp.s.ok
    BY <1>1, <1>2, <1>3
<1>4. CASE ~(dp.k = 0 \/ ~dp.s.ok)
  <2>1. dp.k \in Slots /\ Raw(dp.s)
      BY <1>2, <1>4 DEF Ahead, Onward
  <2>2. Ahead(dp.s, old)
      BY <2>1, RawLookup
  <2>3. Ahead(s, old) /\ Raw(old.s) /\ (dp.s.over => old.s.over)
      BY <1>2, <2>2, AheadOn DEF Ahead, Onward
  <2>4. CASE ~old.s.ok
      BY <1>1, <1>4, <2>3, <2>4
  <2>5. CASE old.s.ok /\ old.k # 0
    <3>1. PICK a, b : old = [s |-> a, k |-> b]
        BY <2>2 DEF Ahead
    <3>2. kept \in Slots \cup {0}
        BY <2>2 DEF Ahead
    <3> HIDE DEF kept
    <3>3. [old EXCEPT !.k = kept] = [s |-> a, k |-> kept]
        BY <3>1
    <3>4. r = [s |-> a, k |-> kept]
        BY <1>1, <1>4, <2>5, <3>3
    <3>5. r.s = old.s /\ Ahead(s, r)
        BY <2>3, <3>1, <3>2, <3>4 DEF Ahead
    <3>6. QED
        BY <2>3, <2>5, <3>5
  <2>6. CASE old.s.ok /\ old.k = 0
    <3>1. Slotful(old.s, new)
        BY <2>3, RawAlloci
    <3>2. Onward(s, new.s) /\ Raw(new.s) /\ (old.s.over => new.s.over)
        BY <2>3, <3>1, OnwardTrans DEF Ahead, Slotful, Onward
    <3>3. CASE ~new.s.ok
      <4>1. r = new
          BY <1>1, <1>4, <2>6, <3>3
      <4>2. Ahead(s, new)
          BY <3>1, <3>2 DEF Ahead, Slotful
      <4>3. QED
          BY <2>3, <3>2, <4>1, <4>2
    <3>4. CASE new.s.ok
      <4>1. new.k \in Slots
          BY <3>1, <3>4 DEF Slotful
      <4>2. Onward(new.s, t)
          BY <2>1, <3>2, RawLink
      <4> HIDE DEF t
      <4>3. Onward(t, t1)
          BY <4>1, <4>2, RawMetaWrite DEF Onward
      <4> HIDE DEF t1
      <4>4. Onward(t1, t2)
          BY <2>1, <4>3, RawMetaWrite DEF Onward
      <4> HIDE DEF t2
      <4>5. Onward(new.s, t2)
          BY <4>2, <4>3, <4>4, OnwardTrans
      <4>6. Onward(s, t2) /\ (new.s.over => t2.over)
          BY <3>2, <4>5, OnwardTrans DEF Onward
      <4>7. PICK n : n = new.k
          OBVIOUS
      <4>8. r = [s |-> t2, k |-> n]
          BY <1>1, <1>4, <2>6, <3>4, <4>7
      <4>9. Ahead(s, r) /\ r.s = t2
          BY <4>1, <4>6, <4>7, <4>8 DEF Ahead
      <4>10. QED
          BY <2>3, <3>2, <4>6, <4>9
    <3>5. QED
        BY <3>3, <3>4
  <2>7. QED
      BY <2>4, <2>5, <2>6
<1>5. QED
    BY <1>3, <1>4

(* Where the disk is good, only the numbers in the cache are wanted.          *)
LEMMA GoodFramed == ASSUME NEW im \in Images PROVE Framed(im)
<1>1. /\ im = [magic |-> im.magic, bits |-> im.bits, ino |-> im.ino, blk |-> im.blk]
      /\ im.ino \in [Inodes -> InodeSet]
      /\ im.blk \in [Blocks -> [0 .. BS - 1 -> Nat \X Texts]]
    BY DEF Images
<1>2. QED
    BY <1>1 DEF Framed
LEMMA StateRaw == ASSUME NEW s, State(s), Named(s.ic) PROVE Raw(s)
<1>1. \A im : Disk(im) => Framed(im)
    BY GoodFramed DEF Disk, WellFormed
<1>2. QED
    BY <1>1 DEF State, Raw, Log
LEMMA SameRaw == ASSUME NEW s, Raw(s), NEW t, Same(s, t) PROVE Raw(t)
    BY StateRaw DEF Same, Raw

-----------------------------------------------------------------------------
(* Inodes in memory                                                         *)

(* A slot that is in use holds an inode that no other holds, as it is on the *)
(* disk, but perhaps inode i; i = 0 is none.                                *)
CoherentBut(s, i) ==
    \A k \in Slots : s.ic[k].ref > 0 =>
       /\ s.ic[k].idx \in Inodes
       /\ s.ic[k].idx # i => s.ic[k].n = s.img.ino[s.ic[k].idx]
       /\ \A j \in Slots : s.ic[j].ref > 0 /\ s.ic[j].idx = s.ic[k].idx => j = k

(* References are only added.                                               *)
Keeps(s, t) ==
    \A k \in Slots : s.ic[k].ref > 0 =>
       t.ic[k].ref >= s.ic[k].ref /\ t.ic[k].idx = s.ic[k].idx

(* An entry of the cache that is in use.                                    *)
Held(s, k) == k \in Slots /\ s.ic[k].ref > 0

(* What a call does to the inodes in memory as long as all goes well.       *)
Moves(s, t, i) == State(t) /\ (t.ok => s.ok /\ CoherentBut(t, i) /\ Keeps(s, t))

(* What an entry of the cache is.                                           *)
LEMMA SlotType ==
    ASSUME NEW s, State(s), NEW k \in Slots
    PROVE  /\ s.ic[k] \in [ref : 0 .. RefMod - 1, idx : Inodes \cup {0}, n : InodeSet]
           /\ s.ic[k].ref \in 0 .. RefMod - 1 /\ s.ic[k].ref \in Nat
<1>1. s.ic[k] \in [ref : 0 .. RefMod - 1, idx : Inodes \cup {0}, n : InodeSet]
    BY DEF State, Caches
<1>2. QED
    BY <1>1, CacheSizes

(* Entries kept by one step and by the next are kept by both.               *)
LEMMA KeepsTrans ==
    ASSUME NEW s, State(s), NEW t, State(t), NEW u, State(u), Keeps(s, t), Keeps(t, u)
    PROVE  Keeps(s, u)
<1> SUFFICES ASSUME NEW k \in Slots, s.ic[k].ref > 0
             PROVE  u.ic[k].ref >= s.ic[k].ref /\ u.ic[k].idx = s.ic[k].idx
    BY DEF Keeps
<1>1. s.ic[k].ref \in Nat /\ t.ic[k].ref \in Nat /\ u.ic[k].ref \in Nat
    BY SlotType
<1>2. t.ic[k].ref >= s.ic[k].ref /\ t.ic[k].idx = s.ic[k].idx
    BY DEF Keeps
<1>3. t.ic[k].ref > 0
    BY <1>1, <1>2
<1>4. u.ic[k].ref >= t.ic[k].ref /\ u.ic[k].idx = t.ic[k].idx
    BY <1>3 DEF Keeps
<1>5. QED
    BY <1>1, <1>2, <1>4

(* A step that leaves the cache alone keeps its entries.                    *)
LEMMA KeepsSelf == ASSUME NEW s, State(s), NEW t, t.ic = s.ic PROVE Keeps(s, t)
    BY SlotType DEF Keeps

(* Two steps of a call make one.                                            *)
LEMMA MovesOn ==
    ASSUME NEW s, State(s), NEW t, NEW u, NEW i, NEW j, Moves(s, t, i), t.ok => Moves(t, u, j),
           State(u), u.ok => t.ok
    PROVE  Moves(s, u, j)
<1>1. CASE u.ok
  <2>1. Keeps(s, t) /\ Keeps(t, u) /\ State(t) /\ s.ok /\ CoherentBut(u, j)
      BY <1>1 DEF Moves
  <2>2. QED
      BY <2>1, KeepsTrans DEF Moves
<1>2. CASE ~u.ok
    BY <1>2 DEF Moves
<1>3. QED
    BY <1>1, <1>2

(* A step that leaves inodes alone keeps the cache coherent.                *)
LEMMA SameMoves ==
    ASSUME NEW s, State(s), NEW t, Same(s, t), NEW i, s.ok => CoherentBut(s, i)
    PROVE  Moves(s, t, i)
<1>1. State(t) /\ (t.ok => s.ok) /\ t.ic = s.ic /\ t.img.ino = s.img.ino
    BY DEF Same
<1>2. CoherentBut(s, i) => CoherentBut(t, i)
    BY <1>1 DEF CoherentBut
<1>3. QED
    BY <1>1, <1>2, KeepsSelf DEF Moves

(* The cache replaced.                                                      *)
LEMMA NewCache ==
    ASSUME NEW s, State(s), NEW c \in Caches
    PROVE  \E t : /\ t = [s EXCEPT !.ic = c] /\ State(t)
                  /\ t.ic = c /\ t.img = s.img /\ t.ok = s.ok /\ t.log = s.log
<1> DEFINE t == [img |-> s.img, cached |-> s.cached, ic |-> c, ok |-> s.ok, log |-> s.log,
                 over |-> s.over]
<1>1. t = [s EXCEPT !.ic = c]
  <2> SUFFICES ASSUME NEW r, r = [s EXCEPT !.ic = c] PROVE t = r
      OBVIOUS
  <2>1. QED
      BY DEF State, Fields
<1>2. State(t)
    BY DEF State, Fields
<1>3. t.ic = c /\ t.img = s.img /\ t.ok = s.ok /\ t.log = s.log
    OBVIOUS
<1> HIDE DEF t
<1>4. QED
    BY <1>1, <1>2, <1>3

(* One slot replaced.                                                       *)
Slotted(s, k, e, t) ==
    /\ State(t) /\ t.img = s.img /\ t.ok = s.ok
    /\ t.ic = [s.ic EXCEPT ![k] = e]

(* An entry may take any value of its type.                                 *)
LEMMA NewSlot ==
    ASSUME NEW s, State(s), NEW k \in Slots,
           NEW e \in [ref : 0 .. RefMod - 1, idx : Inodes \cup {0}, n : InodeSet]
    PROVE  Slotted(s, k, e, [s EXCEPT !.ic[k] = e])
<1> DEFINE c == [s.ic EXCEPT ![k] = e]
<1>1. c \in Caches
    BY DEF State, Caches
<1>2. [s EXCEPT !.ic[k] = e] = [s EXCEPT !.ic = c]
    OBVIOUS
<1> HIDE DEF c
<1>3. QED
    BY <1>1, <1>2, NewCache DEF Slotted, c

(* A failure leaves the disk alone.                                         *)
LEMMA FailStays == ASSUME NEW s, State(s) PROVE Fail(s).img = s.img
    BY DEF Fail, State, Fields

(* A reference more, or a failure.                                          *)
Raised(s, k, t) ==
    /\ t.img = s.img
    /\ IF t.ok
       THEN s.ok /\ Slotted(s, k, [s.ic[k] EXCEPT !.ref = @ + 1], t) /\ s.ic[k].ref + 1 < RefMod
       ELSE State(t)

(* tinyfs_dupi counts one more reference, if the count does not wrap around. *)
LEMMA DupRaises ==
    ASSUME NEW s, State(s), NEW k \in Slots, ~Dup(s, k).over
    PROVE  Raised(s, k, Dup(s, k))
<1>1. PICK e : e = [s.ic[k] EXCEPT !.ref = (@ + 1) % RefMod]
    OBVIOUS
<1>2. PICK o : o = (s.over \/ s.ic[k].ref + 1 = RefMod)
    OBVIOUS
<1>3. PICK r : r = [s EXCEPT !.ic[k] = e]
    OBVIOUS
<1>4. PICK t : t = Dup(s, k)
    OBVIOUS
<1>5. t = [r EXCEPT !.over = o]
  <2>1. s.over = [s EXCEPT !.ic[k].ref = (@ + 1) % RefMod].over
      BY DEF State, Fields
  <2>2. t = [s EXCEPT !.ic[k] = e, !.over = o]
      BY <1>1, <1>2, <1>4, <2>1 DEF Dup
  <2>3. QED
      BY <1>3, <2>2
<1>6. r = [img |-> r.img, cached |-> r.cached, ic |-> r.ic, ok |-> r.ok, log |-> r.log,
           over |-> r.over]
    BY <1>3 DEF State, Fields
<1>7. t = [img |-> r.img, cached |-> r.cached, ic |-> r.ic, ok |-> r.ok, log |-> r.log,
           over |-> o]
  <2> SUFFICES ASSUME NEW q, q = [r EXCEPT !.over = o]
               PROVE  q = [img |-> r.img, cached |-> r.cached, ic |-> r.ic, ok |-> r.ok,
                           log |-> r.log, over |-> o]
      BY <1>5
  <2>1. QED
      BY <1>6
<1>8. s.ic[k].ref + 1 # RefMod
  <2>1. t.over = o
      BY <1>7
  <2>2. ~o
      BY <1>4, <2>1
  <2>3. QED
      BY <1>2, <2>2, Zenon
<1>9. s.ic[k].ref + 1 \in 0 .. RefMod - 1 /\ (s.ic[k].ref + 1) % RefMod = s.ic[k].ref + 1
    BY <1>8, SlotType, CacheSizes
<1>10. e = [s.ic[k] EXCEPT !.ref = @ + 1]
    BY <1>1, <1>9
<1>11. e \in [ref : 0 .. RefMod - 1, idx : Inodes \cup {0}, n : InodeSet]
  <2>1. PICK x \in 0 .. RefMod - 1 : x = s.ic[k].ref + 1
      BY <1>9
  <2>2. e = [s.ic[k] EXCEPT !.ref = x]
      BY <1>10, <2>1
  <2>3. QED
      BY <2>2, SlotType
<1>12. Slotted(s, k, e, r)
    BY <1>3, <1>11, NewSlot
<1>13. State(t) /\ t.img = s.img /\ t.ok = s.ok /\ t.ic = r.ic
    BY <1>7, <1>12 DEF Slotted, State, Fields
<1>14. Slotted(s, k, e, t) /\ t.ok \in BOOLEAN
    BY <1>12, <1>13 DEF Slotted, State
<1>15. s.ic[k].ref + 1 < RefMod
    BY <1>9, CacheSizes, SlotType
<1>16. Slotted(s, k, [s.ic[k] EXCEPT !.ref = @ + 1], t)
    BY <1>10, <1>14
<1>17. Raised(s, k, t)
    BY <1>13, <1>14, <1>15, <1>16, Zenon DEF Raised
<1>18. QED
    BY <1>4, <1>17

(* What a raised slot holds.                                                *)
LEMMA RaisedSlots ==
    ASSUME NEW s, State(s), NEW k \in Slots, NEW t, Raised(s, k, t), t.ok
    PROVE  /\ State(t) /\ s.ok /\ t.img = s.img
           /\ t.ic[k].ref = s.ic[k].ref + 1 /\ t.ic[k].idx = s.ic[k].idx /\ t.ic[k].n = s.ic[k].n
           /\ \A j \in Slots : j # k => t.ic[j] = s.ic[j]
           /\ Keeps(s, t)
<1>1. Slotted(s, k, [s.ic[k] EXCEPT !.ref = @ + 1], t) /\ s.ok
    BY DEF Raised
<1> DEFINE e == [s.ic[k] EXCEPT !.ref = @ + 1]
<1>2. e.ref = s.ic[k].ref + 1 /\ e.idx = s.ic[k].idx /\ e.n = s.ic[k].n
    BY SlotType
<1> HIDE DEF e
<1>3. DOMAIN s.ic = Slots
    BY DEF State, Caches
<1>4. t.ic = [s.ic EXCEPT ![k] = e] /\ State(t) /\ t.img = s.img
    BY <1>1 DEF Slotted, e
<1>5. t.ic[k] = e /\ \A j \in Slots : j # k => t.ic[j] = s.ic[j]
    BY <1>3, <1>4
<1>6. Keeps(s, t)
  <2> SUFFICES ASSUME NEW j \in Slots, s.ic[j].ref > 0
               PROVE  t.ic[j].ref >= s.ic[j].ref /\ t.ic[j].idx = s.ic[j].idx
      BY DEF Keeps
  <2>1. s.ic[j].ref \in Nat
      BY SlotType
  <2>2. QED
      BY <1>2, <1>5, <2>1
<1>7. QED
    BY <1>1, <1>2, <1>4, <1>5, <1>6

(* A reference more leaves the cache coherent.                              *)
LEMMA RaisedMoves ==
    ASSUME NEW s, State(s), NEW k, Held(s, k), NEW t, Raised(s, k, t), NEW i,
           s.ok => CoherentBut(s, i)
    PROVE  Moves(s, t, i)
<1> SUFFICES ASSUME t.ok PROVE Moves(s, t, i)
    BY DEF Raised, Moves
<1>1. k \in Slots /\ s.ic[k].ref > 0
    BY DEF Held
<1>2. /\ State(t) /\ s.ok /\ t.img = s.img
      /\ t.ic[k].ref = s.ic[k].ref + 1 /\ t.ic[k].idx = s.ic[k].idx /\ t.ic[k].n = s.ic[k].n
      /\ \A j \in Slots : j # k => t.ic[j] = s.ic[j]
      /\ Keeps(s, t)
    BY <1>1, RaisedSlots
<1>3. \A j \in Slots : /\ t.ic[j].ref > 0 => s.ic[j].ref > 0
                       /\ t.ic[j].idx = s.ic[j].idx /\ t.ic[j].n = s.ic[j].n
    BY <1>1, <1>2
<1>4. CoherentBut(t, i)
    BY <1>2, <1>3 DEF CoherentBut
<1>5. QED
    BY <1>2, <1>4 DEF Moves

(* tinyfs_geti finds the slot of an inode or takes a free one for it.       *)
Placed(s, idx, r) ==
    /\ r = [s |-> r.s, k |-> r.k] /\ Moves(s, r.s, idx) /\ r.s.img = s.img
    /\ r.k \in Slots \cup {0}
    /\ r.s.ok => Held(r.s, r.k) /\ r.s.ic[r.k].idx = idx /\ idx \in Inodes

(* The entry tinyfs_geti returns is that of the inode, filled or not.       *)
LEMMA GetiPlaces ==
    ASSUME NEW s, State(s), NEW idx, s.ok => CoherentBut(s, idx), ~Geti(s, idx).s.over
    PROVE  Placed(s, idx, Geti(s, idx))
<1> DEFINE hit == {k \in Slots : s.ic[k].ref # 0 /\ s.ic[k].idx = idx}
<1> DEFINE free == {k \in Slots : s.ic[k].ref = 0}
<1> DEFINE h == CHOOSE k \in hit : \A j \in hit : k <= j
<1> DEFINE g == CHOOSE k \in free : \A j \in free : k <= j
<1> DEFINE e == [ref |-> 1, idx |-> idx, n |-> [s.ic[g].n EXCEPT !.type = 0, !.major = 0]]
<1>1. Geti(s, idx) =
        IF hit # {} THEN [s |-> Dup(s, h), k |-> h]
        ELSE IF free = {} \/ idx \notin Inodes THEN [s |-> Fail(s), k |-> 0]
        ELSE [k |-> g, s |-> [s EXCEPT !.ic[g] = e]]
    BY Zenon DEF Geti
<1>2. CASE hit # {}
  <2>1. h \in hit
      BY <1>2, FirstSlot
  <2> HIDE DEF h
  <2>2. Held(s, h) /\ s.ic[h].idx = idx /\ h \in Slots
      BY <2>1, SlotType DEF Held
  <2>3. Raised(s, h, Dup(s, h))
    <3>1. Geti(s, idx).s = Dup(s, h)
        BY <1>1, <1>2
    <3>2. QED
        BY <2>2, <3>1, DupRaises
  <2>4. Moves(s, Dup(s, h), idx)
      BY <2>2, <2>3, RaisedMoves
  <2>5. ASSUME Dup(s, h).ok
        PROVE  Held(Dup(s, h), h) /\ Dup(s, h).ic[h].idx = idx /\ idx \in Inodes
    <3>1. /\ Dup(s, h).ic[h].ref = s.ic[h].ref + 1 /\ Dup(s, h).ic[h].idx = s.ic[h].idx /\ s.ok
        BY <2>2, <2>3, <2>5, RaisedSlots
    <3>2. s.ic[h].ref \in Nat /\ s.ic[h].ref > 0
        BY <2>2, SlotType DEF Held
    <3>3. idx \in Inodes
        BY <2>2, <3>1, <3>2 DEF CoherentBut
    <3>4. QED
        BY <2>2, <3>1, <3>2, <3>3 DEF Held
  <2>6. Geti(s, idx) = [s |-> Dup(s, h), k |-> h]
      BY <1>1, <1>2
  <2>7. QED
      BY <2>2, <2>3, <2>4, <2>5, <2>6 DEF Placed, Raised
<1>3. CASE hit = {} /\ (free = {} \/ idx \notin Inodes)
  <2>1. Geti(s, idx) = [s |-> Fail(s), k |-> 0]
      BY <1>1, <1>3
  <2>2. State(Fail(s)) /\ ~Fail(s).ok /\ Fail(s).img = s.img
      BY FailSame, FailStays DEF Same
  <2>3. QED
      BY <2>1, <2>2 DEF Placed, Moves
<1>4. CASE hit = {} /\ free # {} /\ idx \in Inodes
  <2> DEFINE t == [s EXCEPT !.ic[g] = e]
  <2>1. g \in Slots /\ s.ic[g].ref = 0
    <3>1. g \in free
        BY <1>4, FirstSlot
    <3>2. QED
        BY <3>1
  <2> HIDE DEF g
  <2>2. e \in [ref : 0 .. RefMod - 1, idx : Inodes \cup {0}, n : InodeSet]
    <3>1. s.ic[g].n \in InodeSet
        BY <2>1, SizeOf
    <3>2. ASSUME NEW n \in InodeSet PROVE [n EXCEPT !.type = 0, !.major = 0] \in InodeSet
      <4>1. [n EXCEPT !.type = 0] \in InodeSet
          BY 0 \in 0 .. 3 DEF InodeSet
      <4>2. \A m \in InodeSet : [m EXCEPT !.major = 0] \in InodeSet
          BY DEF InodeSet
      <4>3. QED
          BY <4>1, <4>2
    <3>3. 1 \in 0 .. RefMod - 1
        BY CacheSizes
    <3>4. QED
        BY <1>4, <3>1, <3>2, <3>3
  <2>3. Slotted(s, g, e, t)
      BY <2>1, <2>2, NewSlot
  <2>4. e.ref = 1 /\ e.idx = idx
      OBVIOUS
  <2> HIDE DEF t, e
  <2>5. /\ State(t) /\ t.img = s.img /\ t.ok = s.ok /\ t.ic[g] = e
        /\ \A j \in Slots : j # g => t.ic[j] = s.ic[j]
    <3>1. DOMAIN s.ic = Slots
        BY DEF State, Caches
    <3>2. QED
        BY <2>1, <2>3, <3>1 DEF Slotted
  <2>6. Keeps(s, t)
    <3> SUFFICES ASSUME NEW j \in Slots, s.ic[j].ref > 0
                 PROVE  t.ic[j].ref >= s.ic[j].ref /\ t.ic[j].idx = s.ic[j].idx
        BY DEF Keeps
    <3>1. j # g /\ s.ic[j].ref \in Nat
        BY <2>1, SlotType
    <3>2. QED
        BY <2>5, <3>1
  <2>7. ASSUME s.ok PROVE CoherentBut(t, idx)
    <3> SUFFICES ASSUME NEW j \in Slots, t.ic[j].ref > 0
                 PROVE  /\ t.ic[j].idx \in Inodes
                        /\ t.ic[j].idx # idx => t.ic[j].n = t.img.ino[t.ic[j].idx]
                        /\ \A i \in Slots : t.ic[i].ref > 0 /\ t.ic[i].idx = t.ic[j].idx => i = j
        BY DEF CoherentBut
    <3>1. \A i \in Slots : i # g /\ t.ic[i].ref > 0 => s.ic[i].ref > 0 /\ s.ic[i].idx # idx
        BY <1>4, <2>5, SlotType
    <3>2. CASE j = g
        BY <1>4, <2>4, <2>5, <3>1, <3>2
    <3>3. CASE j # g
      <4>1. t.ic[j] = s.ic[j] /\ s.ic[j].ref > 0 /\ s.ic[j].idx # idx
          BY <2>5, <3>1, <3>3
      <4>2. /\ s.ic[j].idx \in Inodes
            /\ s.ic[j].idx # idx => s.ic[j].n = s.img.ino[s.ic[j].idx]
            /\ \A i \in Slots : s.ic[i].ref > 0 /\ s.ic[i].idx = s.ic[j].idx => i = j
          BY <2>7, <4>1 DEF CoherentBut
      <4>3. \A i \in Slots : t.ic[i].ref > 0 /\ t.ic[i].idx = t.ic[j].idx => i = j
          BY <2>4, <2>5, <3>1, <4>1, <4>2
      <4>4. QED
          BY <2>5, <4>1, <4>2, <4>3
    <3>4. QED
        BY <3>2, <3>3
  <2>8. Moves(s, t, idx) /\ Held(t, g) /\ t.ic[g].idx = idx
      BY <2>1, <2>4, <2>5, <2>6, <2>7 DEF Moves, Held
  <2>9. Geti(s, idx) = [k |-> g, s |-> t]
      BY <1>1, <1>4 DEF g, t, e
  <2>10. QED
      BY <1>4, <2>1, <2>5, <2>8, <2>9 DEF Placed
<1>5. QED
    BY <1>2, <1>3, <1>4

(* In t slot k holds v for inode i.                                         *)
Holding(s, k, i, v, t) ==
    /\ State(t) /\ t.img = s.img /\ t.ok = s.ok
    /\ \A j \in Slots : t.ic[j].ref = s.ic[j].ref /\ t.ic[j].idx = s.ic[j].idx
    /\ t.ic[k].n = v /\ Held(t, k) /\ Keeps(s, t) /\ CoherentBut(t, i)
    /\ v = s.img.ino[i] => CoherentBut(t, 0)

(* The inode in a slot replaced, which may then differ from the disk.       *)
LEMMA SetInode ==
    ASSUME NEW s, State(s), NEW k, Held(s, k), NEW i, i = s.ic[k].idx, CoherentBut(s, i),
           NEW v \in InodeSet, NEW t, t = [s EXCEPT !.ic[k].n = v]
    PROVE  Holding(s, k, i, v, t)
<1> DEFINE e == [s.ic[k] EXCEPT !.n = v]
<1>1. k \in Slots /\ s.ic[k].ref > 0
    BY DEF Held
<1>2. e \in [ref : 0 .. RefMod - 1, idx : Inodes \cup {0}, n : InodeSet]
    BY <1>1, SlotType
<1>3. e.ref = s.ic[k].ref /\ e.idx = s.ic[k].idx /\ e.n = v
    BY <1>1, SlotType
<1>4. t = [s EXCEPT !.ic[k] = e]
    OBVIOUS
<1> HIDE DEF e
<1>5. Slotted(s, k, e, t)
    BY <1>1, <1>2, <1>4, NewSlot
<1>6. DOMAIN s.ic = Slots
    BY DEF State, Caches
<1>7. /\ State(t) /\ t.img = s.img /\ t.ok = s.ok /\ t.ic[k] = e
      /\ \A j \in Slots : j # k => t.ic[j] = s.ic[j]
    BY <1>1, <1>5, <1>6 DEF Slotted
<1>8. \A j \in Slots : t.ic[j].ref = s.ic[j].ref /\ t.ic[j].idx = s.ic[j].idx
    BY <1>1, <1>3, <1>7
<1>9. Keeps(s, t)
    BY <1>8, SlotType DEF Keeps
<1>10. \A j \in Slots : s.ic[j].ref > 0 =>
          /\ s.ic[j].idx \in Inodes
          /\ s.ic[j].idx # i => s.ic[j].n = s.img.ino[s.ic[j].idx]
          /\ \A q \in Slots : s.ic[q].ref > 0 /\ s.ic[q].idx = s.ic[j].idx => q = j
    BY DEF CoherentBut
<1>11. ASSUME NEW j \in Slots, t.ic[j].ref > 0
       PROVE  /\ t.ic[j].idx \in Inodes
              /\ t.ic[j].idx # i => t.ic[j].n = t.img.ino[t.ic[j].idx]
              /\ v = s.img.ino[i] => t.ic[j].n = t.img.ino[t.ic[j].idx]
              /\ \A q \in Slots : t.ic[q].ref > 0 /\ t.ic[q].idx = t.ic[j].idx => q = j
  <2>1. t.ic[j].idx \in Inodes
      BY <1>8, <1>10, <1>11
  <2>2. \A q \in Slots : t.ic[q].ref > 0 /\ t.ic[q].idx = t.ic[j].idx => q = j
      BY <1>8, <1>10, <1>11
  <2>3. CASE j = k
      BY <1>1, <1>3, <1>7, <2>1, <2>2, <2>3
  <2>4. CASE j # k
    <3>1. t.ic[j] = s.ic[j] /\ s.ic[j].idx # i
        BY <1>1, <1>7, <1>10, <1>11, <2>4
    <3>2. QED
        BY <1>7, <1>10, <1>11, <2>1, <2>2, <3>1
  <2>5. QED
      BY <2>3, <2>4
<1>12. CoherentBut(t, i) /\ (v = s.img.ino[i] => CoherentBut(t, 0))
    BY <1>11 DEF CoherentBut
<1>13. Held(t, k)
    BY <1>1, <1>8 DEF Held
<1>14. QED
    BY <1>3, <1>7, <1>8, <1>9, <1>12, <1>13 DEF Holding

(* meta_readi fills a slot from the disk.                                   *)
LEMMA MetaReads ==
    ASSUME NEW s, State(s), NEW k, NEW i,
           s.ok => Held(s, k) /\ i = s.ic[k].idx /\ CoherentBut(s, i)
    PROVE  /\ Moves(s, MetaRead(s, k), 0) /\ MetaRead(s, k).img = s.img
           /\ MetaRead(s, k).ok => Held(MetaRead(s, k), k) /\ MetaRead(s, k).ic[k].idx = i
<1>1. CASE ~s.ok
    BY <1>1 DEF MetaRead, Moves
<1>2. CASE s.ok
  <2> DEFINE x == Read(s, IBlock(s.ic[k].idx))
  <2> DEFINE v == s.img.ino[i]
  <2> DEFINE t == [x EXCEPT !.ic[k].n = v]
  <2>1. Same(s, x) /\ x.img = s.img
    <3>1. IBlock(s.ic[k].idx) \in Blocks
        BY <1>2, InodeBlock DEF Held, CoherentBut
    <3>2. QED
        BY <3>1, ReadSame
  <2>2. MetaRead(s, k) = t
      BY <1>2 DEF MetaRead
  <2> HIDE DEF x
  <2>3. Held(s, k) /\ i = s.ic[k].idx /\ CoherentBut(s, i) /\ i \in Inodes
      BY <1>2 DEF Held, CoherentBut
  <2>4. /\ State(x) /\ x.ic = s.ic /\ x.img.ino = s.img.ino
        /\ Held(x, k) /\ i = x.ic[k].idx /\ CoherentBut(x, i)
      BY <2>1, <2>3 DEF Same, Held, CoherentBut
  <2>5. v \in InodeSet
      BY <2>3, ImageTypes DEF State, Disk, WellFormed
  <2>6. v = x.img.ino[i]
      BY <2>4
  <2> HIDE DEF v
  <2>7. Holding(x, k, i, v, t)
      BY <2>4, <2>5, SetInode
  <2> HIDE DEF t
  <2>8. Keeps(s, t)
      BY <2>4, <2>7 DEF Keeps, Holding
  <2>9. QED
      BY <1>2, <2>1, <2>2, <2>3, <2>4, <2>6, <2>7, <2>8 DEF Moves, Held, Holding
<1>3. QED
    BY <1>1, <1>2

(* What finding an inode comes to: its slot, or 0.                          *)
Found(s, r) ==
    /\ r = [s |-> r.s, k |-> r.k] /\ Moves(s, r.s, 0)
    /\ r.s.ok /\ r.k # 0 => Held(r.s, r.k)

(* With its contents read, the entry is like the others.                    *)
LEMMA GetInodeFinds ==
    ASSUME NEW s, State(s), Raw(s), NEW idx, s.ok => CoherentBut(s, idx), ~GetInode(s, idx).s.over
    PROVE  /\ Found(s, GetInode(s, idx)) /\ GetInode(s, idx).s.img = s.img
           /\ GetInode(s, idx).k \in Slots \cup {0}
           /\ GetInode(s, idx).s.ok =>
                /\ Held(GetInode(s, idx).s, GetInode(s, idx).k)
                /\ GetInode(s, idx).s.ic[GetInode(s, idx).k].idx = idx
<1> DEFINE g == Geti(s, idx)
<1> DEFINE t == MetaRead(g.s, g.k)
<1>1. Placed(s, idx, g)
    BY RawGetInode, GetiPlaces
<1>2. GetInode(s, idx) = [g EXCEPT !.s = t]
    BY DEF GetInode
<1> HIDE DEF g, t
<1>3. GetInode(s, idx) = [s |-> t, k |-> g.k]
  <2>1. PICK a, b : g = [s |-> a, k |-> b]
      BY <1>1 DEF Placed
  <2>2. [g EXCEPT !.s = t] = [s |-> t, k |-> b] /\ g.k = b
      BY <2>1
  <2>3. QED
      BY <1>2, <2>2
<1>4. State(g.s) /\ (g.s.ok => Held(g.s, g.k) /\ idx = g.s.ic[g.k].idx /\ CoherentBut(g.s, idx))
    BY <1>1 DEF Placed, Moves
<1>5. Moves(g.s, t, 0) /\ t.img = g.s.img /\ (t.ok => Held(t, g.k) /\ t.ic[g.k].idx = idx)
    BY <1>4, MetaReads DEF t
<1>6. Moves(s, g.s, idx) /\ State(t) /\ (t.ok => g.s.ok)
    BY <1>1, <1>5 DEF Placed, Moves
<1>7. Moves(s, t, 0)
    BY <1>5, <1>6, MovesOn
<1>8. QED
    BY <1>1, <1>3, <1>5, <1>7 DEF Found, Placed

(* meta_writei makes the disk agree with a slot.                            *)
LEMMA MetaWrites ==
    ASSUME NEW s, State(s), NEW k \in Slots, NEW i,
           s.ok => Held(s, k) /\ CoherentBut(s, i),
           NEW x, x = s.ic[k].idx, NEW im, im = [s.img EXCEPT !.ino[x] = s.ic[k].n],
           s.ok => Disk(im)
    PROVE  /\ Moves(s, MetaWrite(s, k), i) /\ MetaWrite(s, k).ic = s.ic
           /\ i = x => Moves(s, MetaWrite(s, k), 0)
           /\ MetaWrite(s, k).ok => MetaWrite(s, k).img = im
<1> DEFINE r == Read(s, IBlock(s.ic[k].idx))
<1> DEFINE t == Write(r, im)
<1>1. s.ok => x \in Inodes
    BY DEF Held, CoherentBut
<1>2. Same(s, r) /\ r.img = s.img
  <2>1. s.ok => IBlock(s.ic[k].idx) \in Blocks
      BY <1>1, InodeBlock
  <2>2. QED
      BY <2>1, ReadSame
<1>3. MetaWrite(s, k) = t
    BY <1>2 DEF MetaWrite
<1> HIDE DEF r
<1>4. s.ok => im.ino = [s.img.ino EXCEPT ![x] = s.ic[k].n]
  <2>1. s.img \in Images /\ s.ic[k].n \in InodeSet
      BY SizeOf DEF State, Disk, WellFormed
  <2>2. QED
      BY <1>1, <2>1, NewInImage
<1>5. State(t) /\ t.ok = r.ok /\ t.ic = r.ic /\ (t.ok => t.img = im)
  <2>1. State(r) /\ (r.ok => Disk(im))
      BY <1>2 DEF Same
  <2>2. QED
      BY <2>1, WriteTo
<1> HIDE DEF t
<1>6. /\ State(t) /\ t.ic = s.ic /\ (t.ok => s.ok)
      /\ t.ok => t.img.ino = [s.img.ino EXCEPT ![x] = s.ic[k].n]
    BY <1>2, <1>4, <1>5 DEF Same
<1>7. Keeps(s, t)
    BY <1>6, KeepsSelf
<1>8. ASSUME t.ok, NEW j \in Slots, s.ic[j].ref > 0
      PROVE  /\ s.ic[j].idx \in Inodes
             /\ s.ic[j].idx # i \/ i = x => s.ic[j].n = t.img.ino[s.ic[j].idx]
             /\ \A q \in Slots : s.ic[q].ref > 0 /\ s.ic[q].idx = s.ic[j].idx => q = j
  <2>1. /\ s.ic[j].idx \in Inodes
        /\ s.ic[j].idx # i => s.ic[j].n = s.img.ino[s.ic[j].idx]
        /\ \A q \in Slots : s.ic[q].ref > 0 /\ s.ic[q].idx = s.ic[j].idx => q = j
      BY <1>6, <1>8 DEF CoherentBut
  <2>2. DOMAIN s.img.ino = Inodes /\ s.ic[k].ref > 0
      BY <1>6, <1>8, ImageTypes DEF State, Disk, WellFormed, Held
  <2>3. CASE s.ic[j].idx = x
    <3>1. k = j
        BY <2>1, <2>2, <2>3
    <3>2. QED
        BY <1>6, <1>8, <2>1, <2>2, <2>3, <3>1
  <2>4. CASE s.ic[j].idx # x
    <3>1. t.img.ino[s.ic[j].idx] = s.img.ino[s.ic[j].idx]
        BY <1>6, <1>8, <2>1, <2>2, <2>4
    <3>2. QED
        BY <2>1, <2>4, <3>1
  <2>5. QED
      BY <2>3, <2>4
<1>9. t.ok => CoherentBut(t, i) /\ (i = x => CoherentBut(t, 0))
    BY <1>6, <1>8 DEF CoherentBut
<1>10. QED
    BY <1>3, <1>5, <1>6, <1>7, <1>9 DEF Moves

(* The search of tinyfs_alloci through the blocks of inodes.                *)
LEMMA SearchSame ==
    ASSUME NEW s, State(s), NEW N \in Nat, \A j \in 0 .. N - 1 : j + 1 \in Inodes
    PROVE  Same(s, Iterate(LAMBDA t, j : Read(t, IBlock(j + 1)), s, N))
<1> DEFINE Do(t, j) == Read(t, IBlock(j + 1))
<1> DEFINE g == CHOOSE at : at = [i \in 0 .. N |-> IF i = 0 THEN s ELSE Do(at[i - 1], i - 1)]
<1>1. Iterate(LAMBDA t, j : Read(t, IBlock(j + 1)), s, N) = g[N]
    BY Zenon DEF Iterate
<1>2. PICK f : f = [i \in 0 .. N |-> IF i = 0 THEN s ELSE Do(f[i - 1], i - 1)]
  <2> DEFINE c == [kind |-> "inodes"]
  <2>1. \A t, i : Turn(c, t, i) = Do(t, i)
      BY DEF Turn
  <2> HIDE DEF Do, c
  <2>2. PICK f : IsRun(f, c, s, N)
      BY Runs
  <2>3. f = [i \in 0 .. N |-> IF i = 0 THEN s ELSE Do(f[i - 1], i - 1)]
      BY <2>1, <2>2 DEF IsRun
  <2>4. QED
      BY <2>3
<1>3. g = [i \in 0 .. N |-> IF i = 0 THEN s ELSE Do(g[i - 1], i - 1)]
    BY <1>2
<1> HIDE DEF g, Do
<1>4. \A i \in 0 .. N : g[i] = IF i = 0 THEN s ELSE Do(g[i - 1], i - 1)
    BY <1>3
<1> DEFINE G == {i \in 0 .. N : Same(s, g[i])}
<1>5. 0 \in G
    BY <1>4, SameSelf
<1>6. ASSUME NEW j \in 0 .. N - 1, j \in G PROVE j + 1 \in G
  <2>1. j + 1 \in 0 .. N /\ j + 1 - 1 = j /\ j + 1 # 0
      OBVIOUS
  <2>2. g[j + 1] = Do(g[j], j)
      BY <1>4, <2>1
  <2>3. Same(s, g[j]) /\ State(g[j])
      BY <1>6 DEF Same
  <2>4. Same(g[j], Do(g[j], j))
    <3>1. IBlock(j + 1) \in Blocks
        BY InodeBlock
    <3>2. QED
        BY <2>3, <3>1, ReadSame DEF Do
  <2>5. Same(s, g[j + 1])
      BY <2>2, <2>3, <2>4, SameTrans
  <2>6. QED
      BY <2>1, <2>5
<1> HIDE DEF G
<1>7. N \in G
    BY <1>5, <1>6, ToTheEnd
<1>8. QED
    BY <1>1, <1>7 DEF G

(* A call that fails promises nothing.                                      *)
LEMMA FailFinds == ASSUME NEW s, State(s), NEW k PROVE Found(s, [s |-> Fail(s), k |-> k])
<1>1. State(Fail(s)) /\ ~Fail(s).ok
    BY FailSame DEF Same
<1>2. QED
    BY <1>1 DEF Found, Moves

(* A name stays fresh where nothing is entered in the directory.            *)
LEMMA FreshStays ==
    ASSUME NEW im, WellFormed(im), NEW d, NEW name, Fresh(im, d, name),
           NEW jm, d \in Directories(jm), Offsets(jm, d) = Offsets(im, d),
           \A off \in FileUnits : Unit(jm, d, off) = Unit(im, d, off)
    PROVE  Fresh(jm, d, name)
<1>1. Offsets(im, d) \subseteq FileUnits
    BY DEF WellFormed, LaidOut, Fresh
<1>2. QED
    BY <1>1 DEF Fresh

(* So it does over a step that leaves directories alone.                    *)
LEMMA FreshSame ==
    ASSUME NEW s, State(s), NEW t, Same(s, t), NEW d, NEW name, Fresh(s.img, d, name)
    PROVE  Fresh(t.img, d, name)
<1>1. WellFormed(s.img) /\ t.img.ino = s.img.ino /\ d \in Directories(s.img)
    BY DEF State, Disk, Same, Fresh
<1>2. d \in Directories(t.img) /\ Offsets(t.img, d) = Offsets(s.img, d)
    BY <1>1 DEF Directories, Offsets
<1>3. \A off \in FileUnits : Unit(t.img, d, off) = Unit(s.img, d, off)
    BY <1>1 DEF Same, Alike
<1>4. QED
    BY <1>1, <1>2, <1>3, FreshStays

(* A slot holds an inode of a file or a device that is nowhere entered yet. *)
Taken(s, a) ==
    LET i == a.s.ic[a.k].idx
    IN  /\ Held(a.s, a.k) /\ i \in Inodes \ Directories(a.s.img) /\ a.s.img.ino[i].type # 0
        /\ \A d, name : Fresh(s.img, d, name) => Fresh(a.s.img, d, name)

(* A new inode is on the disk before it is in memory.                       *)
LEMMA AllociFinds ==
    ASSUME NEW s, State(s), Raw(s), s.ok => CoherentBut(s, 0),
           NEW type \in {T_FILE, T_DEV}, NEW major \in Nat,
           NEW a, a = Alloci(s, type, major), ~a.s.over
    PROVE  Found(s, a) /\ (a.s.ok => Taken(s, a))
<1> DEFINE free == {i \in Inodes : s.img.ino[i].type = 0}
<1> DEFINE i == CHOOSE i \in free : \A j \in free : i <= j
<1> DEFINE r == Iterate(LAMBDA t, j : Read(t, IBlock(j + 1)), s, i)
<1> DEFINE im == [r.img EXCEPT !.ino[i] = NewInode(type, major)]
<1>1. a = IF free = {} THEN [s |-> Fail(s), k |-> 0] ELSE GetInode(Write(r, im), i)
    BY DEF Alloci
<1>2. CASE free = {}
  <2>1. a = [s |-> Fail(s), k |-> 0]
      BY <1>1, <1>2
  <2>2. ~Fail(s).ok
      BY FailSame
  <2>3. QED
      BY <2>1, <2>2, FailFinds
<1>3. CASE free # {}
  <2>1. i \in Inodes /\ i \in Nat /\ i # 0 /\ s.img.ino[i].type = 0
    <3>1. free \in SUBSET Nat /\ free \subseteq Inodes
        BY DEF Inodes
    <3>2. \E x \in free : \A j \in free : x <= j
        BY <1>3, <3>1, Least
    <3>3. i \in free
        BY <3>2
    <3>4. s.img.ino[i].type = 0
        BY <3>3
    <3> HIDE DEF i, free
    <3>5. QED
        BY <3>1, <3>3, <3>4 DEF Inodes
  <2>2. a = GetInode(Write(r, im), i)
      BY <1>1, <1>3
  <2> HIDE DEF i
  <2>3. Same(s, r)
    <3>1. \A j \in 0 .. i - 1 : j + 1 \in Inodes
      <4>1. MaxInodes - 1 \in Int
          BY SizesOK
      <4>2. PICK m \in Int : m = MaxInodes - 1
          BY <4>1
      <4>3. i \in 1 .. m /\ Inodes = 1 .. m
          BY <2>1, <4>2 DEF Inodes
      <4>4. QED
          BY <4>2, <4>3
    <3>2. QED
        BY <2>1, <3>1, SearchSame
  <2> HIDE DEF r
  <2>4. TakenIn(r.img, i, im)
    <3>1. PICK rm, v : rm = r.img /\ v = NewInode(type, major)
        OBVIOUS
    <3>2. Disk(rm) /\ rm.ino[i].type = 0
        BY <2>1, <2>3, <3>1 DEF Same, State
    <3>3. PICK jm : jm = [rm EXCEPT !.ino[i] = v]
        OBVIOUS
    <3>4. TakenIn(rm, i, jm)
        BY <2>1, <3>1, <3>2, <3>3, TakenDisk
    <3>5. im = jm
        BY <3>1, <3>3
    <3>6. QED
        BY <3>1, <3>4, <3>5
  <2> HIDE DEF im
  <2>5. Disk(im) /\ \A j \in Inodes : j # i => im.ino[j] = s.img.ino[j]
      BY <2>3, <2>4 DEF TakenIn, Same
  <2> DEFINE t == Write(r, im)
  <2>6. State(t) /\ t.ok = r.ok /\ t.ic = r.ic /\ (r.ok => t.img = im)
      BY <2>3, <2>5, WriteTo DEF Same
  <2>7. a = GetInode(t, i)
      BY <2>2
  <2> HIDE DEF t
  <2>8. State(t) /\ t.ic = s.ic /\ (t.ok => s.ok /\ t.img = im) /\ Keeps(s, t)
      BY <2>3, <2>6, KeepsSelf DEF Same
  <2>9. t.ok => CoherentBut(t, i)
    <3> SUFFICES ASSUME t.ok, NEW k \in Slots, s.ic[k].ref > 0
                 PROVE  /\ s.ic[k].idx \in Inodes
                        /\ s.ic[k].idx # i => s.ic[k].n = t.img.ino[s.ic[k].idx]
                        /\ \A j \in Slots : s.ic[j].ref > 0 /\ s.ic[j].idx = s.ic[k].idx => j = k
        BY <2>8 DEF CoherentBut
    <3>1. /\ s.ic[k].idx \in Inodes
          /\ s.ic[k].idx # 0 => s.ic[k].n = s.img.ino[s.ic[k].idx]
          /\ \A j \in Slots : s.ic[j].ref > 0 /\ s.ic[j].idx = s.ic[k].idx => j = k
        BY <2>8 DEF CoherentBut
    <3>2. s.ic[k].idx # 0
        BY <3>1 DEF Inodes
    <3>3. QED
        BY <2>5, <2>8, <3>1, <3>2
  <2>10. /\ Found(t, a) /\ a.s.img = t.img
         /\ a.s.ok => Held(a.s, a.k) /\ a.s.ic[a.k].idx = i
    <3>1. Raw(t)
        BY <2>8, StateRaw DEF Raw
    <3>2. QED
        BY <2>7, <2>8, <2>9, <3>1, GetInodeFinds
  <2>11. Moves(s, t, i)
      BY <2>8, <2>9 DEF Moves
  <2>12. Moves(s, a.s, 0)
      BY <2>10, <2>11, MovesOn DEF Found, Moves
  <2>13. Found(s, a)
      BY <2>10, <2>12 DEF Found
  <2>14. ASSUME a.s.ok PROVE Taken(s, a)
    <3>1. t.ok /\ a.s.img = im
        BY <2>8, <2>10, <2>14 DEF Found, Moves
    <3>2. i \in Inodes \ Directories(im) /\ im.ino[i].type # 0
        BY <2>1, <2>4 DEF TakenIn
    <3>3. ASSUME NEW d, NEW name, Fresh(s.img, d, name) PROVE Fresh(im, d, name)
      <4>1. Fresh(r.img, d, name) /\ WellFormed(r.img)
          BY <2>3, <3>3, FreshSame DEF Same, State, Disk
      <4>2. d \in Directories(r.img) /\ d # i /\ d \in Inodes /\ d \in Directories(im)
          BY <2>4, <4>1 DEF Fresh, Directories, TakenIn
      <4>3. im.ino[d] = r.img.ino[d]
          BY <2>3, <2>5, <4>2 DEF Same
      <4>4. Offsets(im, d) = Offsets(r.img, d)
          BY <4>3 DEF Offsets
      <4>5. \A off \in FileUnits : Unit(im, d, off) = Unit(r.img, d, off)
          BY <2>4, <4>2 DEF TakenIn
      <4>6. QED
          BY <4>1, <4>2, <4>4, <4>5, FreshStays
    <3>4. QED
        BY <2>10, <2>14, <3>1, <3>2, <3>3 DEF Taken
  <2>15. QED
      BY <2>13, <2>14
<1>4. QED
    BY <1>2, <1>3

-----------------------------------------------------------------------------
(* Directories and paths                                                    *)

(* A slot that holds a directory as it is on the disk.                      *)
Opening(s, k) == Held(s, k) /\ CoherentBut(s, 0) /\ s.ic[k].n.type = T_DIR

(* Its number, addresses and size are those of the directory.               *)
LEMMA DirectoryHeld ==
    ASSUME NEW s, NEW k, Opening(s, k), NEW d, d = s.ic[k].idx
    PROVE  /\ k \in Slots /\ Addressed(s, k, d) /\ d \in Directories(s.img)
           /\ s.ic[k].n = s.img.ino[d] /\ d # 0
<1>1. k \in Slots /\ d \in Inodes /\ (d # 0 => s.ic[k].n = s.img.ino[d])
    BY DEF Opening, Held, CoherentBut
<1>2. d # 0
    BY <1>1, Sizes
<1>3. QED
    BY <1>1, <1>2 DEF Opening, Addressed, Directories

(* Looking a name up in a directory; when it is not found it is not there.  *)
LEMMA LookupFinds ==
    ASSUME NEW s, State(s), Raw(s), NEW k \in Slots, s.ok => Opening(s, k), NEW name,
           ~Lookup(s, k, name).s.over
    PROVE  /\ Found(s, Lookup(s, k, name))
           /\ Lookup(s, k, name).s.ok /\ Lookup(s, k, name).k = 0 =>
                Fresh(Lookup(s, k, name).s.img, s.ic[k].idx, name)
<1> DEFINE size == s.ic[k].n.size
<1> DEFINE r == DataRead(s, k, 0, size)
<1> DEFINE at == FirstMatch(r.data, name)
<1> DEFINE q == DataRead(s, k, 0, at + 1).s
<1> DEFINE i == r.data[at + 1][1]
<1>1. PICK d : d = s.ic[k].idx
    OBVIOUS
<1>2. Lookup(s, k, name) = IF at = size THEN [s |-> r.s, k |-> 0] ELSE GetInode(q, i)
    BY DEF Lookup
<1>3. size \in Nat /\ size \in Int /\ size <= size
    BY SizeOf
<1>4. s.ok => /\ Addressed(s, k, d) /\ d \in Directories(s.img)
             /\ s.ic[k].n = s.img.ino[d] /\ CoherentBut(s, 0)
    BY <1>1, DirectoryHeld DEF Opening
<1>5. Got(s, r)
  <2> HIDE DEF size
  <2>1. QED
      BY <1>3, <1>4, DataReadSame
<1>6. /\ Len(r.data) = size
      /\ r.s.ok => \A u \in 1 .. size : r.data[u] = Unit(s.img, d, u - 1)
  <2>1. /\ Len(DataRead(s, k, 0, size).data) = size
        /\ \A m \in 0 .. size : DataRead(s, k, 0, m).s.ok =>
              \A u \in 1 .. m : DataRead(s, k, 0, size).data[u] = Unit(s.img, d, u - 1)
    <3>1. PICK n \in Nat : n = size /\ n <= s.ic[k].n.size
        BY <1>3
    <3>2. n <= s.ic[k].n.size
        BY <3>1
    <3>3. s.ok => Addressed(s, k, d) /\ d \in Directories(s.img)
        BY <1>4
    <3>4. /\ Len(DataRead(s, k, 0, n).data) = n
          /\ \A m \in 0 .. n : DataRead(s, k, 0, m).s.ok =>
                \A u \in 1 .. m : DataRead(s, k, 0, n).data[u] = Unit(s.img, d, u - 1)
        BY <3>2, <3>3, DirectoryRead
    <3> HIDE DEF size
    <3>5. QED
        BY <3>1, <3>4
  <2> HIDE DEF size
  <2>2. size \in 0 .. size
      BY <1>3
  <2>3. QED
      BY <2>1, <2>2
<1> DEFINE I == {j \in 1 .. Len(r.data) : Matches(name, r.data[j])}
<1>7. StopAt(r.data, I, at)
  <2>1. PICK S : r.data \in Seq(S)
      BY <1>5 DEF Got
  <2> HIDE DEF r
  <2>2. QED
      BY <2>1, StopsAt
<1>8. Offsets(s.img, d) = 0 .. s.img.ino[d].size - 1
    BY DEF Offsets
<1>9. ASSUME r.s.ok, at = size PROVE Fresh(r.s.img, d, name)
  <2>1. Same(s, r.s) /\ s.ok
      BY <1>5, <1>9 DEF Got, Same
  <2> HIDE DEF at, r
  <2>2. I = {}
      BY <1>6, <1>7, <1>9 DEF StopAt
  <2>3. size = s.img.ino[d].size /\ d \in Directories(s.img)
      BY <1>4, <2>1
  <2> HIDE DEF size
  <2>4. ASSUME NEW off \in Offsets(s.img, d), Unit(s.img, d, off)[1] # 0
        PROVE  Unit(s.img, d, off)[2] # name
    <3>1. off \in 0 .. size - 1
        BY <1>8, <2>3
    <3>2. PICK u \in 1 .. size : u = off + 1 /\ u - 1 = off
        BY <1>3, <3>1
    <3>3. r.data[u] = Unit(s.img, d, off)
        BY <1>6, <1>9, <3>2
    <3>4. ~Matches(name, r.data[u])
        BY <1>6, <2>2
    <3>5. QED
        BY <2>4, <3>3, <3>4 DEF Matches
  <2>5. Fresh(s.img, d, name)
      BY <2>3, <2>4 DEF Fresh
  <2>6. QED
      BY <2>1, <2>5, FreshSame
<1> HIDE DEF r, i, at, size, I
<1>10. Same(s, q)
  <2>1. at + 1 \in Int
      BY <1>3, <1>6, <1>7 DEF StopAt
  <2>2. QED
      BY <1>4, <2>1, DataReadSame DEF Got
<1> HIDE DEF q
<1>11. Moves(s, r.s, 0) /\ Moves(s, q, 0)
    BY <1>4, <1>5, <1>10, SameMoves DEF Got
<1>12. Found(s, [s |-> r.s, k |-> 0])
    BY <1>11 DEF Found
<1>13. q.ok => CoherentBut(q, i)
    BY <1>11, Sizes DEF Moves, CoherentBut
<1>14. CASE at = size
  <2>1. Lookup(s, k, name) = [s |-> r.s, k |-> 0]
      BY <1>2, <1>14
  <2>2. QED
      BY <1>1, <1>9, <1>12, <1>14, <2>1
<1>15. CASE at # size
  <2>1. Lookup(s, k, name) = GetInode(q, i)
      BY <1>2, <1>15
  <2>2. Raw(q)
      BY <1>10, SameRaw
  <2>3. /\ Found(q, GetInode(q, i))
        /\ GetInode(q, i).s.ok => Held(GetInode(q, i).s, GetInode(q, i).k)
      BY <1>11, <1>13, <2>1, <2>2, GetInodeFinds DEF Moves
  <2>4. Found(s, GetInode(q, i))
      BY <1>11, <2>3, MovesOn DEF Found, Moves
  <2>5. GetInode(q, i).s.ok => GetInode(q, i).k # 0
      BY <2>3 DEF Held, Slots
  <2>6. QED
      BY <2>1, <2>4, <2>5
<1>16. QED
    BY <1>14, <1>15

(* The cache of one state is that of another but for what inodes hold.      *)
SameSlots(s, t) ==
    State(t) /\ \A j \in Slots : t.ic[j].ref = s.ic[j].ref /\ t.ic[j].idx = s.ic[j].idx

(* A directory d in slot k with room for a name at offset at, which may be  *)
(* one more unit than the disk has.                                         *)
Roomy(s, k, d, name, at, t) ==
    /\ SameSlots(s, t) /\ CoherentBut(t, d) /\ t.img.ino = s.img.ino
    /\ Addressed(t, k, d) /\ t.ic[k].n.type = t.img.ino[d].type
    /\ \/ t.ic[k].n.size = t.img.ino[d].size
       \/ at = t.img.ino[d].size /\ t.ic[k].n.size = at + 1
    /\ at \in Nat /\ at < t.ic[k].n.size /\ Fresh(t.img, d, name)
    /\ t.ok => (at \in Offsets(t.img, d) => Unit(t.img, d, at)[1] = 0)

(* A step that leaves inodes and directories alone keeps such a directory.  *)
LEMMA SameRoomy ==
    ASSUME NEW s, State(s), NEW k, Opening(s, k), NEW d, s.ic[k].idx = d, NEW name,
           Fresh(s.img, d, name), NEW t, Same(s, t),
           NEW at \in Nat, at < s.ic[k].n.size, t.ok => Unit(s.img, d, at)[1] = 0
    PROVE  Roomy(s, k, d, name, at, t)
<1>1. /\ k \in Slots /\ Addressed(s, k, d) /\ d \in Directories(s.img)
      /\ s.ic[k].n = s.img.ino[d] /\ d # 0 /\ CoherentBut(s, 0)
    BY DirectoryHeld DEF Opening
<1>2. State(t) /\ t.ic = s.ic /\ t.img.ino = s.img.ino /\ Alike(s.img, t.img)
    BY DEF Same
<1>3. SameSlots(s, t) /\ Addressed(t, k, d)
    BY <1>1, <1>2 DEF SameSlots, Addressed
<1>4. CoherentBut(t, d)
    BY <1>1, <1>2, Sizes DEF CoherentBut
<1>5. Fresh(t.img, d, name)
    BY FreshSame
<1>6. ASSUME t.ok, at \in Offsets(t.img, d) PROVE Unit(t.img, d, at)[1] = 0
  <2>1. Offsets(t.img, d) = Offsets(s.img, d)
      BY <1>2 DEF Offsets
  <2>2. at \in FileUnits
      BY <1>1, <1>6, <2>1 DEF State, Disk, WellFormed, LaidOut
  <2>3. Unit(t.img, d, at) = Unit(s.img, d, at)
      BY <1>1, <1>2, <2>2 DEF Alike
  <2>4. QED
      BY <1>6, <2>3
<1>7. t.ic[k].n = t.img.ino[d]
    BY <1>1, <1>2
<1>8. at < t.ic[k].n.size
    BY <1>2
<1>9. QED
    BY <1>2, <1>3, <1>4, <1>5, <1>6, <1>7, <1>8 DEF Roomy

(* A directory that has grown by one unit.                                  *)
LEMMA GrownRoomy ==
    ASSUME NEW s, State(s), NEW k, Opening(s, k), NEW d, s.ic[k].idx = d, NEW name,
           Fresh(s.img, d, name), NEW t, Same(s, t),
           NEW v \in InodeSet, v.addr = s.ic[k].n.addr, v.type = s.ic[k].n.type,
           v.size = s.ic[k].n.size + 1
    PROVE  Roomy(s, k, d, name, s.ic[k].n.size, [t EXCEPT !.ic[k].n = v])
<1> DEFINE u == [t EXCEPT !.ic[k].n = v]
<1>1. /\ k \in Slots /\ Addressed(s, k, d) /\ d \in Directories(s.img) /\ d \in Inodes
      /\ s.ic[k].n = s.img.ino[d] /\ d # 0 /\ CoherentBut(s, 0) /\ Held(s, k)
    BY DirectoryHeld DEF Opening, Directories
<1>2. State(t) /\ t.ic = s.ic /\ t.img.ino = s.img.ino /\ Alike(s.img, t.img)
    BY DEF Same
<1>3. Held(t, k) /\ t.ic[k].idx = d /\ CoherentBut(t, d)
    BY <1>1, <1>2, Sizes DEF CoherentBut, Held
<1>4. /\ State(u) /\ u.img = t.img /\ u.ok = t.ok
      /\ \A j \in Slots : u.ic[j].ref = t.ic[j].ref /\ u.ic[j].idx = t.ic[j].idx
      /\ u.ic[k].n = v /\ CoherentBut(u, d)
  <2>1. State(t) /\ Held(t, k) /\ t.ic[k].idx = d /\ CoherentBut(t, d)
      BY <1>2, <1>3
  <2>2. Holding(t, k, d, v, u)
      BY <2>1, SetInode
  <2> HIDE DEF u
  <2>3. QED
      BY <2>2 DEF Holding
<1> HIDE DEF u
<1>5. SameSlots(s, u)
    BY <1>2, <1>4 DEF SameSlots
<1>6. Fresh(t.img, d, name)
    BY FreshSame
<1>7. PICK at \in Nat : at = s.ic[k].n.size
    BY <1>1, SizeOf
<1>8. at = u.img.ino[d].size /\ u.ic[k].n.size = at + 1 /\ at < at + 1
    BY <1>1, <1>2, <1>4, <1>7
<1>9. at \notin Offsets(u.img, d)
    BY <1>8 DEF Offsets
<1>10. Addressed(u, k, d) /\ u.ic[k].n.type = u.img.ino[d].type
    BY <1>1, <1>2, <1>4 DEF Addressed
<1>11. Roomy(s, k, d, name, at, u)
    BY <1>2, <1>4, <1>5, <1>6, <1>8, <1>9, <1>10 DEF Roomy
<1>12. QED
    BY <1>7, <1>11 DEF u

(* The name e is on the disk of w.                                          *)
NameIn(s, d, e, at, t, w) ==
    /\ State(w) /\ w.ic = t.ic /\ w.img.ino = s.img.ino
    /\ w.ok => /\ at \in FileUnits /\ Disk(t.img) /\ Entered(t.img, w.img, d, at, e)
               /\ at \in Offsets(t.img, d) => Unit(t.img, d, at)[1] = 0

(* It is written there.                                                     *)
LEMMA NameWritten ==
    ASSUME NEW s, NEW k \in Slots, NEW d, NEW name \in Texts, NEW at, NEW t,
           Roomy(s, k, d, name, at, t), NEW i \in Inodes, s.img.ino[i].type # 0,
           NEW w, w = DataWrite(t, k, at, << <<i, name>> >>).s
    PROVE  NameIn(s, d, <<i, name>>, at, t, w)
<1>1. /\ State(t) /\ Addressed(t, k, d) /\ Fresh(t.img, d, name) /\ t.img.ino = s.img.ino
      /\ at \in Nat /\ at < t.ic[k].n.size /\ Disk(t.img)
      /\ t.ok => (at \in Offsets(t.img, d) => Unit(t.img, d, at)[1] = 0)
    BY DEF Roomy, SameSlots, State
<1>2. CASE t.ok
  <2>1. t.img.ino[i].type # 0
      BY <1>1
  <2>2. /\ State(w) /\ w.ic = t.ic /\ w.img.ino = t.img.ino
        /\ w.ok => at \in FileUnits /\ Entered(t.img, w.img, d, at, <<i, name>>)
      BY <1>1, <1>2, <2>1, UnitWritten
  <2>3. QED
      BY <1>1, <1>2, <2>2 DEF NameIn
<1>3. CASE ~t.ok
  <2>1. PICK e : <<i, name>> = e
      OBVIOUS
  <2>2. e \in Units
      BY <2>1, Sizes DEF Units
  <2>3. PICK data : data = <<e>>
      OBVIOUS
  <2>4. data \in Seq(Units)
      BY <2>2, <2>3
  <2>5. Same(t, DataWrite(t, k, at, data).s)
      BY <1>1, <1>3, <2>4, DataWriteSame
  <2>6. Same(t, w)
      BY <2>1, <2>3, <2>5
  <2>7. QED
      BY <1>1, <1>3, <2>6 DEF Same, NameIn
<1>4. QED
    BY <1>2, <1>3

(* What entering a name for an inode comes to: the directory's inode has    *)
(* yet to be written.                                                       *)
Linked(s, d, k, t) ==
    /\ SameSlots(s, t) /\ CoherentBut(t, d) /\ t.img.ino = s.img.ino
    /\ \A im : t.ok /\ im = [t.img EXCEPT !.ino[d] = t.ic[k].n] => Disk(im)

(* The directory counts the name.                                           *)
LEMMA NameCounted ==
    ASSUME NEW s, State(s), NEW k \in Slots, Held(s, k), NEW d, s.ic[k].idx = d,
           NEW name, NEW at, NEW t, Roomy(s, k, d, name, at, t),
           NEW i \in Inodes, s.img.ino[i].type # 0,
           NEW e, <<i, name>> = e, NEW w, NameIn(s, d, e, at, t, w),
           NEW v \in InodeSet, v.addr = t.ic[k].n.addr, v.type = t.ic[k].n.type,
           v.size = t.ic[k].n.size
    PROVE  Linked(s, d, k, [w EXCEPT !.ic[k].n = v])
<1> DEFINE u == [w EXCEPT !.ic[k].n = v]
<1>1. /\ State(w) /\ w.ic = t.ic /\ w.img.ino = s.img.ino
      /\ w.ok => /\ at \in FileUnits /\ Disk(t.img) /\ Entered(t.img, w.img, d, at, e)
                 /\ at \in Offsets(t.img, d) => Unit(t.img, d, at)[1] = 0
    BY DEF NameIn
<1>2. /\ SameSlots(s, t) /\ CoherentBut(t, d) /\ t.img.ino = s.img.ino
      /\ Addressed(t, k, d) /\ t.ic[k].n.type = t.img.ino[d].type
      /\ \/ t.ic[k].n.size = t.img.ino[d].size
         \/ at = t.img.ino[d].size /\ t.ic[k].n.size = at + 1
      /\ Fresh(t.img, d, name)
    BY DEF Roomy
<1>3. Held(w, k) /\ w.ic[k].idx = d /\ CoherentBut(w, d)
  <2>1. Held(w, k)
      BY <1>1, <1>2 DEF SameSlots, Held
  <2>2. w.ic[k].idx = d
      BY <1>1, <1>2 DEF SameSlots
  <2>3. CoherentBut(w, d)
      BY <1>1, <1>2 DEF CoherentBut
  <2>4. QED
      BY <2>1, <2>2, <2>3
<1>4. /\ State(u) /\ u.img = w.img /\ u.ok = w.ok
      /\ \A j \in Slots : u.ic[j].ref = w.ic[j].ref /\ u.ic[j].idx = w.ic[j].idx
      /\ u.ic[k].n = v /\ CoherentBut(u, d)
  <2>1. State(w) /\ Held(w, k) /\ w.ic[k].idx = d /\ CoherentBut(w, d)
      BY <1>1, <1>3
  <2>2. Holding(w, k, d, v, u)
      BY <2>1, SetInode
  <2> HIDE DEF u
  <2>3. QED
      BY <2>2 DEF Holding
<1> HIDE DEF u
<1>5. SameSlots(s, u)
    BY <1>1, <1>2, <1>4 DEF SameSlots
<1>6. ASSUME NEW im, u.ok, im = [u.img EXCEPT !.ino[d] = u.ic[k].n] PROVE Disk(im)
  <2>1. PICK tm, wm : tm = t.img /\ wm = w.img
      OBVIOUS
  <2>2. /\ Disk(tm) /\ tm \in Images /\ d \in Directories(tm) /\ Entered(tm, wm, d, at, e)
        /\ wm.ino = tm.ino /\ at \in FileUnits /\ Fresh(tm, d, name)
        /\ at \in Offsets(tm, d) => Unit(tm, d, at)[1] = 0
      BY <1>1, <1>2, <1>4, <1>6, <2>1 DEF Disk, WellFormed, Fresh
  <2>3. /\ v.addr = tm.ino[d].addr /\ v.type = tm.ino[d].type
        /\ v.size = tm.ino[d].size \/ (at = tm.ino[d].size /\ v.size = at + 1)
      BY <1>2, <2>1 DEF Addressed
  <2>4. im = [wm EXCEPT !.ino[d] = v]
      BY <1>4, <1>6, <2>1
  <2>5. Entered(tm, im, d, at, e)
      BY <2>2, <2>3, <2>4, InodeEntered
  <2>6. tm.ino[i].type # 0
      BY <1>2, <2>1
  <2>7. Entered(tm, im, d, at, <<i, name>>)
      BY <2>5
  <2>8. QED
      BY <2>2, <2>6, <2>7, EnteredDisk
<1>7. Linked(s, d, k, u)
    BY <1>1, <1>4, <1>5, <1>6 DEF Linked
<1>8. QED
    BY <1>7 DEF u

(* tinyfs_data_linki.                                                       *)
LEMMA Links ==
    ASSUME NEW s, State(s), s.ok, NEW k, Opening(s, k), NEW d, s.ic[k].idx = d,
           NEW name \in Texts, Fresh(s.img, d, name), NEW i \in Inodes, s.img.ino[i].type # 0
    PROVE  Linked(s, d, k, Link(s, k, i, name))
<1> DEFINE size == s.ic[k].n.size
<1> DEFINE r == DataRead(s, k, 0, size)
<1> DEFINE at == FirstFree(r.data)
<1> DEFINE grown == [r.s EXCEPT !.ic[k].n.size = @ + 1]
<1> DEFINE q == DataRead(s, k, 0, at + 1).s
<1> DEFINE room == IF at = size THEN grown ELSE q
<1> DEFINE w == DataWrite(room, k, at, << <<i, name>> >>).s
<1>1. Link(s, k, i, name) = [w EXCEPT !.ic[k].n.n_link = @ + 1]
    BY DEF Link
<1>2. /\ k \in Slots /\ Addressed(s, k, d) /\ d \in Directories(s.img) /\ Held(s, k)
    BY DirectoryHeld DEF Opening
<1>3. size \in Nat /\ size \in Int /\ size <= size
    BY <1>2, SizeOf
<1>4. /\ Len(r.data) = size
      /\ \A m \in 0 .. size : DataRead(s, k, 0, m).s.ok =>
            \A u \in 1 .. m : r.data[u] = Unit(s.img, d, u - 1)
    BY <1>2, <1>3, DirectoryRead
<1>5. Got(s, r)
  <2> HIDE DEF size
  <2>1. QED
      BY <1>2, <1>3, DataReadSame
<1> DEFINE I == {j \in 1 .. Len(r.data) : r.data[j][1] = 0}
<1>6. StopAt(r.data, I, at)
  <2>1. PICK S : r.data \in Seq(S)
      BY <1>5 DEF Got
  <2> HIDE DEF r
  <2>2. QED
      BY <2>1, StopsAt
<1>7. Roomy(s, k, d, name, at, room)
  <2>1. CASE at = size
    <3> DEFINE v == [r.s.ic[k].n EXCEPT !.size = @ + 1]
    <3>1. grown = [r.s EXCEPT !.ic[k].n = v]
        OBVIOUS
    <3>2. Same(s, r.s)
        BY <1>5 DEF Got
    <3> HIDE DEF r
    <3>3. r.s.ic = s.ic
        BY <3>2 DEF Same
    <3>4. PICK n \in InodeSet : n = s.ic[k].n
        BY <1>2, SizeOf
    <3>5. /\ v \in InodeSet /\ v.addr = s.ic[k].n.addr /\ v.type = s.ic[k].n.type
          /\ v.size = s.ic[k].n.size + 1
      <4>1. v = [n EXCEPT !.size = @ + 1]
          BY <3>3, <3>4
      <4> HIDE DEF v
      <4>2. v \in InodeSet /\ v.addr = n.addr /\ v.type = n.type /\ v.size = n.size + 1
          BY <4>1 DEF InodeSet
      <4>3. QED
          BY <3>4, <4>2
    <3> HIDE DEF v, grown
    <3>6. Roomy(s, k, d, name, size, grown)
        BY <3>1, <3>2, <3>5, GrownRoomy
    <3>7. QED
        BY <2>1, <3>6
  <2>2. CASE at # size
    <3>1. at \in 0 .. size /\ at + 1 \in I
        BY <1>4, <1>6, <2>2 DEF StopAt
    <3> HIDE DEF at, size
    <3>2. at \in Nat /\ at < size /\ at + 1 \in Int /\ at + 1 \in 0 .. size
        BY <1>3, <2>2, <3>1
    <3>3. Same(s, q)
        BY <1>2, <3>2, DataReadSame DEF Got
    <3>4. ASSUME q.ok PROVE Unit(s.img, d, at)[1] = 0
      <4>1. at + 1 \in 1 .. at + 1 /\ at + 1 - 1 = at
          BY <3>2
      <4>2. r.data[at + 1] = Unit(s.img, d, at)
          BY <1>4, <3>2, <3>4, <4>1
      <4>3. r.data[at + 1][1] = 0
          BY <3>1
      <4>4. QED
          BY <4>2, <4>3
    <3> HIDE DEF q
    <3>5. at < s.ic[k].n.size
        BY <3>2 DEF size
    <3>6. Roomy(s, k, d, name, at, q)
        BY <3>2, <3>3, <3>4, <3>5, SameRoomy
    <3>7. QED
        BY <2>2, <3>6
  <2>3. QED
      BY <2>1, <2>2
<1> HIDE DEF room, at, r, size, I
<1> DEFINE v == [w.ic[k].n EXCEPT !.n_link = @ + 1]
<1>8. Link(s, k, i, name) = [w EXCEPT !.ic[k].n = v]
    BY <1>1
<1> HIDE DEF w
<1>9. w = DataWrite(room, k, at, << <<i, name>> >>).s
    BY DEF w
<1>10. PICK e : <<i, name>> = e
    OBVIOUS
<1>11. NameIn(s, d, e, at, room, w)
  <2>1. NameIn(s, d, <<i, name>>, at, room, w)
      BY <1>2, <1>7, <1>9, NameWritten
  <2>2. QED
      BY <1>10, <2>1
<1>12. PICK n \in InodeSet : w.ic[k].n = n /\ room.ic[k].n = n
    BY <1>2, <1>11, SizeOf DEF NameIn
<1>13. v \in InodeSet /\ v.addr = n.addr /\ v.type = n.type /\ v.size = n.size
  <2>1. v = [n EXCEPT !.n_link = @ + 1]
      BY <1>12
  <2> HIDE DEF v
  <2>2. QED
      BY <2>1 DEF InodeSet
<1> HIDE DEF v
<1>14. Linked(s, d, k, [w EXCEPT !.ic[k].n = v])
  <2>1. v.addr = room.ic[k].n.addr /\ v.type = room.ic[k].n.type /\ v.size = room.ic[k].n.size
      BY <1>12, <1>13
  <2>2. v \in InodeSet
      BY <1>13
  <2> HIDE DEF room, v, w
  <2>3. QED
      BY <1>2, <1>7, <1>10, <1>11, <2>1, <2>2, NameCounted
<1>15. QED
    BY <1>8, <1>14

(* A step that leaves the entries where they are keeps them.                *)
LEMMA SameSlotsMoves ==
    ASSUME NEW s, State(s), s.ok, NEW t, SameSlots(s, t), NEW i, CoherentBut(t, i)
    PROVE  Moves(s, t, i)
<1>1. Keeps(s, t)
    BY SlotType DEF SameSlots, Keeps
<1>2. QED
    BY <1>1 DEF SameSlots, Moves

(* One name of a path.                                                      *)
LEMMA ComponentFinds ==
    ASSUME NEW s, State(s), NEW t, Raw(t.s), Found(s, t), NEW name, ~Component(t, name).s.over
    PROVE  Found(s, Component(t, name))
<1>1. Moves(s, t.s, 0) /\ State(t.s) /\ (t.s.ok => CoherentBut(t.s, 0))
    BY DEF Found, Moves
<1>2. CASE t.k = 0 \/ ~t.s.ok
    BY <1>2 DEF Component
<1>3. CASE ~(t.k = 0 \/ ~t.s.ok) /\ t.s.ic[t.k].n.type # T_DIR
  <2>1. Component(t, name) = [s |-> t.s, k |-> 0]
      BY <1>3 DEF Component
  <2>2. QED
      BY <1>1, <2>1 DEF Found
<1>4. CASE ~(t.k = 0 \/ ~t.s.ok) /\ t.s.ic[t.k].n.type = T_DIR
  <2> DEFINE r == Lookup(t.s, t.k, name)
  <2>1. Component(t, name) = r
      BY <1>4 DEF Component
  <2>2. t.k \in Slots /\ Opening(t.s, t.k)
      BY <1>1, <1>4 DEF Found, Held, Opening
  <2>3. Found(t.s, r)
      BY <1>1, <2>1, <2>2, LookupFinds
  <2> HIDE DEF r
  <2>4. Moves(s, r.s, 0)
      BY <1>1, <2>3, MovesOn DEF Found, Moves
  <2>5. QED
      BY <2>1, <2>3, <2>4 DEF Found
<1>5. QED
    BY <1>2, <1>3, <1>4

(* namex, from the state in which the start has been raised.                *)
LEMMA WalkFinds ==
    ASSUME NEW s, Raw(s), NEW start \in Slots, s.ic[start].idx \in Inodes,
           NEW d, d = Dup(s, start),
           ~d.over => State(d) /\ (d.ok => Held(d, start) /\ CoherentBut(d, 0)),
           NEW path, Len(path) \in Nat, ~Walk(s, start, path).s.over
    PROVE  Found(d, Walk(s, start, path)) /\ ~d.over
<1>1. PICK g : IsWalk(g, s, start, path)
    BY WalkRun
<1>2. PICK N \in Nat : N = Len(path)
    OBVIOUS
<1> DEFINE a == [s |-> d, k |-> start]
<1> DEFINE G == {i \in 0 .. N : Ahead(d, g[i]) /\ (~g[i].s.over => Found(d, g[i]))}
<1>3. 0 \in G
  <2>1. g[0] = a
      BY <1>1 DEF IsWalk
  <2>2. Raw(d)
      BY RawDup DEF Onward
  <2>3. Ahead(d, a)
      BY <2>2, OnwardSelf DEF Ahead
  <2>4. ASSUME ~d.over PROVE Found(d, a)
    <3>1. Moves(d, d, 0)
        BY <2>4, KeepsSelf DEF Moves
    <3>2. QED
        BY <2>4, <3>1 DEF Found
  <2>5. a.s = d
      OBVIOUS
  <2> HIDE DEF a
  <2>6. QED
      BY <2>1, <2>3, <2>4, <2>5
<1>4. ASSUME NEW j \in 0 .. N - 1, j \in G PROVE j + 1 \in G
  <2>1. j + 1 \in 0 .. N /\ g[j + 1] = Component(g[j], path[j + 1])
      BY <1>1, <1>2 DEF IsWalk
  <2>2. Ahead(d, g[j]) /\ (~g[j].s.over => Found(d, g[j]))
      BY <1>4
  <2>3. PICK c : c = Component(g[j], path[j + 1])
      OBVIOUS
  <2>4. Ahead(d, c) /\ (g[j].s.over => c.s.over)
      BY <2>2, <2>3, RawComponent
  <2>5. ASSUME ~c.s.over PROVE Found(d, c)
    <3>1. Found(d, g[j]) /\ Raw(g[j].s)
        BY <2>2, <2>4, <2>5 DEF Ahead, Onward
    <3>2. ~d.over
        BY <2>4, <2>5 DEF Ahead, Onward
    <3>3. QED
        BY <2>3, <2>5, <3>1, <3>2, ComponentFinds
  <2>6. QED
      BY <2>1, <2>3, <2>4, <2>5
<1> HIDE DEF G
<1>5. N \in G
    BY <1>3, <1>4, ToTheEnd
<1>6. Ahead(d, g[N]) /\ (~g[N].s.over => Found(d, g[N]))
    BY <1>5 DEF G
<1>7. ~g[N].s.over
    BY <1>1, <1>2 DEF IsWalk
<1>8. ~d.over
    BY <1>6, <1>7 DEF Ahead, Onward
<1>9. QED
    BY <1>1, <1>2, <1>6, <1>7, <1>8 DEF IsWalk

(* A slot that agrees with the disk may be written there.                   *)
LEMMA SameInImage ==
    ASSUME NEW im \in Images, NEW i \in Inodes, NEW jm, jm = [im EXCEPT !.ino[i] = im.ino[i]]
    PROVE  jm = im
<1>1. /\ im = [magic |-> im.magic, bits |-> im.bits, ino |-> im.ino, blk |-> im.blk]
      /\ im.ino \in [Inodes -> InodeSet]
    BY ImageTypes
<1>2. [im.ino EXCEPT ![i] = im.ino[i]] = im.ino
    BY <1>1
<1>3. jm = [magic |-> im.magic, bits |-> im.bits, ino |-> [im.ino EXCEPT ![i] = im.ino[i]],
            blk |-> im.blk]
    BY <1>1
<1>4. QED
    BY <1>1, <1>2, <1>3

(* Both inodes are written after a name has been entered: first the new one, *)
(* which the disk has already, then the directory's.                        *)
LEMMA InodesWritten ==
    ASSUME NEW s, State(s), s.ok, NEW k, Held(s, k), NEW d, s.ic[k].idx = d,
           NEW j, Held(s, j), s.ic[j].idx # d, NEW t, Linked(s, d, k, t)
    PROVE  /\ Moves(s, MetaWrite(MetaWrite(t, j), k), 0)
           /\ MetaWrite(MetaWrite(t, j), k).ic = t.ic
<1> DEFINE t1 == MetaWrite(t, j)
<1> DEFINE t2 == MetaWrite(t1, k)
<1>1. /\ SameSlots(s, t) /\ CoherentBut(t, d) /\ State(t)
      /\ \A im : t.ok /\ im = [t.img EXCEPT !.ino[d] = t.ic[k].n] => Disk(im)
    BY DEF Linked, SameSlots
<1>2. Held(t, k) /\ Held(t, j) /\ t.ic[k].idx = d /\ t.ic[j].idx # d /\ k \in Slots /\ j \in Slots
    BY <1>1 DEF SameSlots, Held
<1>3. Moves(s, t, d)
    BY <1>1, SameSlotsMoves
<1>4. Moves(t, t1, d) /\ t1.ic = t.ic /\ (t1.ok => t1.img = t.img)
  <2>1. PICK x : x = t.ic[j].idx
      OBVIOUS
  <2>2. PICK im : im = [t.img EXCEPT !.ino[x] = t.ic[j].n]
      OBVIOUS
  <2>3. x \in Inodes /\ t.ic[j].n = t.img.ino[x]
      BY <1>1, <1>2, <2>1 DEF Held, CoherentBut
  <2>4. t.img \in Images /\ Disk(t.img)
      BY <1>1 DEF State, Disk, WellFormed
  <2>5. im = t.img
    <3>1. im = [t.img EXCEPT !.ino[x] = t.img.ino[x]]
        BY <2>2, <2>3
    <3>2. QED
        BY <2>3, <2>4, <3>1, SameInImage
  <2>6. t.ok => Held(t, j) /\ CoherentBut(t, d)
      BY <1>1, <1>2
  <2>7. t.ok => Disk(im)
      BY <2>4, <2>5
  <2>8. Moves(t, t1, d) /\ t1.ic = t.ic /\ (t1.ok => t1.img = im)
      BY <1>1, <1>2, <2>1, <2>2, <2>6, <2>7, MetaWrites
  <2>9. QED
      BY <2>5, <2>8
<1> HIDE DEF t1
<1>5. State(t1) /\ (t1.ok => t.ok /\ CoherentBut(t1, d)) /\ Held(t1, k)
    BY <1>2, <1>4 DEF Moves, Held
<1>6. Moves(t1, t2, 0) /\ t2.ic = t1.ic
  <2>1. PICK x : x = t1.ic[k].idx /\ x = d
      BY <1>2, <1>4
  <2>2. PICK im : im = [t1.img EXCEPT !.ino[x] = t1.ic[k].n]
      OBVIOUS
  <2>3. ASSUME t1.ok PROVE Disk(im)
    <3>1. im = [t.img EXCEPT !.ino[d] = t.ic[k].n]
        BY <1>4, <2>1, <2>2, <2>3
    <3>2. t.ok
        BY <1>5, <2>3
    <3>3. QED
        BY <1>1, <3>1, <3>2
  <2>4. t1.ok => Held(t1, k) /\ CoherentBut(t1, d)
      BY <1>5
  <2>5. x = t1.ic[k].idx /\ d = x
      BY <2>1
  <2>6. QED
      BY <1>2, <1>5, <2>2, <2>3, <2>4, <2>5, MetaWrites
<1> HIDE DEF t2
<1>7. State(t2) /\ (t2.ok => t1.ok)
    BY <1>6 DEF Moves
<1>8. Moves(s, t1, d)
    BY <1>3, <1>4, <1>5, MovesOn
<1>9. Moves(s, t2, 0)
    BY <1>6, <1>7, <1>8, MovesOn
<1>10. QED
    BY <1>4, <1>6, <1>9 DEF t1, t2

(* do_createi                                                               *)
LEMMA CreateIFinds ==
    ASSUME NEW s, Raw(s), NEW start \in Slots, s.ic[start].idx \in Inodes,
           NEW d, d = Dup(s, start),
           ~d.over => State(d) /\ (d.ok => Held(d, start) /\ CoherentBut(d, 0)),
           NEW path \in Seq(STRING), path # <<>>,
           NEW type \in {T_FILE, T_DEV}, NEW major \in Nat,
           ~CreateI(s, start, path, type, major).s.over
    PROVE  Found(d, CreateI(s, start, path, type, major)) /\ ~d.over
<1> DEFINE w == Walk(s, start, Front(path))
<1> DEFINE dp == WalkParent(s, start, path)
<1> DEFINE old == Lookup(dp.s, dp.k, Last(path))
<1> DEFINE new == Alloci(old.s, type, major)
<1> DEFINE t == Link(new.s, dp.k, new.s.ic[new.k].idx, Last(path))
<1> DEFINE t1 == MetaWrite(t, new.k)
<1> DEFINE t2 == MetaWrite(t1, dp.k)
<1> DEFINE kept == IF type = T_FILE /\ old.s.ic[old.k].n.type = T_FILE THEN old.k ELSE 0
<1>1. CreateI(s, start, path, type, major) =
        IF dp.k = 0 \/ ~dp.s.ok THEN dp
        ELSE IF ~old.s.ok THEN old
        ELSE IF old.k # 0 THEN [old EXCEPT !.k = kept]
        ELSE IF ~new.s.ok THEN new
        ELSE [s |-> t2, k |-> new.k]
    BY Zenon DEF CreateI
<1>2. Len(Front(path)) \in Nat
  <2>1. Front(path) \in Seq(STRING)
      BY DEF Front
  <2>2. QED
      BY <2>1
<1>3. PICK r : r = CreateI(s, start, path, type, major)
    OBVIOUS
<1>4. /\ ~dp.s.over
      /\ dp.k # 0 /\ dp.s.ok => ~old.s.over
      /\ dp.k # 0 /\ dp.s.ok /\ old.s.ok /\ old.k = 0 => ~new.s.over
  <2> HIDE DEF dp, old, new
  <2>1. dp = WalkParent(s, start, path) /\ old = Lookup(dp.s, dp.k, Last(path))
      BY DEF dp, old
  <2>2. new = Alloci(old.s, type, major)
      BY DEF new
  <2>3. QED
      BY <1>2, <1>3, <2>1, <2>2, RawCreateI
<1>5. Raw(dp.s) /\ w.s = dp.s
    BY <1>2, RawWalkParent DEF Ahead, Onward
<1>6. Found(d, dp) /\ (dp.k # 0 /\ dp.s.ok => dp.s.ic[dp.k].n.type = T_DIR) /\ ~d.over
  <2>1. Found(d, w) /\ ~d.over
      BY <1>2, <1>4, <1>5, WalkFinds
  <2>2. dp = IF w.k # 0 /\ w.s.ok /\ w.s.ic[w.k].n.type # T_DIR THEN [w EXCEPT !.k = 0] ELSE w
      BY DEF WalkParent
  <2> HIDE DEF w, dp
  <2>3. [w EXCEPT !.k = 0] = [s |-> w.s, k |-> 0]
    <3>1. PICK a, b : w = [s |-> a, k |-> b]
        BY <2>1 DEF Found
    <3>2. QED
        BY <3>1
  <2>4. Found(d, [s |-> w.s, k |-> 0])
      BY <2>1 DEF Found
  <2>5. QED
      BY <2>1, <2>2, <2>3, <2>4
<1>7. State(d) /\ (d.ok => Held(d, start) /\ CoherentBut(d, 0))
    BY <1>6
<1> HIDE DEF dp
<1>8. CASE dp.k = 0 \/ ~dp.s.ok
    BY <1>1, <1>6, <1>8
<1>9. CASE ~(dp.k = 0 \/ ~dp.s.ok)
  <2>1. Moves(d, dp.s, 0) /\ State(dp.s) /\ Held(dp.s, dp.k) /\ dp.k \in Slots /\ CoherentBut(dp.s, 0)
      BY <1>6, <1>9 DEF Found, Moves, Held
  <2>2. Opening(dp.s, dp.k)
      BY <1>6, <1>9, <2>1 DEF Opening
  <2>3. PICK di : dp.s.ic[dp.k].idx = di
      OBVIOUS
  <2>4. Found(dp.s, old) /\ (old.s.ok /\ old.k = 0 => Fresh(old.s.img, di, Last(path)))
    <3>1. dp.k # 0 /\ dp.s.ok
        BY <1>9
    <3>2. ~Lookup(dp.s, dp.k, Last(path)).s.over
        BY <1>4, <3>1
    <3>3. QED
        BY <1>5, <2>1, <2>2, <2>3, <3>2, LookupFinds
  <2>11. Raw(old.s)
      BY <1>5, <2>1, RawLookup DEF Ahead, Onward
  <2> HIDE DEF old
  <2>5. Moves(d, old.s, 0) /\ State(old.s) /\ old = [s |-> old.s, k |-> old.k]
      BY <1>7, <2>1, <2>4, MovesOn DEF Found, Moves
  <2>6. Found(d, old)
      BY <2>4, <2>5 DEF Found
  <2>7. CASE ~old.s.ok
      BY <1>1, <1>6, <1>9, <2>6, <2>7
  <2>8. CASE old.s.ok /\ old.k # 0
    <3>1. [old EXCEPT !.k = kept] = [s |-> old.s, k |-> kept]
      <4>1. PICK a, b : old = [s |-> a, k |-> b]
          BY <2>5
      <4> HIDE DEF kept
      <4>2. QED
          BY <4>1
    <3>2. Found(d, [s |-> old.s, k |-> kept])
        BY <2>6 DEF Found
    <3>3. QED
        BY <1>1, <1>6, <1>9, <2>8, <3>1, <3>2
  <2>9. CASE old.s.ok /\ old.k = 0
    <3>1. /\ Found(old.s, new)
          /\ new.s.ok => Taken(old.s, new)
      <4>1. old.s.ok => CoherentBut(old.s, 0)
          BY <2>5 DEF Moves
      <4>2. ~new.s.over
          BY <1>4, <1>9, <2>9
      <4>3. QED
          BY <2>5, <2>11, <4>1, <4>2, AllociFinds
    <3> HIDE DEF new
    <3>2. Moves(d, new.s, 0) /\ State(new.s) /\ new = [s |-> new.s, k |-> new.k]
        BY <1>7, <2>5, <3>1, MovesOn DEF Found, Moves
    <3>3. CASE ~new.s.ok
      <4>1. Found(d, new)
          BY <3>2, <3>3 DEF Found
      <4>2. QED
          BY <1>1, <1>6, <1>9, <2>9, <3>3, <4>1
    <3>4. CASE new.s.ok
      <4>1. /\ Held(new.s, new.k) /\ CoherentBut(new.s, 0) /\ new.s.ok
            /\ Keeps(dp.s, old.s) /\ Keeps(old.s, new.s)
          BY <2>4, <2>9, <3>1, <3>4 DEF Found, Moves, Taken
      <4>2. Held(new.s, dp.k) /\ new.s.ic[dp.k].idx = di
        <5>1. dp.s.ic[dp.k].ref \in Nat /\ old.s.ic[dp.k].ref \in Nat /\ new.s.ic[dp.k].ref \in Nat
            BY <2>1, <2>5, <3>2, SlotType
        <5>2. /\ old.s.ic[dp.k].ref >= dp.s.ic[dp.k].ref /\ dp.s.ic[dp.k].ref > 0
              /\ old.s.ic[dp.k].idx = di
            BY <2>1, <2>3, <4>1 DEF Keeps, Held
        <5>3. new.s.ic[dp.k].ref >= old.s.ic[dp.k].ref /\ new.s.ic[dp.k].idx = di
            BY <2>1, <4>1, <5>1, <5>2 DEF Keeps
        <5>4. QED
            BY <2>1, <5>1, <5>2, <5>3 DEF Held
      <4>3. PICK name \in Texts : name = Last(path)
        <5>1. Last(path) \in STRING
          <6>1. Len(path) \in 1 .. Len(path)
              BY EmptySeq
          <6>2. QED
              BY <6>1 DEF Last
        <5>2. QED
            BY <5>1 DEF Texts
      <4>4. PICK i : new.s.ic[new.k].idx = i
          OBVIOUS
      <4>5. /\ i \in Inodes /\ i \notin Directories(new.s.img) /\ new.s.img.ino[i].type # 0
            /\ Fresh(new.s.img, di, name)
          BY <2>4, <2>9, <3>1, <3>4, <4>3, <4>4 DEF Taken
      <4>6. di \in Directories(new.s.img) /\ i # di
          BY <4>5 DEF Fresh
      <4>7. Opening(new.s, dp.k)
        <5>1. di # 0 /\ di \in Inodes /\ new.s.img.ino[di].type = T_DIR
            BY <4>6, Sizes DEF Directories
        <5>2. new.s.ic[dp.k].n = new.s.img.ino[di]
            BY <4>1, <4>2, <5>1 DEF CoherentBut, Held
        <5>3. QED
            BY <4>1, <4>2, <5>1, <5>2 DEF Opening
      <4>8. Linked(new.s, di, dp.k, Link(new.s, dp.k, i, name))
          BY <3>2, <3>4, <4>2, <4>5, <4>7, Links
      <4>9. Linked(new.s, di, dp.k, t)
          BY <4>3, <4>4, <4>8
      <4> HIDE DEF t
      <4>10. Moves(new.s, t2, 0) /\ t2.ic = t.ic
          BY <3>2, <3>4, <4>1, <4>2, <4>4, <4>6, <4>9, InodesWritten
      <4> HIDE DEF t2
      <4>11. State(t2) /\ (t2.ok => new.s.ok)
          BY <4>10 DEF Moves
      <4>12. Moves(d, t2, 0)
          BY <1>7, <3>2, <3>4, <4>10, <4>11, MovesOn
      <4>13. Held(t2, new.k)
          BY <4>1, <4>9, <4>10 DEF Held, Linked, SameSlots
      <4>14. Found(d, [s |-> t2, k |-> new.k])
          BY <4>12, <4>13 DEF Found
      <4>15. QED
          BY <1>1, <1>6, <1>9, <2>9, <3>4, <4>14
    <3>5. QED
        BY <3>3, <3>4
  <2>10. QED
      BY <2>7, <2>8, <2>9
<1>10. QED
    BY <1>6, <1>8, <1>9

-----------------------------------------------------------------------------
(* Every table between calls, whatever has wrapped around                   *)

(* The file table and the descriptors.                                      *)
Shaped ==
    /\ Tables(Slots \cup {0}, Nat)
    /\ \A f \in Files : file[f].ip \in Slots \cup {0}

(* A descriptor leads to an entry of the cache, and a root to one that has  *)
(* had an inode.                                                            *)
Pointed ==
    /\ \A p \in Procs, i \in Fds : proc[p].ofile[i] # 0 => file[proc[p].ofile[i]].ip \in Slots
    /\ \A p \in Procs : proc[p].cwd # 0 => ic[proc[p].cwd].idx \in Inodes

(* The invariant of the types.                                              *)
Sound ==
    /\ Shaped /\ Framed(img) /\ ic \in Caches /\ Named(ic)
    /\ wild \in BOOLEAN /\ wrapped \in BOOLEAN
    /\ wild \/ Pointed

(* A call starts from it.                                                   *)
LEMMA RawStart ==
    ASSUME Sound
    PROVE  /\ Raw(Start) /\ Start.ic = ic /\ Start.img = img /\ Start.over = FALSE
           /\ Start.ok = TRUE
<1>1. /\ Fields(Start) /\ Start.ok = TRUE /\ Start.ic = ic /\ Start.img = img
      /\ Start.log = <<>> /\ Start.over = FALSE
    BY DEF Start, Fields
<1>2. <<>> \in Seq({}) /\ Len(<<>>) = 0
    OBVIOUS
<1>3. QED
    BY <1>1, <1>2 DEF Sound, Raw

(* What a call leaves of the disk and the cache.                            *)
Settles ==
    /\ Framed(img') /\ ic' \in Caches /\ Named(ic')
    /\ wild' \in BOOLEAN /\ wrapped' \in BOOLEAN
    /\ \A k \in Slots : ic[k].idx \in Inodes => ic'[k].idx \in Inodes
LEMMA CommitSettles == ASSUME Sound, NEW s, Onward(Start, s), Commit(s) PROVE Settles
<1>1. /\ Framed(s.img) /\ s.ic \in Caches /\ Named(s.ic)
      /\ \A k \in Slots : ic[k].idx \in Inodes => s.ic[k].idx \in Inodes
    BY RawStart DEF Onward, Raw
<1>2. /\ img' = s.img /\ (ic' = s.ic \/ ic' = ic)
      /\ wild' = ~s.ok /\ wrapped' = (wrapped \/ s.over)
    BY DEF Commit
<1>3. ic \in Caches /\ Named(ic)
    BY DEF Sound
<1>4. Framed(img') /\ wild' \in BOOLEAN /\ wrapped' \in BOOLEAN
    BY <1>1, <1>2
<1>5. CASE ic' = s.ic
    BY <1>1, <1>4, <1>5 DEF Settles
<1>6. CASE ic' = ic
    BY <1>3, <1>4, <1>6 DEF Settles
<1>7. QED
    BY <1>2, <1>5, <1>6

(* What is left to show of a call.                                          *)
LEMMA SoundEnds == ASSUME Settles, Shaped', wild' \/ Pointed' PROVE Sound'
<1>1. Framed(img)' /\ Named(ic)' /\ (ic \in Caches)' /\ (wild \in BOOLEAN /\ wrapped \in BOOLEAN)'
    BY DEF Settles
<1>2. QED
    BY <1>1 DEF Sound

(* Processes that have only what some process had before.                   *)
LEMMA StillPointed ==
    ASSUME Sound, ~wild, Settles, \A f \in Files : file'[f].ip = file[f].ip,
           \A p \in Procs, i \in Fds : proc'[p].ofile[i] = 0 \/
              \E q \in Procs, j \in Fds : proc'[p].ofile[i] = proc[q].ofile[j],
           \A p \in Procs : proc'[p].cwd = 0 \/ \E q \in Procs : proc'[p].cwd = proc[q].cwd
    PROVE  Pointed'
<1>1. Tables(Slots \cup {0}, Nat) /\ Pointed
    BY DEF Sound, Shaped
<1>2. ASSUME NEW p \in Procs, NEW i \in Fds, NEW f, f = proc'[p].ofile[i], f # 0
      PROVE  file'[f].ip \in Slots
  <2>1. PICK q \in Procs, j \in Fds : f = proc[q].ofile[j]
      BY <1>2
  <2>2. f \in Files /\ file[f].ip \in Slots
      BY <1>1, <1>2, <2>1 DEF Tables, Pointed
  <2>3. QED
      BY <2>2
<1>3. ASSUME NEW p \in Procs, NEW c, c = proc'[p].cwd, c # 0 PROVE ic'[c].idx \in Inodes
  <2>1. PICK q \in Procs : c = proc[q].cwd
      BY <1>3
  <2>2. c \in Slots /\ ic[c].idx \in Inodes
      BY <1>1, <1>3, <2>1 DEF Tables, Pointed
  <2>3. QED
      BY <2>2 DEF Settles
<1>4. QED
    BY <1>2, <1>3 DEF Pointed

(* A call that only computes on a state.                                    *)
LEMMA ComputedSound ==
    ASSUME Sound, ~wild, NEW s, Onward(Start, s), Commit(s), UNCHANGED <<file, proc>>
    PROVE  Sound'
<1>1. Settles
    BY CommitSettles
<1>2. Shaped'
    BY DEF Sound, Shaped, Tables
<1>3. Pointed'
    BY <1>1, StillPointed
<1>4. QED
    BY <1>1, <1>2, <1>3, SoundEnds

(* The tables of a kernel that starts.                                      *)
LEMMA NewTables ==
    ASSUME NEW F, F = [f \in Files |-> NoFile],
           NEW P, P = [p \in Procs |-> [NoProc EXCEPT !.live = (p = 1)]]
    PROVE  /\ F \in [Files -> [ref : Int, ip : Nat, off : Nat, of : Nat]]
           /\ \A f \in Files : F[f].ip = 0
           /\ P \in [Procs -> [live : BOOLEAN, ofile : [Fds -> Files \cup {0}],
                               cwd : Slots \cup {0}]]
           /\ \A p \in Procs : /\ P[p].live = (p = 1) /\ P[p].cwd = 0
                              /\ \A i \in Fds : P[p].ofile[i] = 0
<1>1. F \in [Files -> [ref : Int, ip : Nat, off : Nat, of : Nat]] /\ \A f \in Files : F[f].ip = 0
    BY DEF NoFile
<1>2. \A p \in Procs : [NoProc EXCEPT !.live = (p = 1)] =
                         [live |-> (p = 1), ofile |-> [i \in Fds |-> 0], cwd |-> 0]
    BY DEF NoProc
<1>3. \A b \in BOOLEAN : [live |-> b, ofile |-> [i \in Fds |-> 0], cwd |-> 0] \in
                 [live : BOOLEAN, ofile : [Fds -> Files \cup {0}], cwd : Slots \cup {0}]
    OBVIOUS
<1>4. \A p \in Procs : [NoProc EXCEPT !.live = (p = 1)] \in
                 [live : BOOLEAN, ofile : [Fds -> Files \cup {0}], cwd : Slots \cup {0}]
    BY <1>2, <1>3
<1>5. P \in [Procs -> [live : BOOLEAN, ofile : [Fds -> Files \cup {0}], cwd : Slots \cup {0}]]
    BY <1>4
<1>6. \A p \in Procs : /\ P[p].live = (p = 1) /\ P[p].cwd = 0
                       /\ \A i \in Fds : P[p].ofile[i] = 0
    BY DEF NoProc
<1>7. QED
    BY <1>1, <1>5, <1>6

(* The cache of a kernel that starts.                                       *)
LEMMA NewCaches ==
    ASSUME NEW c, c = [k \in Slots |-> NoInode]
    PROVE  c \in Caches /\ \A k \in Slots : c[k].ref = 0
<1>1. NewInode(0, 0) \in InodeSet
  <2>1. [i \in 0 .. ND |-> 0] \in [0 .. ND -> Nat]
      OBVIOUS
  <2>2. QED
      BY <2>1 DEF NewInode, InodeSet
<1>2. 0 \in 0 .. RefMod - 1
    BY CacheSizes
<1>3. NoInode.ref = 0 /\ NoInode \in [ref : 0 .. RefMod - 1, idx : Inodes \cup {0}, n : InodeSet]
    BY <1>1, <1>2 DEF NoInode
<1>4. QED
    BY <1>3 DEF Caches

(* Power comes back with an empty cache, and an empty table.                *)
LEMMA PowerSound == ASSUME Sound, NEW im, Framed(im), NEW o, PowerOn(im, o) PROVE Sound'
<1>1. /\ img' = im /\ ic' = [k \in Slots |-> NoInode] /\ wild' = wild
      /\ wrapped' = (wrapped \/ o)
      /\ file' = [f \in Files |-> NoFile]
      /\ proc' = [p \in Procs |-> [NoProc EXCEPT !.live = (p = 1)]]
    BY DEF PowerOn
<1>2. ic' \in Caches /\ \A k \in Slots : ic'[k].ref = 0
    BY <1>1, NewCaches
<1>3. PICK F, P : file' = F /\ proc' = P
    OBVIOUS
<1>4. /\ F \in [Files -> [ref : Int, ip : Nat, off : Nat, of : Nat]]
      /\ \A f \in Files : F[f].ip = 0
      /\ P \in [Procs -> [live : BOOLEAN, ofile : [Fds -> Files \cup {0}],
                          cwd : Slots \cup {0}]]
      /\ \A p \in Procs : /\ P[p].live = (p = 1) /\ P[p].cwd = 0
                         /\ \A i \in Fds : P[p].ofile[i] = 0
    BY <1>1, <1>3, NewTables
<1>5. Shaped'
    BY <1>3, <1>4 DEF Shaped, Tables
<1>6. Pointed'
    BY <1>3, <1>4 DEF Pointed
<1>7. Framed(img)' /\ Named(ic)'
    BY <1>1, <1>2 DEF Named
<1>8. (wild \in BOOLEAN /\ wrapped \in BOOLEAN)'
    BY <1>1 DEF Sound
<1>9. QED
    BY <1>2, <1>5, <1>6, <1>7, <1>8 DEF Sound
LEMMA CutSound == ASSUME Sound, NEW s, Raw(s), Cut(s) PROVE Sound'
<1>1. PICK i \in DOMAIN s.log : PowerOn(s.log[i], s.over)
    BY DEF Cut
<1>2. Framed(s.log[i])
  <2>1. PICK S : s.log \in Seq(S)
      BY DEF Raw
  <2>2. i \in 1 .. Len(s.log)
      BY <2>1
  <2>3. QED
      BY <2>2 DEF Raw
<1>3. QED
    BY <1>1, <1>2, PowerSound

(* open gives a descriptor for the inode it has found.                      *)
LEMMA OpenedSound ==
    ASSUME Sound, ~wild, NEW p \in Procs, NEW r, Ahead(Start, r), Opened(p, r)
    PROVE  Sound'
<1>1. Commit(r.s) /\ Onward(Start, r.s) /\ r.k \in Slots \cup {0} /\ Settles
    BY CommitSettles DEF Ahead, Opened
<1>2. Tables(Slots \cup {0}, Nat) /\ \A f \in Files : file[f].ip \in Slots \cup {0}
    BY DEF Sound, Shaped
<1>3. CASE UNCHANGED <<file, proc>>
    BY <1>1, <1>3, ComputedSound
<1>4. CASE FreeFile # 0 /\ file' = [file EXCEPT ![FreeFile].ref = 1] /\ proc' = proc
  <2>1. FreeFile \in Files
      BY <1>2, <1>4, FreeFacts
  <2> HIDE DEF FreeFile
  <2>2. Shaped'
      BY <1>2, <1>4, <2>1 DEF Shaped, Tables
  <2>3. \A f \in Files : file'[f].ip = file[f].ip
      BY <1>2, <1>4, <2>1 DEF Tables
  <2>4. Pointed'
      BY <1>1, <1>4, <2>3, StillPointed
  <2>5. QED
      BY <1>1, <2>2, <2>4, SoundEnds
<1>5. CASE /\ FreeFile # 0 /\ FreeFd(p) # -1 /\ r.k # 0
           /\ file' = [file EXCEPT ![FreeFile] = [ref |-> 1, ip |-> r.k, off |-> 0,
                                                 of |-> r.s.ic[r.k].idx]]
           /\ proc' = [proc EXCEPT ![p].ofile[FreeFd(p)] = FreeFile]
  <2>1. PICK g, i, x : g = FreeFile /\ i = FreeFd(p) /\ x = r.s.ic[r.k].idx
      OBVIOUS
  <2>2. g \in Files /\ i \in Fds
      BY <1>2, <1>5, <2>1, FreeFacts
  <2>3. /\ file' = [file EXCEPT ![g] = [ref |-> 1, ip |-> r.k, off |-> 0, of |-> x]]
        /\ proc' = [proc EXCEPT ![p].ofile[i] = g]
      BY <1>5, <2>1
  <2>4. r.k \in Slots /\ x \in Nat
    <3>1. r.k \in Slots /\ r.s.ic \in Caches
        BY <1>1, <1>5 DEF Onward, Raw
    <3>2. x \in Inodes \cup {0}
        BY <2>1, <3>1 DEF Caches
    <3>3. QED
        BY <3>1, <3>2 DEF Inodes
  <2>5. /\ file'[g].ip = r.k /\ \A f \in Files : f # g => file'[f] = file[f]
      BY <1>2, <2>2, <2>3 DEF Tables
  <2>6. Shaped'
    <3>1. r.k \in Nat /\ x \in Nat /\ 0 \in Nat /\ 1 \in Int
        BY <2>4 DEF Slots
    <3>2. file' \in [Files -> [ref : Int, ip : Nat, off : Nat, of : Nat]]
        BY <1>2, <2>2, <2>3, <3>1 DEF Tables
    <3>3. proc' \in [Procs -> [live : BOOLEAN, ofile : [Fds -> Files \cup {0}],
                               cwd : Slots \cup {0}]]
        BY <1>2, <2>2, <2>3 DEF Tables
    <3>4. \A f \in Files : file'[f].ip \in Slots \cup {0}
        BY <1>2, <2>4, <2>5
    <3>5. QED
        BY <3>2, <3>3, <3>4 DEF Shaped, Tables
  <2>7. /\ \A q \in Procs : \A j \in Fds :
              proc'[q].ofile[j] = IF q = p /\ j = i THEN g ELSE proc[q].ofile[j]
        /\ \A q \in Procs : proc'[q].cwd = proc[q].cwd
      BY <1>2, <2>2, <2>3 DEF Tables
  <2>8. Pointed'
    <3>1. ASSUME NEW q \in Procs, NEW j \in Fds, NEW f, f = proc'[q].ofile[j], f # 0
          PROVE  file'[f].ip \in Slots
      <4>1. CASE f = g
          BY <2>4, <2>5, <4>1
      <4>2. CASE f # g
        <5>1. f = proc[q].ofile[j] /\ f \in Files
            BY <1>2, <2>7, <3>1, <4>2 DEF Tables
        <5>2. file[f].ip \in Slots
            BY <3>1, <5>1 DEF Sound, Pointed
        <5>3. QED
            BY <2>5, <4>2, <5>1, <5>2
      <4>3. QED
          BY <4>1, <4>2
    <3>2. ASSUME NEW q \in Procs, NEW c, c = proc'[q].cwd, c # 0 PROVE ic'[c].idx \in Inodes
      <4>1. c = proc[q].cwd /\ c \in Slots
          BY <1>2, <2>7, <3>2 DEF Tables
      <4>2. ic[c].idx \in Inodes
          BY <3>2, <4>1 DEF Sound, Pointed
      <4>3. QED
          BY <1>1, <4>1, <4>2 DEF Settles
    <3>3. QED
        BY <3>1, <3>2 DEF Pointed
  <2>9. QED
      BY <1>1, <2>6, <2>8, SoundEnds
<1>6. CASE ~(~r.s.ok \/ r.k = 0 \/ FreeFile = 0) /\ FreeFd(p) = -1
  <2>1. FreeFile # 0 /\ file' = [file EXCEPT ![FreeFile].ref = 1] /\ proc' = proc
      BY <1>6 DEF Opened
  <2>2. QED
      BY <1>4, <2>1
<1>7. CASE ~(~r.s.ok \/ r.k = 0 \/ FreeFile = 0) /\ FreeFd(p) # -1
  <2>1. /\ FreeFile # 0 /\ r.k # 0
        /\ file' = [file EXCEPT ![FreeFile] = [ref |-> 1, ip |-> r.k, off |-> 0,
                                              of |-> r.s.ic[r.k].idx]]
        /\ proc' = [proc EXCEPT ![p].ofile[FreeFd(p)] = FreeFile]
      BY <1>7 DEF Opened
  <2>2. QED
      BY <1>5, <1>7, <2>1
<1>8. QED
    BY <1>3, <1>6, <1>7 DEF Opened

(* read and write move an offset.                                           *)
LEMMA TransferredSound ==
    ASSUME Sound, ~wild, NEW s, Onward(Start, s), Commit(s), NEW f \in Files, NEW d \in Int,
           file' = (IF d > 0 THEN [file EXCEPT ![f].off = @ + d] ELSE file), proc' = proc
    PROVE  Sound'
<1>1. Tables(Slots \cup {0}, Nat) /\ \A g \in Files : file[g].ip \in Slots \cup {0}
    BY DEF Sound, Shaped
<1>2. /\ file' \in [Files -> [ref : Int, ip : Nat, off : Nat, of : Nat]]
      /\ \A g \in Files : file'[g].ip = file[g].ip
  <2>1. CASE d > 0
    <3>1. file[f] \in [ref : Int, ip : Nat, off : Nat, of : Nat]
        BY <1>1 DEF Tables
    <3>2. file[f].off + d \in Nat
        BY <2>1, <3>1
    <3>3. file' = [file EXCEPT ![f].off = file[f].off + d]
        BY <2>1
    <3>4. QED
        BY <1>1, <3>2, <3>3 DEF Tables
  <2>2. CASE ~(d > 0)
      BY <1>1, <2>2 DEF Tables
  <2>3. QED
      BY <2>1, <2>2
<1>3. Shaped'
    BY <1>1, <1>2 DEF Shaped, Tables
<1>4. Settles
    BY CommitSettles
<1>5. Pointed'
    BY <1>2, <1>4, StillPointed
<1>6. QED
    BY <1>3, <1>4, <1>5, SoundEnds

(* The file behind an open descriptor.                                      *)
LEMMA FileSound ==
    ASSUME Sound, ~wild, NEW p \in Procs, NEW fd \in Fds, NEW f, At(p, fd) = f, f # 0
    PROVE  f \in Files /\ file[f].ip \in Slots /\ file[f].off \in Nat
<1>1. f = proc[p].ofile[fd]
    BY DEF At
<1>2. QED
    BY <1>1 DEF Sound, Shaped, Tables, Pointed
LEMMA ReadSound ==
    ASSUME Sound, ~wild, NEW p \in Procs, NEW fd \in Fds, NEW n \in Counts, SysRead(p, fd, n)
    PROVE  Sound'
<1>1. PICK f, k, off : At(p, fd) = f /\ file[f].ip = k /\ file[f].off = off
    OBVIOUS
<1>2. PICK r : r = DataRead(Start, k, off, n)
    OBVIOUS
<1>3. f # 0 /\ Commit(r.s) /\ proc' = proc
      /\ file' = IF r.ret > 0 THEN [file EXCEPT ![f].off = @ + r.ret] ELSE file
    BY <1>1, <1>2 DEF SysRead, Regular
<1>4. f \in Files /\ k \in Slots /\ off \in Nat /\ n \in Int
    BY <1>1, <1>3, FileSound, CallsOK
<1>5. Onward(Start, r.s) /\ r.ret \in Int
    BY <1>2, <1>4, RawStart, RawDataRead
<1>6. QED
    BY <1>3, <1>4, <1>5, TransferredSound
LEMMA WriteSound ==
    ASSUME Sound, ~wild, NEW p \in Procs, NEW fd \in Fds, NEW n \in Counts, SysWrite(p, fd, n)
    PROVE  Sound'
<1>1. PICK f, k, off : At(p, fd) = f /\ file[f].ip = k /\ file[f].off = off
    OBVIOUS
<1>2. PICK data : data = [j \in 1 .. n |-> <<file[f].of, "w">>]
    OBVIOUS
<1>3. PICK r : r = DataWrite(Start, k, off, data)
    OBVIOUS
<1>4. f # 0 /\ \/ /\ Commit(r.s) /\ proc' = proc
                  /\ file' = IF r.ret > 0 THEN [file EXCEPT ![f].off = @ + r.ret] ELSE file
               \/ Cut(r.s)
    BY <1>1, <1>2, <1>3 DEF SysWrite, Regular
<1>5. f \in Files /\ k \in Slots /\ off \in Nat /\ n \in Nat
    BY <1>1, <1>4, FileSound, CallsOK
<1>6. Len(data) \in Nat
    BY <1>2, <1>5
<1>7. Onward(Start, r.s) /\ r.ret \in Int
    BY <1>3, <1>5, <1>6, RawStart, RawDataWrite
<1>8. CASE Cut(r.s)
    BY <1>7, <1>8, CutSound DEF Onward
<1>9. CASE ~Cut(r.s)
    BY <1>4, <1>5, <1>7, <1>9, TransferredSound
<1>10. QED
    BY <1>8, <1>9

(* dup gives a file another descriptor.                                     *)
LEMMA DupSound ==
    ASSUME Sound, ~wild, NEW p \in Procs, NEW fd \in Fds, SysDup(p, fd)
    PROVE  Sound'
<1>1. Raw(Start) /\ Onward(Start, Start)
    BY RawStart, OnwardSelf
<1>2. CASE At(p, fd) = 0
  <2>1. Onward(Start, Fail(Start))
      BY <1>1, RawFail
  <2>2. QED
      BY <1>2, <2>1, ComputedSound DEF SysDup
<1>3. CASE At(p, fd) # 0
  <2>1. PICK g, i : g = At(p, fd) /\ i = FreeFd(p)
      OBVIOUS
  <2>2. Tables(Slots \cup {0}, Nat) /\ \A f \in Files : file[f].ip \in Slots \cup {0}
      BY DEF Sound, Shaped
  <2>3. i \in Fds /\ Commit(Start)
      BY <1>3, <2>1, <2>2, FreeFacts DEF SysDup
  <2>4. g \in Files /\ g = proc[p].ofile[fd]
      BY <1>3, <2>1, FileSound DEF At
  <2>5. file' = [file EXCEPT ![g].ref = @ + 1] /\ proc' = [proc EXCEPT ![p].ofile[i] = g]
      BY <1>3, <2>1 DEF SysDup
  <2>6. \A f \in Files : file'[f].ip = file[f].ip
      BY <2>2, <2>4, <2>5 DEF Tables
  <2>7. Shaped'
    <3>1. file' \in [Files -> [ref : Int, ip : Nat, off : Nat, of : Nat]]
        BY <2>2, <2>4, <2>5 DEF Tables
    <3>2. proc' \in [Procs -> [live : BOOLEAN, ofile : [Fds -> Files \cup {0}],
                               cwd : Slots \cup {0}]]
        BY <2>2, <2>3, <2>4, <2>5 DEF Tables
    <3>3. QED
        BY <2>2, <2>6, <3>1, <3>2 DEF Shaped, Tables
  <2>8. /\ \A q \in Procs : \A j \in Fds :
              proc'[q].ofile[j] = IF q = p /\ j = i THEN g ELSE proc[q].ofile[j]
        /\ \A q \in Procs : proc'[q].cwd = proc[q].cwd
      BY <2>2, <2>3, <2>5 DEF Tables
  <2>9. Settles
      BY <1>1, <2>3, CommitSettles
  <2>10. Pointed'
    <3>1. \A q \in Procs, j \in Fds :
             \E x \in Procs, y \in Fds : proc'[q].ofile[j] = proc[x].ofile[y]
        BY <2>4, <2>8
    <3>2. QED
        BY <2>6, <2>8, <2>9, <3>1, StillPointed
  <2>11. QED
      BY <2>7, <2>9, <2>10, SoundEnds
<1>4. QED
    BY <1>2, <1>3

(* The root of a process that makes calls.                                  *)
LEMMA RootSound ==
    ASSUME Sound, NEW p \in Procs, Caller(p), NEW c, c = proc[p].cwd
    PROVE  c \in Slots /\ c # 0 /\ ic[c].idx \in Inodes /\ Start.ic[c].idx \in Inodes /\ ~wild
<1>1. ~wild /\ c # 0
    BY DEF Caller
<1>2. c \in Slots /\ ic[c].idx \in Inodes
    BY <1>1 DEF Sound, Shaped, Tables, Pointed
<1>3. QED
    BY <1>1, <1>2, RawStart

(* setup gives a process its root.                                          *)
LEMMA SetupSound == ASSUME Sound, NEW p \in Procs, Setup(p) PROVE Sound'
<1>1. PICK x : x = Read(Start, SbBlock)
    OBVIOUS
<1>2. PICK r : r = GetInode(x, RootIno)
    OBVIOUS
<1>3. PICK k : k = r.k
    OBVIOUS
<1>4. /\ IF ~img.magic THEN Commit(Fail(r.s)) /\ UNCHANGED proc
         ELSE Commit(r.s) /\ proc' = [proc EXCEPT ![p].cwd = k]
      /\ file' = file /\ ~wild
    BY <1>1, <1>2, <1>3 DEF Setup
<1>5. Onward(Start, x) /\ Raw(x)
    BY <1>1, RawStart, RawRead DEF Onward
<1>6. Slotful(x, r) /\ (r.s.ok => r.s.ic[r.k].idx \in Inodes)
    BY <1>2, <1>5, RawGetInode
<1>7. /\ Onward(Start, r.s) /\ k \in Slots \cup {0}
      /\ r.s.ok => k \in Slots /\ r.s.ic[k].idx \in Inodes
    BY <1>3, <1>5, <1>6, OnwardTrans DEF Slotful
<1>8. CASE ~img.magic
  <2>1. Onward(Start, Fail(r.s))
      BY <1>7, RawFail, OnwardTrans DEF Onward
  <2>2. QED
      BY <1>4, <1>8, <2>1, ComputedSound
<1>9. CASE img.magic
  <2>1. Tables(Slots \cup {0}, Nat) /\ \A f \in Files : file[f].ip \in Slots \cup {0}
      BY DEF Sound, Shaped
  <2>2. Commit(r.s) /\ proc' = [proc EXCEPT ![p].cwd = k]
      BY <1>4, <1>9
  <2>3. Shaped'
    <3>1. proc' \in [Procs -> [live : BOOLEAN, ofile : [Fds -> Files \cup {0}],
                               cwd : Slots \cup {0}]]
        BY <1>7, <2>1, <2>2 DEF Tables
    <3>2. QED
        BY <1>4, <2>1, <3>1 DEF Shaped, Tables
  <2>4. Settles
      BY <1>7, <2>2, CommitSettles
  <2>5. ASSUME ~wild' PROVE Pointed'
    <3>1. k \in Slots /\ ic'[k].idx \in Inodes
        BY <1>7, <2>2, <2>5 DEF Commit
    <3>2. \A q \in Procs : /\ proc'[q].ofile = proc[q].ofile
                           /\ proc'[q].cwd = IF q = p THEN k ELSE proc[q].cwd
        BY <2>1, <2>2 DEF Tables
    <3>3. Pointed
        BY <1>4 DEF Sound
    <3>4. ASSUME NEW q \in Procs, NEW c, c = proc'[q].cwd, c # 0 PROVE ic'[c].idx \in Inodes
      <4>1. CASE q = p
          BY <3>1, <3>2, <3>4, <4>1
      <4>2. CASE q # p
        <5>1. c = proc[q].cwd /\ c \in Slots
            BY <2>1, <3>2, <3>4, <4>2 DEF Tables
        <5>2. ic[c].idx \in Inodes
            BY <3>3, <3>4, <5>1 DEF Pointed
        <5>3. QED
            BY <2>4, <5>1, <5>2 DEF Settles
      <4>3. QED
          BY <4>1, <4>2
    <3>5. ASSUME NEW q \in Procs, NEW j \in Fds, proc'[q].ofile[j] # 0
          PROVE  file'[proc'[q].ofile[j]].ip \in Slots
        BY <1>4, <3>2, <3>3, <3>5 DEF Pointed
    <3>6. QED
        BY <3>4, <3>5 DEF Pointed
  <2>6. QED
      BY <2>3, <2>4, <2>5, SoundEnds
<1>10. QED
    BY <1>8, <1>9

(* fork gives the child what its parent has.                                *)
LEMMA ForkSound == ASSUME Sound, NEW p \in Procs, NEW q \in Procs, Fork(p, q) PROVE Sound'
<1>1. PICK c : c = proc[p].cwd
    OBVIOUS
<1>2. PICK d : d = Dup(Start, c)
    OBVIOUS
<1>3. PICK s : s = Dup(d, c)
    OBVIOUS
<1>4. /\ Caller(p) /\ Commit(s)
      /\ file' = [f \in Files |-> [file[f] EXCEPT !.ref = @ + Holds(p, f)]]
      /\ proc' = [proc EXCEPT ![q] = proc[p]]
    BY <1>1, <1>2, <1>3 DEF Fork
<1>5. c \in Slots /\ Start.ic[c].idx \in Inodes /\ ~wild
    BY <1>1, <1>4, RootSound
<1>6. Onward(Start, d)
    BY <1>2, <1>5, RawStart, RawDup
<1>7. Onward(d, s)
    BY <1>3, <1>5, <1>6, RawDup DEF Onward
<1>8. Settles
    BY <1>4, <1>6, <1>7, OnwardTrans, CommitSettles
<1>9. Tables(Slots \cup {0}, Nat) /\ \A f \in Files : file[f].ip \in Slots \cup {0}
    BY DEF Sound, Shaped
<1>10. \A f \in Files : file'[f].ip = file[f].ip
    BY <1>4, <1>9 DEF Tables
<1>11. Shaped'
  <2>1. \A f : Holds(p, f) \in Nat
      BY CountFacts
  <2>2. \A f \in Files : [file[f] EXCEPT !.ref = @ + Holds(p, f)] \in
                               [ref : Int, ip : Nat, off : Nat, of : Nat]
      BY <1>9, <2>1 DEF Tables
  <2>3. file' \in [Files -> [ref : Int, ip : Nat, off : Nat, of : Nat]]
      BY <1>4, <2>2
  <2>4. proc' \in [Procs -> [live : BOOLEAN, ofile : [Fds -> Files \cup {0}],
                             cwd : Slots \cup {0}]]
      BY <1>4, <1>9 DEF Tables
  <2>5. QED
      BY <1>9, <1>10, <2>3, <2>4 DEF Shaped, Tables
<1>12. \A x \in Procs : proc'[x] = proc[IF x = q THEN p ELSE x]
    BY <1>4, <1>9 DEF Tables
<1>13. Pointed'
    BY <1>5, <1>8, <1>10, <1>12, StillPointed
<1>14. QED
    BY <1>8, <1>11, <1>13, SoundEnds

(* exit takes two references of the root back.                              *)
LEMMA ExitSound == ASSUME Sound, NEW p \in Procs, Exit(p) PROVE Sound'
<1>1. PICK c : c = proc[p].cwd
    OBVIOUS
<1>2. PICK v : v = (ic[c].ref - 2) % RefMod
    OBVIOUS
<1>3. PICK e : e = [ic[c] EXCEPT !.ref = v]
    OBVIOUS
<1>4. PICK s : s = [Start EXCEPT !.ic[c] = e]
    OBVIOUS
<1>5. c \in Slots /\ ic[c].idx \in Inodes /\ Start.ic = ic /\ ~wild /\ Raw(Start)
    BY <1>1, RootSound, RawStart DEF Exit
<1>6. /\ Commit(s)
      /\ file' = [f \in Files |-> [file[f] EXCEPT !.ref = @ - Holds(p, f)]]
      /\ proc' = [proc EXCEPT ![p] = NoProc]
    BY <1>1, <1>2, <1>3, <1>4, <1>5 DEF Exit
<1>7. e \in [ref : 0 .. RefMod - 1, idx : Inodes \cup {0}, n : InodeSet] /\ e.idx \in Inodes
  <2>1. ic[c] \in [ref : 0 .. RefMod - 1, idx : Inodes \cup {0}, n : InodeSet]
      BY <1>5 DEF Sound, Caches
  <2>2. v \in 0 .. RefMod - 1
      BY <1>2, <2>1, CacheSizes
  <2>3. QED
      BY <1>3, <1>5, <2>1, <2>2
<1>8. Onward(Start, s)
    BY <1>4, <1>5, <1>7, RawSlot
<1>9. Settles
    BY <1>6, <1>8, CommitSettles
<1>10. Tables(Slots \cup {0}, Nat) /\ \A f \in Files : file[f].ip \in Slots \cup {0}
    BY DEF Sound, Shaped
<1>11. \A f \in Files : file'[f].ip = file[f].ip
    BY <1>6, <1>10 DEF Tables
<1>12. Shaped'
  <2>1. \A f : Holds(p, f) \in Nat
      BY CountFacts
  <2>2. \A f \in Files : [file[f] EXCEPT !.ref = @ - Holds(p, f)] \in
                               [ref : Int, ip : Nat, off : Nat, of : Nat]
      BY <1>10, <2>1 DEF Tables
  <2>3. file' \in [Files -> [ref : Int, ip : Nat, off : Nat, of : Nat]]
      BY <1>6, <2>2
  <2>4. proc' \in [Procs -> [live : BOOLEAN, ofile : [Fds -> Files \cup {0}],
                             cwd : Slots \cup {0}]]
      BY <1>6, <1>10 DEF Tables, NoProc
  <2>5. QED
      BY <1>10, <1>11, <2>3, <2>4 DEF Shaped, Tables
<1>13. \A x \in Procs : \/ proc'[x] = proc[x]
                        \/ proc'[x].cwd = 0 /\ \A i \in Fds : proc'[x].ofile[i] = 0
    BY <1>6, <1>10 DEF Tables, NoProc
<1>14. Pointed'
    BY <1>5, <1>9, <1>11, <1>13, StillPointed
<1>15. QED
    BY <1>9, <1>12, <1>14, SoundEnds

(* Every step keeps the types.                                              *)
LEMMA SoundStep == Sound /\ [Next]_vars => Sound'
<1> SUFFICES ASSUME Sound, [Next]_vars PROVE Sound'
    OBVIOUS
<1>1. CASE UNCHANGED vars
  <2>1. /\ img' = img /\ ic' = ic /\ file' = file /\ proc' = proc
        /\ wild' = wild /\ wrapped' = wrapped
      BY <1>1 DEF vars
  <2>2. Shaped' /\ (Pointed' <=> Pointed)
      BY <2>1 DEF Sound, Shaped, Tables, Pointed
  <2>3. QED
      BY <2>1, <2>2 DEF Sound
<1>2. CASE wild /\ Next
    BY <1>2, NotWild
<1>3. CASE ~wild /\ Next
  <2>1. Raw(Start) /\ Onward(Start, Fail(Start)) /\ Framed(img)
      BY RawStart, RawFail DEF Sound
  <2>2. CASE PowerFails
      BY <2>1, <2>2, PowerSound DEF PowerFails
  <2>3. ASSUME NEW p \in Procs, NEW path \in Paths,
               Open(p, path) \/ OpenCreate(p, path) \/ Mknod(p, path)
        PROVE  Sound'
    <3>1. PICK c : c = proc[p].cwd
        OBVIOUS
    <3>2. /\ Caller(p) /\ c \in Slots /\ Start.ic[c].idx \in Inodes
          /\ path \in Seq(STRING) /\ Len(path) \in Nat
        BY <2>3, <3>1, CallsOK, RootSound DEF Open, OpenCreate, Mknod
    <3>3. CASE Open(p, path)
      <4>1. PICK w : w = Walk(Start, c, path)
          OBVIOUS
      <4>2. Ahead(Start, w)
          BY <2>1, <3>2, <4>1, RawWalk
      <4>3. Opened(p, w)
          BY <3>1, <3>3, <4>1 DEF Open
      <4>4. QED
          BY <1>3, <4>2, <4>3, OpenedSound
    <3>4. ASSUME NEW type \in {T_FILE, T_DEV}, NEW major \in Nat
          PROVE  Ahead(Start, CreateI(Start, c, path, type, major))
      <4>1. Front(path) \in Seq(STRING)
          BY <3>2 DEF Front
      <4>2. Len(Front(path)) \in Nat
          BY <4>1
      <4>3. PICK dp : dp = WalkParent(Start, c, path)
          OBVIOUS
      <4>4. PICK old : old = Lookup(dp.s, dp.k, Last(path))
          OBVIOUS
      <4>5. PICK new : new = Alloci(old.s, type, major)
          OBVIOUS
      <4>6. PICK r : r = CreateI(Start, c, path, type, major)
          OBVIOUS
      <4>7. Ahead(Start, r)
          BY <2>1, <3>2, <4>2, <4>3, <4>4, <4>5, <4>6, RawCreateI
      <4>8. QED
          BY <4>6, <4>7
    <3>5. CASE OpenCreate(p, path)
      <4>1. PICK r : r = CreateI(Start, c, path, T_FILE, 0)
          OBVIOUS
      <4>2. Ahead(Start, r)
          BY <3>4, <4>1
      <4>3. Opened(p, r) \/ Cut(r.s)
          BY <3>1, <3>5, <4>1 DEF OpenCreate, Created
      <4>4. QED
          BY <1>3, <4>2, <4>3, OpenedSound, CutSound DEF Ahead, Onward
    <3>6. CASE Mknod(p, path)
      <4>1. PICK r : r = CreateI(Start, c, path, T_DEV, 1)
          OBVIOUS
      <4>2. Onward(Start, r.s)
          BY <3>4, <4>1 DEF Ahead
      <4>3. (Commit(r.s) /\ UNCHANGED <<file, proc>>) \/ Cut(r.s)
          BY <3>1, <3>6, <4>1 DEF Mknod
      <4>4. QED
          BY <1>3, <4>2, <4>3, ComputedSound, CutSound DEF Onward
    <3>7. QED
        BY <2>3, <3>3, <3>5, <3>6
  <2>4. ASSUME NEW p \in Procs, NEW fd \in Fds, NEW n \in Counts,
               SysRead(p, fd, n) \/ SysWrite(p, fd, n)
        PROVE  Sound'
      BY <1>3, <2>4, ReadSound, WriteSound
  <2>5. ASSUME NEW p \in Procs, NEW fd \in Fds, SysDup(p, fd) \/ Fstat(p, fd) \/ Close(p, fd)
        PROVE  Sound'
    <3>1. CASE SysDup(p, fd)
        BY <1>3, <3>1, DupSound
    <3>2. CASE Fstat(p, fd) \/ Close(p, fd)
        BY <1>3, <2>1, <3>2, ComputedSound DEF Fstat, Close
    <3>3. QED
        BY <2>5, <3>1, <3>2
  <2>6. ASSUME NEW p \in Procs, Setup(p) \/ Exit(p) PROVE Sound'
      BY <2>6, SetupSound, ExitSound
  <2>7. ASSUME NEW p \in Procs, NEW q \in Procs, Fork(p, q) PROVE Sound'
      BY <2>7, ForkSound
  <2>8. QED
      BY <1>3, <2>2, <2>3, <2>4, <2>5, <2>6, <2>7 DEF Next
<1>4. QED
    BY <1>1, <1>2, <1>3

(* At the start every table is empty.                                       *)
LEMMA SoundStarts == Init => Sound
<1> SUFFICES ASSUME Init PROVE Sound
    OBVIOUS
<1>1. /\ file = [f \in Files |-> NoFile] /\ ic = [k \in Slots |-> NoInode]
      /\ proc = [p \in Procs |-> [NoProc EXCEPT !.live = (p = 1)]]
      /\ wild = FALSE /\ wrapped = FALSE /\ img = Image(host) /\ host \in Trees
    BY DEF Init
<1>2. ic \in Caches /\ \A k \in Slots : ic[k].ref = 0
    BY <1>1, NewCaches
<1>3. /\ file \in [Files -> [ref : Int, ip : Nat, off : Nat, of : Nat]]
      /\ \A f \in Files : file[f].ip = 0
      /\ proc \in [Procs -> [live : BOOLEAN, ofile : [Fds -> Files \cup {0}],
                             cwd : Slots \cup {0}]]
      /\ \A p \in Procs : /\ proc[p].live = (p = 1) /\ proc[p].cwd = 0
                         /\ \A i \in Fds : proc[p].ofile[i] = 0
    BY <1>1, NewTables
<1>4. Shaped
    BY <1>3 DEF Shaped, Tables
<1>5. Framed(img)
    BY <1>1, ImagesOK, GoodFramed DEF WellFormed
<1>6. Named(ic) /\ Pointed
    BY <1>2, <1>3 DEF Named, Pointed
<1>7. QED
    BY <1>1, <1>2, <1>4, <1>5, <1>6 DEF Sound

-----------------------------------------------------------------------------
(* The inode cache between calls                                            *)

(* The rest of the memory, and the disk, as long as nothing has wrapped     *)
(* around.                                                                  *)
Typed ==
    /\ Shaped /\ WellFormed(img) /\ ic \in Caches
    /\ cached \subseteq Blocks /\ wild \in BOOLEAN

(* Every slot in use is as the disk has it.                                 *)
Coherent ==
    \A k \in Slots : ic[k].ref > 0 =>
       /\ ic[k].idx \in Inodes /\ ic[k].n = img.ino[ic[k].idx]
       /\ \A j \in Slots : ic[j].ref > 0 /\ ic[j].idx = ic[k].idx => j = k

(* An open descriptor leads to the inode that was opened.                   *)
Leading(f) ==
    file[f].ip \in Slots /\ ic[file[f].ip].ref > 0 /\ ic[file[f].ip].idx = file[f].of
Refers == \A p \in Procs : \A i \in Fds : proc[p].ofile[i] # 0 => Leading(proc[p].ofile[i])

(* Processes that setup or fork has given a root.                           *)
Settled == {p \in Procs : proc[p].live /\ proc[p].cwd # 0}

(* All have the root directory, and it has two references for each but the  *)
(* first: exit, which takes two back, takes the last one only from the last *)
(* process.                                                                 *)
Rooted ==
    \A p \in Settled : /\ ic[proc[p].cwd].idx = RootIno
                       /\ ic[proc[p].cwd].ref >= 2 * Cardinality(Settled) - 1

(* A process that has no root yet is alone and has opened nothing.          *)
Alone ==
    \A p \in Procs : proc[p].live /\ proc[p].cwd = 0 =>
       /\ \A q \in Procs : proc[q].live => q = p
       /\ \A i \in Fds : proc[p].ofile[i] = 0

(* The invariant of cache, disk, files and processes.                       *)
Cached == Typed /\ Coherent /\ Refers /\ Rooted /\ Alone

Safe == Typed /\ (wild \/ Cached)
CInv == wrapped \/ Safe

(* What every step does in which no reference wraps around: directories     *)
(* keep their entries, too.                                                 *)
Goes == Safe' /\ Kept(img, img')

(* In such a step no call has counted too far.                              *)
LEMMA NotOver ==
    ASSUME ~wrapped', NEW s
    PROVE  (Commit(s) => ~s.over) /\ (Cut(s) => ~s.over)
<1>1. ASSUME Commit(s) PROVE ~s.over
    BY <1>1, Zenon DEF Commit
<1>2. ASSUME Cut(s) PROVE ~s.over
    BY <1>2, Zenon DEF Cut, PowerOn
<1>3. QED
    BY <1>1, <1>2

(* A call starts from what the invariant says of the variables.             *)
LEMMA StartState ==
    ASSUME Cached
    PROVE  /\ State(Start) /\ Start.ok /\ CoherentBut(Start, 0)
           /\ Start.ic = ic /\ Start.img = img
<1>1. /\ Fields(Start) /\ Start.ok = TRUE /\ Start.ic = ic /\ Start.img = img
      /\ Start.log = <<>> /\ Start.cached = cached
    BY DEF Start, Fields
<1>2. Log(<<>>)
  <2>1. <<>> \in Seq({}) /\ Len(<<>>) = 0
      OBVIOUS
  <2>2. QED
      BY <2>1 DEF Log
<1>3. Disk(img) /\ ic \in Caches /\ cached \subseteq Blocks
    BY DiskStays DEF Cached, Typed
<1>4. State(Start)
    BY <1>1, <1>2, <1>3 DEF State
<1>5. CoherentBut(Start, 0)
    BY <1>1 DEF CoherentBut, Cached, Coherent
<1>6. QED
    BY <1>1, <1>4, <1>5

(* What a call leaves of the disk and the memory but for files.             *)
Lasting == Disk(img') /\ ic' \in Caches /\ cached' \subseteq Blocks /\ wild' \in BOOLEAN

(* A call leaves that wherever it gets to.                                  *)
LEMMA CommitLasts == ASSUME Typed, NEW s, State(s), Commit(s) PROVE Lasting
<1>1. /\ Disk(s.img) /\ s.ic \in Caches /\ s.ok \in BOOLEAN
      /\ s.ok => s.cached \subseteq Blocks
    BY DEF State
<1>2. ic \in Caches /\ cached \subseteq Blocks
    BY DEF Typed
<1>3. /\ img' = s.img /\ wild' = ~s.ok
      /\ IF s.ok THEN cached' = s.cached /\ ic' = s.ic ELSE cached' = cached /\ ic' = ic
    BY DEF Commit
<1>4. wild' \in BOOLEAN
    BY <1>1, <1>3
<1>5. ic' \in Caches /\ cached' \subseteq Blocks
    BY <1>1, <1>2, <1>3
<1>6. Disk(img')
    BY <1>1, <1>3
<1>7. QED
    BY <1>4, <1>5, <1>6 DEF Lasting

(* What is left to show of a call.                                          *)
LEMMA Ends ==
    ASSUME Cached, NEW s, State(s), Commit(s), Shaped', ~wild' => Cached'
    PROVE  Goes
<1>1. Lasting
    BY CommitLasts DEF Cached
<1>2. WellFormed(img') /\ Kept(img, img')
    BY <1>1 DEF Lasting, Disk
<1>3. WellFormed(img)'
    BY <1>2
<1>4. Typed'
    BY <1>1, <1>3 DEF Lasting, Typed
<1>5. Safe'
    BY <1>4 DEF Safe
<1>6. QED
    BY <1>2, <1>5 DEF Goes

(* What a call leaves of the cache.                                         *)
Carried ==
    /\ Lasting /\ Coherent'
    /\ \A k \in Slots : ic[k].ref > 0 => ic'[k].ref >= ic[k].ref /\ ic'[k].idx = ic[k].idx

(* A call that commits leaves the cache as its steps did.                   *)
LEMMA CallCarries ==
    ASSUME Cached, NEW s, Moves(Start, s, 0), Commit(s), ~wild'
    PROVE  Carried /\ s.ok /\ ic' = s.ic /\ img' = s.img
<1>1. wild' = ~s.ok /\ img' = s.img /\ (s.ok => ic' = s.ic)
    BY DEF Commit
<1>2. s.ok /\ ic' = s.ic
    BY <1>1
<1>3. State(s) /\ CoherentBut(s, 0) /\ Keeps(Start, s)
    BY <1>2 DEF Moves
<1>4. Lasting
    BY <1>3, CommitLasts DEF Cached
<1>5. Coherent'
  <2> SUFFICES ASSUME NEW k \in Slots, s.ic[k].ref > 0
               PROVE  /\ s.ic[k].idx \in Inodes /\ s.ic[k].n = s.img.ino[s.ic[k].idx]
                      /\ \A j \in Slots : s.ic[j].ref > 0 /\ s.ic[j].idx = s.ic[k].idx => j = k
      BY <1>1, <1>2 DEF Coherent
  <2>1. /\ s.ic[k].idx \in Inodes
        /\ s.ic[k].idx # 0 => s.ic[k].n = s.img.ino[s.ic[k].idx]
        /\ \A j \in Slots : s.ic[j].ref > 0 /\ s.ic[j].idx = s.ic[k].idx => j = k
      BY <1>3 DEF CoherentBut
  <2>2. QED
      BY <2>1, Sizes
<1>6. Start.ic = ic
    BY StartState
<1>7. \A k \in Slots : ic[k].ref > 0 => ic'[k].ref >= ic[k].ref /\ ic'[k].idx = ic[k].idx
    BY <1>2, <1>3, <1>6 DEF Keeps
<1>8. QED
    BY <1>1, <1>2, <1>4, <1>5, <1>7 DEF Carried

(* The types of the tables.                                                 *)
LEMMA CacheTypes ==
    ASSUME Cached
    PROVE  /\ \A k \in Slots : ic[k].ref \in Nat /\ ic[k].ref \in 0 .. RefMod - 1
           /\ \A p \in Procs : proc[p].cwd \in Slots \cup {0}
           /\ IsFiniteSet(Settled) /\ Cardinality(Settled) \in Nat
<1>1. \A k \in Slots : ic[k].ref \in 0 .. RefMod - 1
    BY DEF Cached, Typed, Caches
<1>2. \A p \in Procs : proc[p].cwd \in Slots \cup {0}
    BY DEF Cached, Typed, Shaped, Tables
<1>3. IsFiniteSet(Settled) /\ Cardinality(Settled) \in Nat
  <2>1. Settled \subseteq Procs
      BY DEF Settled
  <2>2. QED
      BY <2>1, TablesOK, FS_Subset, FS_CardinalityType
<1>4. QED
    BY <1>1, <1>2, <1>3, CacheSizes

(* A process with a root holds it.                                          *)
LEMMA RootHeld ==
    ASSUME Cached, NEW p \in Settled
    PROVE  proc[p].cwd \in Slots /\ ic[proc[p].cwd].ref > 0
<1>1. IsFiniteSet(Settled) /\ Cardinality(Settled) \in Nat /\ Cardinality(Settled) # 0
    BY CacheTypes, FS_EmptySet
<1>2. proc[p].cwd \in Slots
    BY CacheTypes DEF Settled
<1>3. ic[proc[p].cwd].ref >= 2 * Cardinality(Settled) - 1 /\ ic[proc[p].cwd].ref \in Nat
    BY <1>2, CacheTypes DEF Cached, Rooted
<1>4. QED
    BY <1>1, <1>2, <1>3

(* What is carried has its types.                                           *)
LEMMA CarriedTyped == ASSUME Carried, Shaped' PROVE Typed'
<1>1. WellFormed(img')
    BY DEF Carried, Lasting, Disk
<1>2. WellFormed(img)'
    BY <1>1
<1>3. QED
    BY <1>2 DEF Carried, Lasting, Typed

(* A call that leaves processes alone but for what they have opened.        *)
LEMMA Carry ==
    ASSUME Cached, Carried, Shaped', Refers',
           \A p \in Procs : proc'[p].live = proc[p].live /\ proc'[p].cwd = proc[p].cwd,
           \A p \in Procs : proc[p].live /\ proc[p].cwd = 0 =>
              \A i \in Fds : proc'[p].ofile[i] = 0
    PROVE  Cached'
<1>1. Settled' = Settled
    BY DEF Settled
<1>2. Rooted'
  <2> SUFFICES ASSUME NEW p \in Settled
               PROVE  /\ ic'[proc[p].cwd].idx = RootIno
                      /\ ic'[proc[p].cwd].ref >= 2 * Cardinality(Settled) - 1
      BY <1>1 DEF Rooted, Settled
  <2>1. proc[p].cwd \in Slots /\ ic[proc[p].cwd].ref > 0
      BY RootHeld
  <2>2. /\ ic[proc[p].cwd].idx = RootIno
        /\ ic[proc[p].cwd].ref >= 2 * Cardinality(Settled) - 1
      BY DEF Cached, Rooted
  <2>3. ic'[proc[p].cwd].ref >= ic[proc[p].cwd].ref /\ ic'[proc[p].cwd].idx = ic[proc[p].cwd].idx
      BY <2>1 DEF Carried
  <2>4. /\ ic[proc[p].cwd].ref \in Nat /\ Cardinality(Settled) \in Nat
        /\ ic'[proc[p].cwd].ref \in Int
    <3>1. ic' \in Caches
        BY DEF Carried, Lasting
    <3>2. ic'[proc[p].cwd].ref \in 0 .. RefMod - 1
        BY <2>1, <3>1 DEF Caches
    <3>3. QED
        BY <2>1, <3>2, CacheTypes
  <2>5. QED
      BY <2>2, <2>3, <2>4
<1>3. Alone'
    BY DEF Cached, Alone
<1>4. Typed'
    BY CarriedTyped
<1>5. QED
    BY <1>2, <1>3, <1>4 DEF Cached, Carried

(* A file that is led to stays so.                                          *)
LEMMA StillLeads ==
    ASSUME Carried, NEW f, Leading(f), file'[f].ip = file[f].ip, file'[f].of = file[f].of,
           ic \in Caches
    PROVE  Leading(f)'
<1>1. /\ ic'[file[f].ip].ref >= ic[file[f].ip].ref /\ ic'[file[f].ip].idx = ic[file[f].ip].idx
      /\ file[f].ip \in Slots /\ ic[file[f].ip].ref > 0 /\ ic[file[f].ip].idx = file[f].of
    BY DEF Carried, Leading
<1>2. ic[file[f].ip].ref \in 0 .. RefMod - 1 /\ ic'[file[f].ip].ref \in 0 .. RefMod - 1
    BY <1>1 DEF Carried, Lasting, Caches
<1>3. ic'[file[f].ip].ref > 0
    BY <1>1, <1>2, CacheSizes
<1>4. QED
    BY <1>1, <1>3 DEF Leading

(* A call that leaves the descriptors, and where files lead.                *)
LEMMA CarryOn ==
    ASSUME Cached, Carried, Shaped', proc' = proc,
           \A f \in Files : file'[f].ip = file[f].ip /\ file'[f].of = file[f].of
    PROVE  Cached'
<1>1. Refers'
  <2> SUFFICES ASSUME NEW p \in Procs, NEW i \in Fds, proc[p].ofile[i] # 0
               PROVE  Leading(proc[p].ofile[i])'
      BY DEF Refers
  <2>1. proc[p].ofile[i] \in Files /\ Leading(proc[p].ofile[i]) /\ ic \in Caches
      BY DEF Cached, Typed, Shaped, Refers, Tables
  <2>2. proc[p].ofile[i]' = proc[p].ofile[i]
      OBVIOUS
  <2>3. PICK f : f = proc[p].ofile[i]
      OBVIOUS
  <2>4. Leading(f)'
      BY <2>1, <2>3, StillLeads
  <2>5. QED
      BY <2>2, <2>3, <2>4 DEF Leading
<1>2. QED
    BY <1>1, Carry DEF Cached, Alone

-----------------------------------------------------------------------------
(* Calls and the inode cache                                                *)

(* A call that only computes on a state.                                    *)
LEMMA Computed ==
    ASSUME Cached, NEW s, Moves(Start, s, 0), Commit(s), UNCHANGED <<file, proc>>
    PROVE  Goes
<1>1. Shaped'
    BY DEF Cached, Typed, Shaped, Tables
<1>2. ASSUME ~wild' PROVE Cached'
  <2>1. Carried
      BY <1>2, CallCarries
  <2>2. QED
      BY <1>1, <2>1, CarryOn
<1>3. QED
    BY <1>1, <1>2, Ends DEF Moves

(* After a failure nothing is asked of a call.                              *)
LEMMA Gone ==
    ASSUME Cached, NEW s, State(s), ~s.ok PROVE Moves(Start, s, 0)
    BY DEF Moves

(* A process with a root may walk from it.                                  *)
LEMMA FromRoot ==
    ASSUME Cached, NEW p \in Procs, Caller(p), NEW d, d = Dup(Start, proc[p].cwd), ~d.over
    PROVE  Moves(Start, d, 0) /\ (d.ok => Held(d, proc[p].cwd) /\ CoherentBut(d, 0))
<1>1. PICK c : c = proc[p].cwd
    OBVIOUS
<1>2. c \in Slots /\ ic[c].ref > 0
    BY <1>1, RootHeld DEF Caller, Settled
<1>3. State(Start) /\ CoherentBut(Start, 0) /\ Start.ic = ic
    BY StartState
<1>4. Held(Start, c)
    BY <1>2, <1>3 DEF Held
<1>5. Raised(Start, c, d)
    BY <1>1, <1>2, <1>3, DupRaises
<1>6. Moves(Start, d, 0)
    BY <1>3, <1>4, <1>5, RaisedMoves
<1>7. ASSUME d.ok PROVE Held(d, c) /\ CoherentBut(d, 0)
  <2>1. Keeps(Start, d) /\ State(d) /\ CoherentBut(d, 0)
      BY <1>6, <1>7 DEF Moves
  <2>2. d.ic[c].ref >= ic[c].ref /\ d.ic[c].ref \in Nat /\ ic[c].ref \in Nat
      BY <1>2, <1>3, <2>1, SlotType DEF Keeps
  <2>3. QED
      BY <1>2, <2>1, <2>2 DEF Held
<1>8. QED
    BY <1>1, <1>6, <1>7

(* What has been found from there has been found from the start.            *)
LEMMA FoundFromRoot ==
    ASSUME Cached, NEW p \in Procs, Caller(p), NEW d, d = Dup(Start, proc[p].cwd), ~d.over,
           NEW w, Found(d, w)
    PROVE  Found(Start, w)
<1>1. Moves(Start, d, 0) /\ State(d) /\ State(Start)
    BY FromRoot, StartState DEF Moves
<1>2. Moves(Start, w.s, 0)
    BY <1>1, MovesOn DEF Found, Moves
<1>3. QED
    BY <1>2 DEF Found

(* A process may walk from its root.                                        *)
LEMMA WalkCalled ==
    ASSUME Cached, Sound, NEW p \in Procs, Caller(p), NEW path \in Seq(STRING),
           ~Walk(Start, proc[p].cwd, path).s.over
    PROVE  Found(Start, Walk(Start, proc[p].cwd, path))
<1>1. PICK c, d : c = proc[p].cwd /\ d = Dup(Start, c)
    OBVIOUS
<1>2. Raw(Start) /\ c \in Slots /\ Start.ic[c].idx \in Inodes
    BY <1>1, RootSound, RawStart
<1>3. ~d.over => State(d) /\ (d.ok => Held(d, c) /\ CoherentBut(d, 0))
    BY <1>1, FromRoot DEF Moves
<1>4. Len(path) \in Nat
    OBVIOUS
<1>5. Found(d, Walk(Start, c, path)) /\ ~d.over
    BY <1>1, <1>2, <1>3, <1>4, WalkFinds
<1>6. QED
    BY <1>1, <1>5, FoundFromRoot

(* A process may create below its root.                                     *)
LEMMA CreateCalled ==
    ASSUME Cached, Sound, NEW p \in Procs, Caller(p), NEW path \in Seq(STRING), path # <<>>,
           NEW type \in {T_FILE, T_DEV}, NEW major \in Nat,
           ~CreateI(Start, proc[p].cwd, path, type, major).s.over
    PROVE  Found(Start, CreateI(Start, proc[p].cwd, path, type, major))
<1>1. PICK c, d : c = proc[p].cwd /\ d = Dup(Start, c)
    OBVIOUS
<1>2. Raw(Start) /\ c \in Slots /\ Start.ic[c].idx \in Inodes
    BY <1>1, RootSound, RawStart
<1>3. ~d.over => State(d) /\ (d.ok => Held(d, c) /\ CoherentBut(d, 0))
    BY <1>1, FromRoot DEF Moves
<1>4. Found(d, CreateI(Start, c, path, type, major)) /\ ~d.over
    BY <1>1, <1>2, <1>3, CreateIFinds
<1>5. QED
    BY <1>1, <1>4, FoundFromRoot

(* Power comes back with an empty cache.                                    *)
LEMMA PowerCached == ASSUME Cached, NEW im, Disk(im), NEW o, PowerOn(im, o) PROVE Goes
<1>1. /\ img' = im /\ cached' = {} /\ ic' = [k \in Slots |-> NoInode] /\ wild' = wild
      /\ file' = [f \in Files |-> NoFile]
      /\ proc' = [p \in Procs |-> [NoProc EXCEPT !.live = (p = 1)]]
    BY DEF PowerOn
<1>2. ic' \in Caches /\ \A k \in Slots : ic'[k].ref = 0
    BY <1>1, NewCaches
<1>3. PICK F, P : file' = F /\ proc' = P
    OBVIOUS
<1>4. /\ F \in [Files -> [ref : Int, ip : Nat, off : Nat, of : Nat]]
      /\ \A f \in Files : F[f].ip = 0
      /\ P \in [Procs -> [live : BOOLEAN, ofile : [Fds -> Files \cup {0}],
                          cwd : Slots \cup {0}]]
      /\ \A p \in Procs : /\ P[p].live = (p = 1) /\ P[p].cwd = 0
                         /\ \A i \in Fds : P[p].ofile[i] = 0
    BY <1>1, <1>3, NewTables
<1>5. Shaped'
    BY <1>3, <1>4 DEF Shaped, Tables
<1>6. WellFormed(im) /\ Kept(img, im)
    BY DEF Disk
<1>7. WellFormed(img)'
    BY <1>1, <1>6
<1>8. Typed'
    BY <1>1, <1>2, <1>5, <1>7 DEF Typed, Cached
<1>9. Coherent'
    BY <1>2 DEF Coherent
<1>10. Refers' /\ Rooted' /\ Alone'
    BY <1>3, <1>4 DEF Refers, Rooted, Alone, Settled
<1>11. Cached'
    BY <1>8, <1>9, <1>10 DEF Cached
<1>12. QED
    BY <1>1, <1>6, <1>8, <1>11 DEF Safe, Goes

(* Whatever a call had written when the power failed is a disk.             *)
LEMMA CutCached == ASSUME Cached, NEW s, State(s), Cut(s) PROVE Goes
<1>1. PICK i \in DOMAIN s.log : PowerOn(s.log[i], s.over)
    BY DEF Cut
<1>2. Disk(s.log[i])
  <2>1. Log(s.log)
      BY DEF State
  <2>2. PICK S : s.log \in Seq(S)
      BY <2>1 DEF Log
  <2>3. i \in 1 .. Len(s.log)
      BY <2>2
  <2>4. QED
      BY <2>1, <2>3 DEF Log
<1>3. QED
    BY <1>1, <1>2, PowerCached

(* A descriptor that has just been opened leads to its inode.               *)
LEMMA OpenedCached ==
    ASSUME Cached, Shaped', NEW p \in Procs, Caller(p), NEW r, Found(Start, r), Opened(p, r)
    PROVE  Goes
<1>1. Moves(Start, r.s, 0) /\ Commit(r.s) /\ State(r.s)
    BY DEF Found, Opened, Moves
<1> SUFFICES ASSUME ~UNCHANGED <<file, proc>> PROVE Cached'
    BY <1>1, Computed, Ends
<1>2. Carried /\ r.s.ok /\ ic' = r.s.ic
  <2>1. r.s.ok
      BY DEF Opened
  <2>2. ~wild'
      BY <1>1, <2>1 DEF Commit
  <2>3. QED
      BY <1>1, <2>2, CallCarries
<1>3. Tables(Slots \cup {0}, Nat) /\ \A f \in Files : file[f].ip \in Slots \cup {0}
    BY DEF Cached, Typed, Shaped
<1>4. CASE FreeFile # 0 /\ file' = [file EXCEPT ![FreeFile].ref = 1] /\ proc' = proc
  <2>1. FreeFile \in Files
      BY <1>3, <1>4, FreeFacts
  <2> HIDE DEF FreeFile
  <2>2. \A f \in Files : file'[f].ip = file[f].ip /\ file'[f].of = file[f].of
      BY <1>3, <1>4, <2>1 DEF Tables
  <2>3. QED
      BY <1>2, <1>4, <2>2, CarryOn
<1>5. CASE /\ FreeFile # 0 /\ FreeFd(p) # -1 /\ r.k # 0
           /\ file' = [file EXCEPT ![FreeFile] = [ref |-> 1, ip |-> r.k, off |-> 0,
                                                 of |-> r.s.ic[r.k].idx]]
           /\ proc' = [proc EXCEPT ![p].ofile[FreeFd(p)] = FreeFile]
  <2>1. PICK g, i, x : g = FreeFile /\ i = FreeFd(p) /\ x = r.s.ic[r.k].idx
      OBVIOUS
  <2>2. g \in Files /\ file[g].ref = 0 /\ i \in Fds /\ proc[p].ofile[i] = 0
      BY <1>3, <1>5, <2>1, FreeFacts
  <2>3. /\ file' = [file EXCEPT ![g] = [ref |-> 1, ip |-> r.k, off |-> 0, of |-> x]]
        /\ proc' = [proc EXCEPT ![p].ofile[i] = g]
      BY <1>5, <2>1
  <2>4. r.k \in Slots /\ r.s.ic[r.k].ref > 0 /\ x \in Inodes
    <3>1. Held(r.s, r.k) /\ CoherentBut(r.s, 0)
        BY <1>2, <1>5 DEF Found, Moves
    <3>2. QED
        BY <2>1, <3>1 DEF Held, CoherentBut
  <2>5. /\ file'[g].ip = r.k /\ file'[g].of = x
        /\ \A f \in Files : f # g => file'[f] = file[f]
      BY <1>3, <2>2, <2>3 DEF Tables
  <2>6. \A q \in Procs : \A j \in Fds :
           proc'[q].ofile[j] = IF q = p /\ j = i THEN g ELSE proc[q].ofile[j]
      BY <1>3, <2>2, <2>3 DEF Tables
  <2>7. Leading(g)'
    <3>1. ic'[r.k].ref > 0 /\ ic'[r.k].idx = x
        BY <1>2, <2>1, <2>4
    <3>2. QED
        BY <2>4, <2>5, <3>1 DEF Leading
  <2>8. Refers'
    <3> SUFFICES ASSUME NEW q \in Procs, NEW j \in Fds, NEW f, f = proc'[q].ofile[j], f # 0
                 PROVE  Leading(f)'
        BY DEF Refers, Leading
    <3>1. CASE f = g
        BY <2>7, <3>1 DEF Leading
    <3>2. CASE f # g
      <4>1. f = proc[q].ofile[j]
          BY <2>6, <3>2
      <4>2. f \in Files /\ Leading(f) /\ ic \in Caches
          BY <1>3, <4>1 DEF Cached, Typed, Shaped, Refers, Tables
      <4>3. file'[f].ip = file[f].ip /\ file'[f].of = file[f].of
          BY <2>5, <3>2, <4>2
      <4>4. QED
          BY <1>2, <4>2, <4>3, StillLeads
    <3>3. QED
        BY <3>1, <3>2
  <2>9. \A q \in Procs : proc'[q].live = proc[q].live /\ proc'[q].cwd = proc[q].cwd
      BY <1>3, <2>2, <2>3 DEF Tables
  <2>10. ASSUME NEW q \in Procs, proc[q].live, proc[q].cwd = 0, NEW j \in Fds
         PROVE  proc'[q].ofile[j] = 0
    <3>1. q # p
        BY <2>10 DEF Caller
    <3>2. QED
        BY <2>6, <2>10, <3>1 DEF Cached, Alone
  <2>11. QED
      BY <1>2, <2>8, <2>9, <2>10, Carry
<1>6. CASE FreeFd(p) # -1
  <2>1. /\ FreeFile # 0 /\ r.k # 0
        /\ file' = [file EXCEPT ![FreeFile] = [ref |-> 1, ip |-> r.k, off |-> 0,
                                              of |-> r.s.ic[r.k].idx]]
        /\ proc' = [proc EXCEPT ![p].ofile[FreeFd(p)] = FreeFile]
      BY <1>6 DEF Opened
  <2>2. QED
      BY <1>5, <1>6, <2>1
<1>7. CASE FreeFd(p) = -1
    BY <1>4, <1>7 DEF Opened
<1>8. QED
    BY <1>6, <1>7

(* read and write, of a file that is led to.                                *)
LEMMA Transferred ==
    ASSUME Cached, Shaped', NEW s, Same(Start, s), Commit(s), NEW f \in Files, NEW d,
           file' = (IF d > 0 THEN [file EXCEPT ![f].off = @ + d] ELSE file), d \in Int,
           proc' = proc
    PROVE  Goes
<1>1. State(Start) /\ CoherentBut(Start, 0)
    BY StartState
<1>2. Moves(Start, s, 0) /\ State(s)
    BY <1>1, SameMoves DEF Same
<1>3. ~wild' => Carried
    BY <1>2, CallCarries
<1>4. Tables(Slots \cup {0}, Nat) /\ \A g \in Files : file[g].ip \in Slots \cup {0}
    BY DEF Cached, Typed, Shaped
<1>5. \A g \in Files : file'[g].ip = file[g].ip /\ file'[g].of = file[g].of
    BY <1>4 DEF Tables
<1>6. ~wild' => Cached'
    BY <1>3, <1>5, CarryOn
<1>7. QED
    BY <1>2, <1>6, Ends

(* The file behind an open descriptor, and its inode.                       *)
Behind(f, k, i) ==
    /\ f \in Files /\ file[f].ip = k /\ file[f].off \in Nat /\ file[f].of \in Nat
    /\ k \in Slots /\ Start.ic[k].n.type = img.ino[i].type
    /\ Addressed(Start, k, i)

(* It is in the cache as it is on the disk.                                 *)
LEMMA FileHeld ==
    ASSUME Cached, NEW p \in Procs, NEW fd \in Fds, NEW f, At(p, fd) = f, f # 0,
           NEW k, file[f].ip = k, NEW i, ic[k].idx = i
    PROVE  Behind(f, k, i)
<1>1. f \in Files /\ Leading(f)
  <2>1. proc[p].ofile[fd] = f
      BY DEF At
  <2>2. proc[p].ofile[fd] \in Files \cup {0}
      BY DEF Cached, Typed, Shaped, Tables
  <2>3. proc[p].ofile[fd] # 0 => Leading(proc[p].ofile[fd])
      BY DEF Cached, Refers
  <2>4. QED
      BY <2>1, <2>2, <2>3
<1>2. file[f].off \in Nat /\ file[f].of \in Nat
    BY <1>1 DEF Cached, Typed, Shaped, Tables
<1>3. k \in Slots /\ ic[k].ref > 0
    BY <1>1 DEF Leading
<1>4. i \in Inodes /\ ic[k].n = img.ino[i]
    BY <1>3 DEF Cached, Coherent
<1>5. Start.ic = ic /\ Start.img = img
    BY StartState
<1>6. QED
    BY <1>1, <1>2, <1>3, <1>4, <1>5 DEF Behind, Addressed

(* SysRead moves a file's offset.                                           *)
LEMMA ReadCached ==
    ASSUME Cached, Shaped', NEW p \in Procs, NEW fd \in Fds, NEW n \in Counts, SysRead(p, fd, n)
    PROVE  Goes
<1>1. PICK f, k, i : At(p, fd) = f /\ file[f].ip = k /\ ic[k].idx = i
    OBVIOUS
<1> DEFINE r == DataRead(Start, k, file[f].off, n)
<1>2. f # 0 /\ Commit(r.s) /\ proc' = proc
      /\ file' = IF r.ret > 0 THEN [file EXCEPT ![f].off = @ + r.ret] ELSE file
    BY <1>1 DEF SysRead, Regular
<1>3. Behind(f, k, i)
    BY <1>1, <1>2, FileHeld
<1>4. f \in Files /\ file[f].off \in Nat /\ k \in Slots /\ Addressed(Start, k, i)
    BY <1>3 DEF Behind
<1>5. Got(Start, r)
  <2>1. n \in Int
      BY CallsOK
  <2>2. State(Start)
      BY StartState
  <2>3. QED
      BY <1>4, <2>1, <2>2, DataReadSame
<1> HIDE DEF r
<1>6. QED
    BY <1>2, <1>4, <1>5, Transferred DEF Got

(* SysWrite changes units of a file that is no directory.                   *)
LEMMA WriteCached ==
    ASSUME Cached, Shaped', NEW p \in Procs, NEW fd \in Fds, NEW n \in Counts,
           SysWrite(p, fd, n)
    PROVE  Goes
<1>1. PICK f, k, i : At(p, fd) = f /\ file[f].ip = k /\ ic[k].idx = i
    OBVIOUS
<1> DEFINE data == [j \in 1 .. n |-> <<file[f].of, "w">>]
<1> DEFINE r == DataWrite(Start, k, file[f].off, data)
<1>2. f # 0 /\ ic[k].n.type # T_DIR
      /\ \/ /\ Commit(r.s) /\ proc' = proc
            /\ file' = IF r.ret > 0 THEN [file EXCEPT ![f].off = @ + r.ret] ELSE file
         \/ Cut(r.s)
    BY <1>1 DEF SysWrite, Regular
<1>3. Behind(f, k, i)
    BY <1>1, <1>2, FileHeld
<1>4. /\ f \in Files /\ file[f].off \in Nat /\ file[f].of \in Nat /\ k \in Slots
      /\ Addressed(Start, k, i)
    BY <1>3 DEF Behind
<1>5. i \notin Directories(Start.img)
    BY <1>2, <1>3, StartState DEF Behind, Directories
<1>6. data \in Seq(Units)
  <2>1. n \in Nat
      BY CallsOK
  <2>2. <<file[f].of, "w">> \in Units
      BY <1>4 DEF Units, Texts
  <2> HIDE DEF Units
  <2>3. data \in [1 .. n -> Units]
      BY <2>2
  <2> HIDE DEF data
  <2>4. QED
      BY <2>1, <2>3
<1>7. State(Start)
    BY StartState
<1> HIDE DEF data
<1>8. Same(Start, r.s) /\ r.ret \in Int
    BY <1>4, <1>5, <1>6, <1>7, DataWriteSame
<1> HIDE DEF r
<1>9. CASE Cut(r.s)
    BY <1>8, <1>9, CutCached DEF Same
<1>10. CASE ~Cut(r.s)
    BY <1>2, <1>4, <1>8, <1>10, Transferred
<1>11. QED
    BY <1>9, <1>10

(* SysDup gives a file another descriptor.                                  *)
LEMMA DupCached ==
    ASSUME Cached, Shaped', NEW p \in Procs, NEW fd \in Fds, SysDup(p, fd)
    PROVE  Goes
<1>1. CASE At(p, fd) = 0
  <2>1. Moves(Start, Fail(Start), 0)
      BY StartState, FailSame, Gone DEF Same
  <2>2. QED
      BY <1>1, <2>1, Computed DEF SysDup
<1>2. CASE At(p, fd) # 0
  <2>1. PICK g, i : g = At(p, fd) /\ i = FreeFd(p)
      OBVIOUS
  <2>2. Carried /\ Commit(Start) /\ State(Start)
    <3>1. Moves(Start, Start, 0) /\ State(Start) /\ Start.ok
        BY StartState, SameSelf, SameMoves
    <3>2. Commit(Start)
        BY <1>2 DEF SysDup
    <3>3. ~wild'
        BY <3>1, <3>2 DEF Commit
    <3>4. QED
        BY <3>1, <3>2, <3>3, CallCarries
  <2>3. Tables(Slots \cup {0}, Nat) /\ \A f \in Files : file[f].ip \in Slots \cup {0}
      BY DEF Cached, Typed, Shaped
  <2>4. i \in Fds /\ Caller(p)
      BY <2>1, <2>3, FreeFacts DEF SysDup
  <2>5. g \in Files /\ Leading(g)
      BY <1>2, <2>1, <2>3 DEF At, Tables, Cached, Typed, Shaped, Refers
  <2>6. file' = [file EXCEPT ![g].ref = @ + 1] /\ proc' = [proc EXCEPT ![p].ofile[i] = g]
      BY <1>2, <2>1 DEF SysDup
  <2>7. \A f \in Files : file'[f].ip = file[f].ip /\ file'[f].of = file[f].of
      BY <2>3, <2>5, <2>6 DEF Tables
  <2>8. \A q \in Procs : \A j \in Fds :
           proc'[q].ofile[j] = IF q = p /\ j = i THEN g ELSE proc[q].ofile[j]
      BY <2>3, <2>4, <2>6 DEF Tables
  <2>9. Refers'
    <3> SUFFICES ASSUME NEW q \in Procs, NEW j \in Fds, NEW f, f = proc'[q].ofile[j], f # 0
                 PROVE  Leading(f)'
        BY DEF Refers, Leading
    <3>1. f = g \/ f = proc[q].ofile[j]
        BY <2>8
    <3>2. f \in Files /\ Leading(f) /\ ic \in Caches
        BY <2>3, <2>5, <3>1 DEF Cached, Typed, Shaped, Refers, Tables
    <3>3. file'[f].ip = file[f].ip /\ file'[f].of = file[f].of
        BY <2>7, <3>2
    <3>4. QED
        BY <2>2, <3>2, <3>3, StillLeads
  <2>10. \A q \in Procs : proc'[q].live = proc[q].live /\ proc'[q].cwd = proc[q].cwd
      BY <2>3, <2>4, <2>6 DEF Tables
  <2>11. ASSUME NEW q \in Procs, proc[q].live, proc[q].cwd = 0, NEW j \in Fds
         PROVE  proc'[q].ofile[j] = 0
    <3>1. q # p
        BY <2>4, <2>11 DEF Caller
    <3>2. QED
        BY <2>8, <2>11, <3>1 DEF Cached, Alone
  <2>12. Cached'
      BY <2>2, <2>9, <2>10, <2>11, Carry
  <2>13. QED
      BY <2>2, <2>12, Ends
<1>3. QED
    BY <1>1, <1>2

(* A process gets the root directory from setup.                            *)
LEMMA RootGiven ==
    ASSUME Cached, Carried, Shaped', file' = file, NEW p \in Procs, proc[p].live,
           NEW k \in Slots, proc' = [proc EXCEPT ![p].cwd = k],
           ic'[k].ref > 0, ic'[k].idx = RootIno
    PROVE  Cached'
<1>1. Tables(Slots \cup {0}, Nat) /\ k # 0
    BY DEF Cached, Typed, Shaped, Slots
<1>2. /\ \A q \in Procs : /\ proc'[q].live = proc[q].live /\ proc'[q].ofile = proc[q].ofile
                          /\ proc'[q].cwd = IF q = p THEN k ELSE proc[q].cwd
    BY <1>1 DEF Tables
<1>3. Refers'
  <2> SUFFICES ASSUME NEW q \in Procs, NEW j \in Fds, NEW f, f = proc[q].ofile[j], f # 0
               PROVE  Leading(f)'
      BY <1>2 DEF Refers, Leading
  <2>1. Leading(f) /\ ic \in Caches
      BY DEF Cached, Typed, Refers
  <2>2. QED
      BY <2>1, StillLeads
<1>4. Settled' = Settled \cup {p}
    BY <1>1, <1>2 DEF Settled
<1>5. \A j \in Slots : ic'[j].ref \in Nat
  <2>1. ic' \in Caches
      BY DEF Carried, Lasting
  <2>2. \A j \in Slots : ic'[j].ref \in 0 .. RefMod - 1
      BY <2>1 DEF Caches
  <2>3. QED
      BY <2>2, CacheSizes
<1>6. ASSUME NEW q \in Settled' PROVE proc'[q].cwd = k
  <2>1. CASE q = p
      BY <1>2, <2>1
  <2>2. CASE q # p
    <3>1. q \in Settled /\ q \in Procs
        BY <1>4, <2>2 DEF Settled
    <3>2. proc[q].cwd \in Slots /\ ic[proc[q].cwd].ref > 0
        BY <3>1, RootHeld
    <3>3. ic[proc[q].cwd].idx = RootIno /\ ic[proc[q].cwd].ref \in Nat
        BY <3>1, <3>2, CacheTypes DEF Cached, Rooted
    <3>4. ic'[proc[q].cwd].idx = RootIno /\ ic'[proc[q].cwd].ref >= ic[proc[q].cwd].ref
        BY <3>2, <3>3 DEF Carried
    <3>5. ic'[proc[q].cwd].ref > 0
        BY <1>5, <3>2, <3>3, <3>4
    <3>6. proc[q].cwd = k
        BY <3>2, <3>4, <3>5 DEF Carried, Coherent
    <3>7. QED
        BY <1>2, <2>2, <3>1, <3>6
  <2>3. QED
      BY <2>1, <2>2
<1>7. ic'[k].ref >= 2 * Cardinality(Settled') - 1
  <2>1. CASE p \in Settled
    <3>1. Settled' = Settled
        BY <1>4, <2>1
    <3>2. proc'[p].cwd = k /\ proc[p].cwd \in Slots /\ ic[proc[p].cwd].ref > 0
        BY <1>2, <2>1, RootHeld
    <3>3. ic[proc[p].cwd].idx = RootIno
          /\ ic[proc[p].cwd].ref >= 2 * Cardinality(Settled) - 1
        BY <2>1 DEF Cached, Rooted
    <3>4. ic[proc[p].cwd].ref \in Nat /\ Cardinality(Settled) \in Nat
        BY <3>2, CacheTypes
    <3>5. ic'[proc[p].cwd].idx = RootIno /\ ic'[proc[p].cwd].ref >= ic[proc[p].cwd].ref
        BY <3>2, <3>3 DEF Carried
    <3>6. proc[p].cwd = k
        BY <1>5, <3>2, <3>4, <3>5 DEF Carried, Coherent
    <3>7. QED
        BY <1>5, <3>1, <3>3, <3>4, <3>5, <3>6
  <2>2. CASE p \notin Settled
    <3>1. Settled = {}
      <4>1. proc[p].cwd = 0
          BY <2>2 DEF Settled
      <4>2. \A q \in Procs : proc[q].live => q = p
          BY <4>1 DEF Cached, Alone
      <4>3. QED
          BY <2>2, <4>2 DEF Settled
    <3>2. Settled' = {p}
        BY <1>4, <3>1
    <3>3. Cardinality({p}) = 1
        BY FS_Singleton
    <3>4. QED
        BY <1>5, <3>2, <3>3
  <2>3. QED
      BY <2>1, <2>2
<1>8. Rooted'
    BY <1>6, <1>7 DEF Rooted
<1>9. Alone'
    BY <1>1, <1>2 DEF Cached, Alone
<1>10. Typed'
    BY CarriedTyped
<1>11. QED
    BY <1>3, <1>8, <1>9, <1>10 DEF Cached, Carried

(* setup: the slot of the root directory, which all processes have.         *)
LEMMA SetupCached ==
    ASSUME Cached, Sound, Shaped', ~wrapped', NEW p \in Procs, Setup(p)
    PROVE  Goes
<1>1. PICK x : x = Read(Start, SbBlock)
    OBVIOUS
<1>2. PICK r : r = GetInode(x, RootIno)
    OBVIOUS
<1>3. /\ IF ~img.magic THEN Commit(Fail(r.s)) /\ UNCHANGED proc
         ELSE Commit(r.s) /\ proc' = [proc EXCEPT ![p].cwd = r.k]
      /\ file' = file /\ proc[p].live
    BY <1>1, <1>2 DEF Setup
<1>4. State(Start) /\ CoherentBut(Start, 0) /\ Start.ic = ic /\ Start.img = img
    BY StartState
<1>5. Same(Start, x)
    BY <1>1, <1>4, Sizes, ReadSame
<1>6. Moves(Start, x, 0)
    BY <1>4, <1>5, SameMoves
<1>7. State(x) /\ (x.ok => CoherentBut(x, RootIno))
    BY <1>6, Sizes DEF Moves, CoherentBut
<1>8. Raw(x)
    BY <1>1, RawStart, RawRead DEF Onward
<1>9. Raw(r.s)
    BY <1>2, <1>8, RawGetInode DEF Slotful, Onward
<1>10. ~r.s.over
  <2>1. CASE ~img.magic
    <3>1. r.s.over => Fail(r.s).over
        BY <1>9, RawFail DEF Onward
    <3>2. QED
        BY <1>3, <2>1, <3>1, NotOver
  <2>2. CASE img.magic
      BY <1>3, <2>2, NotOver
  <2>3. QED
      BY <2>1, <2>2
<1>11. /\ Found(x, r) /\ r.k \in Slots \cup {0}
       /\ r.s.ok => Held(r.s, r.k) /\ r.s.ic[r.k].idx = RootIno
    BY <1>2, <1>7, <1>8, <1>10, GetInodeFinds
<1>12. Moves(Start, r.s, 0) /\ State(r.s)
    BY <1>4, <1>6, <1>11, MovesOn DEF Found, Moves
<1>13. CASE ~img.magic
  <2>1. Moves(Start, Fail(r.s), 0)
      BY <1>12, FailSame, Gone DEF Same
  <2>2. QED
      BY <1>3, <1>13, <2>1, Computed
<1>14. CASE img.magic
  <2>1. PICK k : k = r.k
      OBVIOUS
  <2>2. proc' = [proc EXCEPT ![p].cwd = k]
      BY <1>3, <1>14, <2>1
  <2>3. ASSUME ~wild' PROVE Cached'
    <3>1. Carried /\ r.s.ok /\ ic' = r.s.ic
        BY <1>3, <1>12, <1>14, <2>3, CallCarries
    <3>2. k \in Slots /\ ic'[k].ref > 0 /\ ic'[k].idx = RootIno
        BY <1>11, <2>1, <3>1 DEF Held
    <3>3. QED
        BY <1>3, <2>2, <3>1, <3>2, RootGiven
  <2>4. QED
      BY <1>3, <1>12, <1>14, <2>3, Ends
<1>15. QED
    BY <1>13, <1>14

(* All processes with a root have the same slot.                            *)
LEMMA SameRoot ==
    ASSUME Cached, NEW p \in Settled, NEW q \in Settled
    PROVE  proc[q].cwd = proc[p].cwd
<1>1. \A x \in Settled : /\ proc[x].cwd \in Slots /\ ic[proc[x].cwd].ref > 0
                         /\ ic[proc[x].cwd].idx = RootIno
    BY RootHeld DEF Cached, Rooted
<1>2. QED
    BY <1>1 DEF Cached, Coherent

(* A child that fork has given what its parent has.                         *)
LEMMA Inherited ==
    ASSUME Cached, Carried, Shaped', NEW p \in Settled, NEW q \in Procs, ~proc[q].live,
           \A f \in Files : file'[f].ip = file[f].ip /\ file'[f].of = file[f].of,
           proc' = [proc EXCEPT ![q] = proc[p]],
           NEW c, proc[p].cwd = c, ic'[c].ref = ic[c].ref + 2
    PROVE  Cached'
<1>1. Tables(Slots \cup {0}, Nat)
    BY DEF Cached, Typed, Shaped
<1>2. /\ p \in Procs /\ p # q /\ proc[p].live /\ c # 0
      /\ c \in Slots /\ ic[c].ref > 0 /\ ic[c].ref \in Nat
    BY RootHeld, CacheTypes DEF Settled, Slots
<1>3. \A x \in Procs : proc'[x] = proc[IF x = q THEN p ELSE x]
    BY <1>1, <1>2 DEF Tables
<1>4. Refers'
  <2> SUFFICES ASSUME NEW x \in Procs, NEW j \in Fds, NEW f, f = proc'[x].ofile[j], f # 0
               PROVE  Leading(f)'
      BY DEF Refers, Leading
  <2>1. PICK y \in Procs : f = proc[y].ofile[j]
      BY <1>2, <1>3
  <2>2. f \in Files /\ Leading(f) /\ ic \in Caches
      BY <1>1, <2>1 DEF Cached, Typed, Refers, Tables
  <2>3. QED
      BY <2>2, StillLeads
<1>5. Settled' = Settled \cup {q} /\ q \notin Settled
    BY <1>2, <1>3 DEF Settled
<1>6. Cardinality(Settled') = Cardinality(Settled) + 1
    BY <1>5, CacheTypes, FS_AddElement
<1>7. Rooted'
  <2> SUFFICES ASSUME NEW x \in Settled'
               PROVE  /\ ic'[proc'[x].cwd].idx = RootIno
                      /\ ic'[proc'[x].cwd].ref >= 2 * Cardinality(Settled') - 1
      BY DEF Rooted
  <2>1. proc'[x].cwd = c
    <3>1. x = q \/ x \in Settled
        BY <1>5
    <3>2. x \in Procs
        BY DEF Settled
    <3>3. QED
        BY <1>3, <3>1, <3>2, SameRoot
  <2>2. ic[c].idx = RootIno /\ ic[c].ref >= 2 * Cardinality(Settled) - 1
      BY DEF Cached, Rooted
  <2>3. ic'[c].idx = RootIno
      BY <1>2, <2>2 DEF Carried
  <2>4. Cardinality(Settled) \in Nat
      BY CacheTypes
  <2>5. QED
      BY <1>2, <1>6, <2>1, <2>2, <2>3, <2>4
<1>8. Alone'
    BY <1>2, <1>3 DEF Cached, Alone
<1>9. Typed'
    BY CarriedTyped
<1>10. QED
    BY <1>4, <1>7, <1>8, <1>9 DEF Cached, Carried

(* Fork gives the child its parent's root and descriptors.                  *)
LEMMA ForkCached ==
    ASSUME Cached, Sound, Shaped', ~wrapped', NEW p \in Procs, NEW q \in Procs, Fork(p, q)
    PROVE  Goes
<1>1. PICK c, d : c = proc[p].cwd /\ d = Dup(Start, c)
    OBVIOUS
<1>2. PICK s : s = Dup(d, c)
    OBVIOUS
<1>3. /\ Caller(p) /\ p \in Settled /\ ~proc[q].live /\ p # q /\ Commit(s)
      /\ file' = [f \in Files |-> [file[f] EXCEPT !.ref = @ + Holds(p, f)]]
      /\ proc' = [proc EXCEPT ![q] = proc[p]]
    BY <1>1, <1>2 DEF Fork, Caller, Settled
<1>4. c \in Slots /\ ic[c].ref > 0 /\ ic[c].ref \in Nat
    BY <1>1, <1>3, RootHeld, CacheTypes
<1>5. Raw(Start) /\ Start.ic[c].idx \in Inodes
    BY <1>1, <1>3, RootSound, RawStart
<1>6. Raw(d) /\ d.ic[c].idx \in Inodes
    BY <1>1, <1>4, <1>5, RawDup DEF Onward
<1>7. ~s.over
    BY <1>3, NotOver
<1>8. ~d.over
    BY <1>2, <1>4, <1>6, <1>7, RawDup DEF Onward
<1>9. State(Start) /\ CoherentBut(Start, 0) /\ Start.ic = ic
    BY StartState
<1>10. Raised(Start, c, d)
    BY <1>1, <1>4, <1>8, <1>9, DupRaises
<1>11. Moves(Start, d, 0) /\ (d.ok => Held(d, c) /\ CoherentBut(d, 0)) /\ State(d)
    BY <1>1, <1>3, <1>8, FromRoot DEF Moves
<1>12. Raised(d, c, s)
    BY <1>2, <1>4, <1>7, <1>11, DupRaises
<1>13. s.ok => d.ok
    BY <1>12 DEF Raised
<1>14. Moves(Start, s, 0) /\ State(s)
  <2>1. State(s)
      BY <1>12 DEF Raised, Slotted
  <2>2. d.ok => Moves(d, s, 0)
      BY <1>11, <1>12, RaisedMoves
  <2>3. QED
      BY <1>9, <1>11, <1>13, <2>1, <2>2, MovesOn
<1>15. Tables(Slots \cup {0}, Nat)
    BY DEF Cached, Typed, Shaped
<1>16. \A f \in Files : file'[f].ip = file[f].ip /\ file'[f].of = file[f].of
    BY <1>3, <1>15 DEF Tables
<1>17. ASSUME ~wild' PROVE Cached'
  <2>1. Carried /\ s.ok /\ ic' = s.ic
      BY <1>3, <1>14, <1>17, CallCarries
  <2>2. d.ic[c].ref = ic[c].ref + 1
      BY <1>4, <1>9, <1>10, <1>13, <2>1, RaisedSlots
  <2>3. s.ic[c].ref = d.ic[c].ref + 1
      BY <1>4, <1>11, <1>12, <2>1, RaisedSlots
  <2>4. ic'[c].ref = ic[c].ref + 2
      BY <1>4, <2>1, <2>2, <2>3
  <2>5. p \in Settled /\ q \in Procs /\ ~proc[q].live /\ proc[p].cwd = c
      BY <1>1, <1>3
  <2>6. proc' = [proc EXCEPT ![q] = proc[p]]
      BY <1>3
  <2>7. QED
      BY <1>16, <2>1, <2>4, <2>5, <2>6, Inherited
<1>18. QED
    BY <1>3, <1>14, <1>17, Ends

(* exit takes its two references back, and one too many of the last.        *)
LEMMA ExitCached ==
    ASSUME Cached, Good, Shaped', NEW p \in Procs, Exit(p)
    PROVE  Goes
<1>1. PICK c : c = proc[p].cwd
    OBVIOUS
<1> DEFINE v == (ic[c].ref - 2) % RefMod
<1>2. /\ p \in Settled
      /\ Commit([Start EXCEPT !.ic[c].ref = v])
      /\ file' = [f \in Files |-> [file[f] EXCEPT !.ref = @ - Holds(p, f)]]
      /\ proc' = [proc EXCEPT ![p] = NoProc]
    BY <1>1 DEF Exit, Caller, Settled, Start
<1>3. c \in Slots /\ c # 0 /\ ic[c].ref > 0 /\ ic[c].ref \in Nat /\ ic[c].ref \in 0 .. RefMod - 1
    BY <1>1, <1>2, RootHeld, CacheTypes DEF Slots
<1>4. /\ ic' = [ic EXCEPT ![c].ref = v] /\ img' = img /\ cached' = cached
      /\ wild' \in BOOLEAN /\ ~wild'
    BY <1>2 DEF Commit, Start
<1>5. v \in 0 .. RefMod - 1 /\ (ic[c].ref >= 2 => v = ic[c].ref - 2)
    BY <1>3, CacheSizes
<1> HIDE DEF v
<1>6. /\ ic' \in Caches /\ ic'[c].ref = v /\ ic'[c].idx = ic[c].idx /\ ic'[c].n = ic[c].n
      /\ \A k \in Slots : k # c => ic'[k] = ic[k]
    BY <1>3, <1>4, <1>5 DEF Cached, Typed, Caches
<1>7. Coherent'
  <2>1. \A k \in Slots : /\ ic'[k].ref > 0 => ic[k].ref > 0
                         /\ ic'[k].idx = ic[k].idx /\ ic'[k].n = ic[k].n
      BY <1>3, <1>6
  <2>2. QED
      BY <1>4, <2>1 DEF Cached, Coherent
<1>8. Tables(Slots \cup {0}, Nat) /\ \A f \in Files : file[f].ip \in Slots \cup {0}
    BY DEF Cached, Typed, Shaped
<1>9. \A f \in Files : file'[f].ip = file[f].ip /\ file'[f].of = file[f].of
    BY <1>2, <1>8 DEF Tables
<1>10. Typed' /\ Kept(img, img')
  <2>1. WellFormed(img)
      BY DEF Cached, Typed
  <2>2. Kept(img, img')
      BY <1>4, <2>1, DiskStays DEF Disk
  <2>3. WellFormed(img)'
      BY <1>4, <2>1
  <2>4. QED
      BY <1>4, <1>6, <2>2, <2>3 DEF Cached, Typed
<1>11. /\ ~proc'[p].live /\ \A i \in Fds : proc'[p].ofile[i] = 0
      /\ \A x \in Procs : x # p => proc'[x] = proc[x]
    BY <1>2, <1>8 DEF Tables, NoProc
<1>12. Settled' = Settled \ {p}
    BY <1>11 DEF Settled
<1>13. Cardinality(Settled') = Cardinality(Settled) - 1 /\ IsFiniteSet(Settled')
    BY <1>2, <1>12, CacheTypes, FS_RemoveElement
<1>14. Cardinality(Settled) \in Nat /\ ic[c].idx = RootIno
       /\ ic[c].ref >= 2 * Cardinality(Settled) - 1
    BY <1>1, <1>2, CacheTypes DEF Cached, Rooted
<1>15. Alone'
    BY <1>2, <1>11 DEF Cached, Alone, Settled
<1>16. CASE Settled' = {}
  <2>1. ASSUME NEW x \in Procs, NEW j \in Fds PROVE proc'[x].ofile[j] = 0
    <3>1. CASE x = p
        BY <1>11, <3>1
    <3>2. CASE x # p
      <4>1. proc'[x] = proc[x] /\ x \notin Settled
          BY <1>11, <1>12, <1>16, <3>2
      <4>2. ~proc[x].live \/ proc[x].cwd = 0
          BY <4>1 DEF Settled
      <4>3. proc[x].ofile[j] = 0
          BY <4>2 DEF Good, FreeHoldsNone, Cached, Alone
      <4>4. QED
          BY <4>1, <4>3
    <3>3. QED
        BY <3>1, <3>2
  <2>2. Refers' /\ Rooted'
      BY <1>16, <2>1 DEF Refers, Rooted
  <2>3. QED
      BY <1>7, <1>10, <1>15, <2>2 DEF Cached, Safe, Goes
<1>17. CASE Settled' # {}
  <2>1. Cardinality(Settled') # 0 /\ Cardinality(Settled') \in Nat
      BY <1>13, <1>17, FS_EmptySet, FS_CardinalityType
  <2>2. v = ic[c].ref - 2 /\ v >= 2 * Cardinality(Settled') - 1 /\ v > 0
    <3>1. Cardinality(Settled) >= 2
        BY <1>13, <1>14, <2>1
    <3>2. QED
        BY <1>3, <1>5, <1>13, <1>14, <3>1
  <2>3. Rooted'
    <3> SUFFICES ASSUME NEW x \in Settled'
                 PROVE  /\ ic'[proc'[x].cwd].idx = RootIno
                        /\ ic'[proc'[x].cwd].ref >= 2 * Cardinality(Settled') - 1
        BY DEF Rooted
    <3>1. x \in Settled /\ x \in Procs /\ x # p
        BY <1>12 DEF Settled
    <3>2. proc'[x].cwd = c
        BY <1>1, <1>2, <1>11, <3>1, SameRoot
    <3>3. QED
        BY <1>6, <1>14, <2>2, <3>2
  <2>4. Refers'
    <3> SUFFICES ASSUME NEW x \in Procs, NEW j \in Fds, NEW f, f = proc'[x].ofile[j], f # 0
                 PROVE  Leading(f)'
        BY DEF Refers, Leading
    <3>1. f = proc[x].ofile[j]
        BY <1>11
    <3>2. f \in Files /\ Leading(f)
        BY <1>8, <3>1 DEF Cached, Typed, Shaped, Refers, Tables
    <3>3. file'[f].ip = file[f].ip /\ file'[f].of = file[f].of
        BY <1>9, <3>2
    <3>4. file[f].ip \in Slots /\ ic[file[f].ip].ref > 0 /\ ic[file[f].ip].idx = file[f].of
        BY <3>2 DEF Leading
    <3>5. ic'[file[f].ip].ref > 0 /\ ic'[file[f].ip].idx = file[f].of
        BY <1>6, <2>2, <3>4
    <3>6. QED
        BY <3>3, <3>4, <3>5 DEF Leading
  <2>5. QED
      BY <1>7, <1>10, <1>15, <2>3, <2>4 DEF Cached, Safe, Goes
<1>18. QED
    BY <1>16, <1>17

(* What has wrapped around once has for good.                               *)
LEMMA StaysWrapped == ASSUME wrapped, [Next]_vars PROVE wrapped'
<1>1. ASSUME NEW s, Commit(s) \/ Cut(s) PROVE wrapped'
    BY <1>1, Zenon DEF Commit, Cut, PowerOn
<1>2. CASE UNCHANGED vars
    BY <1>2 DEF vars
<1>3. CASE PowerFails
    BY <1>3, Zenon DEF PowerFails, PowerOn
<1>4. ASSUME NEW p \in Procs, Setup(p) PROVE wrapped'
    BY <1>1, <1>4, Zenon DEF Setup
<1>5. ASSUME NEW p \in Procs, NEW path \in Paths,
             Open(p, path) \/ OpenCreate(p, path) \/ Mknod(p, path)
      PROVE  wrapped'
    BY <1>1, <1>5, Zenon DEF Open, OpenCreate, Mknod, Opened
<1>6. ASSUME NEW p \in Procs, NEW fd \in Fds, NEW n \in Counts,
             SysRead(p, fd, n) \/ SysWrite(p, fd, n)
      PROVE  wrapped'
    BY <1>1, <1>6, Zenon DEF SysRead, SysWrite
<1>7. ASSUME NEW p \in Procs, NEW fd \in Fds, SysDup(p, fd) \/ Fstat(p, fd) \/ Close(p, fd)
      PROVE  wrapped'
    BY <1>1, <1>7, Zenon DEF SysDup, Fstat, Close
<1>8. ASSUME NEW p \in Procs, Exit(p) \/ (\E q \in Procs : Fork(p, q)) PROVE wrapped'
    BY <1>1, <1>8, Zenon DEF Exit, Fork
<1>9. QED
    BY <1>2, <1>3, <1>4, <1>5, <1>6, <1>7, <1>8 DEF Next

(* Between calls the cache and the descriptors agree with the disk, and     *)
(* directories keep their entries.                                          *)
LEMMA CacheStep ==
    ASSUME DInv, CInv, Sound, Sound', [Next]_vars, ~wrapped'
    PROVE  Goes
<1>1. CASE UNCHANGED vars
  <2>1. /\ img' = img /\ cached' = cached /\ ic' = ic /\ wild' = wild
        /\ file' = file /\ proc' = proc /\ wrapped' = wrapped
      BY <1>1 DEF vars
  <2>2. Safe /\ Typed /\ WellFormed(img)
      BY <2>1 DEF CInv, Safe, Typed
  <2>3. Kept(img, img')
      BY <2>1, <2>2, DiskStays DEF Disk
  <2>4. Safe'
    <3>1. Typed' <=> Typed
        BY <2>1 DEF Typed, Shaped, Tables
    <3>2. (Coherent /\ Refers)' <=> Coherent /\ Refers
        BY <2>1 DEF Coherent, Refers, Leading
    <3>3. Settled' = Settled
        BY <2>1 DEF Settled
    <3>4. (Rooted /\ Alone)' <=> Rooted /\ Alone
        BY <2>1, <3>3 DEF Rooted, Alone
    <3>5. QED
        BY <2>1, <2>2, <3>1, <3>2, <3>4 DEF Safe, Cached
  <2>5. QED
      BY <2>3, <2>4 DEF Goes
<1>2. CASE wild /\ ~UNCHANGED vars
    BY <1>2, NotWild
<1>3. CASE ~wild /\ wrapped
    BY <1>3, StaysWrapped
<1>4. CASE ~wild /\ ~wrapped /\ ~UNCHANGED vars
  <2>1. Good /\ Cached /\ Shaped'
      BY <1>4 DEF DInv, CInv, Safe, Sound
  <2>2. Moves(Start, Fail(Start), 0)
      BY <2>1, StartState, FailSame, Gone DEF Same
  <2>3. CASE PowerFails
    <3>1. Disk(img)
        BY <2>1, DiskStays DEF Cached, Typed
    <3>2. PowerOn(img, FALSE)
        BY <2>3 DEF PowerFails
    <3>3. QED
        BY <2>1, <3>1, <3>2, PowerCached
  <2>4. ASSUME NEW p \in Procs, NEW path \in Paths,
               Open(p, path) \/ OpenCreate(p, path) \/ Mknod(p, path)
        PROVE  Goes
    <3>1. path \in Seq(STRING) /\ Caller(p)
        BY <2>4, CallsOK DEF Open, OpenCreate, Mknod
    <3>2. PICK c : c = proc[p].cwd
        OBVIOUS
    <3>3. CASE Open(p, path)
      <4>1. PICK w : w = Walk(Start, c, path)
          OBVIOUS
      <4>2. Opened(p, w)
          BY <3>2, <3>3, <4>1 DEF Open
      <4>3. ~w.s.over
          BY <4>2, NotOver DEF Opened
      <4>4. Found(Start, w)
          BY <2>1, <3>1, <3>2, <4>1, <4>3, WalkCalled
      <4>5. QED
          BY <2>1, <3>1, <4>2, <4>4, OpenedCached
    <3>4. CASE OpenCreate(p, path)
      <4>1. PICK r : r = CreateI(Start, c, path, T_FILE, 0)
          OBVIOUS
      <4>2. path # <<>> /\ 0 \in Nat /\ (Opened(p, r) \/ Cut(r.s))
          BY <3>2, <3>4, <4>1 DEF OpenCreate, Created
      <4>3. ~r.s.over
          BY <4>2, NotOver DEF Opened
      <4>4. Found(Start, r) /\ State(r.s)
          BY <2>1, <3>1, <3>2, <4>1, <4>2, <4>3, CreateCalled DEF Found, Moves
      <4>5. QED
          BY <2>1, <3>1, <4>2, <4>4, OpenedCached, CutCached
    <3>5. CASE Mknod(p, path)
      <4>1. PICK r : r = CreateI(Start, c, path, T_DEV, 1)
          OBVIOUS
      <4>2. path # <<>> /\ 1 \in Nat
            /\ ((Commit(r.s) /\ UNCHANGED <<file, proc>>) \/ Cut(r.s))
          BY <3>2, <3>5, <4>1 DEF Mknod
      <4>3. ~r.s.over
          BY <4>2, NotOver
      <4>4. Moves(Start, r.s, 0) /\ State(r.s)
          BY <2>1, <3>1, <3>2, <4>1, <4>2, <4>3, CreateCalled DEF Found, Moves
      <4>5. QED
          BY <2>1, <4>2, <4>4, Computed, CutCached
    <3>6. QED
        BY <2>4, <3>3, <3>4, <3>5
  <2>5. ASSUME NEW p \in Procs, NEW fd \in Fds, NEW n \in Counts,
               SysRead(p, fd, n) \/ SysWrite(p, fd, n)
        PROVE  Goes
      BY <2>1, <2>5, ReadCached, WriteCached
  <2>6. ASSUME NEW p \in Procs, NEW fd \in Fds, SysDup(p, fd) \/ Fstat(p, fd) \/ Close(p, fd)
        PROVE  Goes
    <3>1. CASE SysDup(p, fd)
        BY <2>1, <3>1, DupCached
    <3>2. CASE Fstat(p, fd) \/ Close(p, fd)
        BY <2>1, <2>2, <3>2, Computed DEF Fstat, Close
    <3>3. QED
        BY <2>6, <3>1, <3>2
  <2>7. ASSUME NEW p \in Procs, Setup(p) PROVE Goes
      BY <2>1, <2>7, SetupCached
  <2>8. ASSUME NEW p \in Procs, NEW q \in Procs, Fork(p, q) PROVE Goes
      BY <2>1, <2>8, ForkCached
  <2>9. ASSUME NEW p \in Procs, Exit(p) PROVE Goes
      BY <2>1, <2>9, ExitCached
  <2>10. QED
      BY <1>4, <2>3, <2>4, <2>5, <2>6, <2>7, <2>8, <2>9 DEF Next
<1>5. QED
    BY <1>1, <1>2, <1>3, <1>4

(* At the start the cache is empty and only process 1 lives.                *)
LEMMA CacheStarts == Init => CInv
<1> SUFFICES ASSUME Init PROVE Typed /\ Cached
    BY DEF CInv, Safe
<1>1. /\ file = [f \in Files |-> NoFile] /\ ic = [k \in Slots |-> NoInode]
      /\ proc = [p \in Procs |-> [NoProc EXCEPT !.live = (p = 1)]]
      /\ cached = {} /\ wild = FALSE /\ img = Image(host) /\ host \in Trees
    BY DEF Init
<1>2. ic \in Caches /\ \A k \in Slots : ic[k].ref = 0
    BY <1>1, NewCaches
<1>3. /\ file \in [Files -> [ref : Int, ip : Nat, off : Nat, of : Nat]]
      /\ \A f \in Files : file[f].ip = 0
      /\ proc \in [Procs -> [live : BOOLEAN, ofile : [Fds -> Files \cup {0}],
                             cwd : Slots \cup {0}]]
      /\ \A p \in Procs : /\ proc[p].live = (p = 1) /\ proc[p].cwd = 0
                         /\ \A i \in Fds : proc[p].ofile[i] = 0
    BY <1>1, NewTables
<1>4. Shaped
    BY <1>3 DEF Shaped, Tables
<1>5. WellFormed(img)
    BY <1>1, ImagesOK
<1>6. Typed
    BY <1>1, <1>2, <1>4, <1>5 DEF Typed
<1>7. Coherent
    BY <1>2 DEF Coherent
<1>8. Refers /\ Rooted /\ Alone
    BY <1>3 DEF Refers, Rooted, Alone, Settled
<1>9. QED
    BY <1>6, <1>7, <1>8 DEF Cached

(* What all calls keep, however the processes take turns: the types in any  *)
(* case, the counts of the files until the kernel goes wild, and the rest   *)
(* until a reference wraps around.                                          *)
THEOREM Invariance == Spec => [](Sound /\ DInv /\ CInv)
<1>1. Init => Sound /\ DInv /\ CInv
    BY SoundStarts, DescriptorsStart, CacheStarts
<1>2. Sound /\ DInv /\ CInv /\ [Next]_vars => (Sound /\ DInv /\ CInv)'
    BY SoundStep, DescriptorStep, CacheStep DEF Goes, CInv
<1>3. QED
    BY <1>1, <1>2, PTL DEF Spec

(* A struct file counts the descriptors that hold it, over open, dup, fork, *)
(* exit and power failures, for any number of processes and descriptors     *)
(* and also where an inode's reference wraps around                         *)
(* (sys_file.c:59-70, 244-267, proc.c:169-172, 204-209).                    *)
THEOREM DescriptorsAreCounted == Spec => []DescriptorsCounted
<1>1. DInv => DescriptorsCounted
    BY DEF DInv, Good, Counted, DescriptorsCounted
<1>2. QED
    BY <1>1, Invariance, PTL

(* As long as a descriptor is open, the cache entry behind it is that of    *)
(* the inode that was opened, whatever references exit takes back, until a  *)
(* reference wraps around (tinyfs.c:81-104, proc.c:211-214).                *)
THEOREM DescriptorsStay == Spec => []DescriptorKeepsInode
<1>1. CInv => DescriptorKeepsInode
  <2> SUFFICES ASSUME Cached, NEW f \in Files, Holders(f) > 0
               PROVE  ic[file[f].ip].ref > 0 /\ ic[file[f].ip].idx = file[f].of
      BY DEF CInv, Safe, DescriptorKeepsInode
  <2>1. Descriptors(f) # {}
    <3>1. Holders(f) = Cardinality(Descriptors(f))
        BY CountFacts
    <3>2. QED
        BY <3>1, FS_EmptySet
  <2>2. PICK p \in Procs, i \in Fds : proc[p].ofile[i] = f
      BY <2>1 DEF Descriptors
  <2>3. f # 0
      BY DEF Files
  <2>4. QED
      BY <2>2, <2>3 DEF Cached, Refers, Leading
<1>2. QED
    BY <1>1, Invariance, PTL

(* Until a reference wraps around an inode is in one cache entry, and       *)
(* between calls the entry is what is on the disk, for any paths, any       *)
(* images and wherever the power fails (tinyfs.c:146-207, indexfs.c:125-136).*)
THEOREM CacheIsCoherent == Spec => []CacheCoherent
<1>1. CInv => CacheCoherent
    BY DEF CInv, Safe, Cached, Coherent, CacheCoherent, Inode
<1>2. QED
    BY <1>1, Invariance, PTL

(* Whatever calls, restarts and failures there were, and whatever has       *)
(* wrapped around, every table holds what its types allow, also once the    *)
(* kernel has gone wild.                                                    *)
THEOREM Typing == Spec => []TypeOK
<1>1. Sound /\ CInv => TypeOK
  <2> SUFFICES ASSUME Sound, CInv PROVE TypeOK
      OBVIOUS
  <2>1. \A b \in Blocks : DOMAIN img.blk[b] = 0 .. BS - 1
      BY DEF Sound, Framed
  <2>2. \A i \in Inodes : Inode(i).type \in 0 .. 3 /\ Inode(i).n_link \in Nat
      BY DEF Sound, Framed, InodeSet, Inode
  <2>3. \A k \in Slots : ic[k].ref \in 0 .. RefMod - 1 /\ ic[k].idx \in Inodes \cup {0}
      BY DEF Sound, Caches
  <2>4. \A f \in Files : file[f].ip \in Slots \cup {0} /\ file[f].off \in Nat
      BY DEF Sound, Shaped, Tables
  <2>5. \A p \in Procs : /\ proc[p].cwd \in Slots \cup {0}
                         /\ \A i \in Fds : proc[p].ofile[i] \in Files \cup {0}
      BY DEF Sound, Shaped, Tables
  <2>6. wrapped \/ cached \subseteq Blocks
      BY DEF CInv, Safe, Typed
  <2>7. wild \in BOOLEAN /\ wrapped \in BOOLEAN
      BY DEF Sound
  <2>8. QED
      BY <2>1, <2>2, <2>3, <2>4, <2>5, <2>6, <2>7 DEF TypeOK
<1>2. QED
    BY <1>1, Invariance, PTL

(* Until a reference wraps around no directory on the disk names an inode   *)
(* that is not allocated, for any sizes of the disk and wherever the power  *)
(* fails in creating a file (indexfs.c:125-134).                            *)
THEOREM EntriesAreAllocated == Spec => []EntriesAllocated
<1>1. CInv => EntriesAllocated
    BY DEF CInv, Safe, Typed, WellFormed, EntriesAllocated
<1>2. QED
    BY <1>1, Invariance, PTL

(* Until then two entries of a directory never have the same name, for any  *)
(* paths and any prefixes among names (indexfs.c:116-132).                  *)
THEOREM NamesAreUnique == Spec => []NamesUnique
<1>1. CInv => NamesUnique
    BY DEF CInv, Safe, Typed, WellFormed, NamesUnique
<1>2. QED
    BY <1>1, Invariance, PTL

(* Once an entry is on the disk it stays what it is, over every call and    *)
(* every restart up to that (tinyfs.c:297-320).                             *)
THEOREM EntriesAreKept == Spec => EntriesKept
<1>1. Sound /\ DInv /\ CInv /\ [Next]_vars => [wrapped' \/ Kept(img, img')]_vars
    BY SoundStep, CacheStep DEF Goes
<1>2. QED
    BY <1>1, Invariance, PTL DEF Spec, EntriesKept

=============================================================================
