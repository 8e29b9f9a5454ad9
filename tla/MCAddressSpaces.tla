-------------------------- MODULE MCAddressSpaces --------------------------
(* Directories of tables with two pages each, and a program with a page of *)
(* text, one of data and one of a library, besides one that is no ELF file. *)
EXTENDS AddressSpaces, TLC

MCProgram == {[elf |-> TRUE, ro |-> {0}, rw |-> {1}, lib |-> [v \in {2} |-> CHOOSE f \in Library : TRUE]],
              [elf |-> FALSE, ro |-> {}, rw |-> {0}, lib |-> <<>>]}

\* Frames are alike, but for those of libraries.
MCSymmetry == Permutations(Frame \ Library)

\* Bounds on what is explored further.  A library's frame, once freed, can be
\* lent again and again: more than one page that is no page of the library on it
\* is no new case.  After such a free, pages of mmap are with two processes.
LentAgain ==
    {e \in live \X Page :
        pt[e[1]][e[2]].frame \in spoilt /\ (pt[e[1]][e[2]].rw \/ e[2] # 2)}

MCBound ==
    /\ Cardinality(LentAgain) <= 1
    /\ \/ spoilt = {} \/ Cardinality(live) <= 2
       \/ \A p \in live, v \in Page : ~ pt[p][v].mmapped
=============================================================================
