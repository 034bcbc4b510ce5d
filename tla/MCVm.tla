--------------------------------- MODULE MCVm ---------------------------------
(***************************************************************************)
(* Vm for TLC.  Two states that differ only in which page serves where      *)
(* behave alike, so TLC keeps one of them: what it compares is which        *)
(* references name the same page, and what the page holds.                  *)
(***************************************************************************)
EXTENDS Vm

References ==
    {c \in Claims : c[1] # "free"}
    \cup {<<"tlb", t[1], t[2], tlb[t].a, tlb[t].pa>> : t \in {t \in Thread : tlb[t].pa # 0}}

Uses ==
    LET refs == References IN
    {<<{<<r[1], r[2], r[3], r[4]>> : r \in {r \in refs : r[5] = pg}}, pg \in mem.free, mem.data[pg]>> :
        pg \in Page}

Guards == {<<s[1], s[2], {a \in MappedAt(s[3]) : ~walkpgdir(mem, s[3], a).u}>> : s \in Spaces}

WellFormed ==
    /\ mem.data \in [Page -> {"junk", "zero", "text"}] /\ mem.tab \in [Page -> [Index -> Entry]]
    /\ kstack \in [Thread -> 0..NPAGES] /\ pgdir \in [Proc -> 0..NPAGES]
    /\ tlb \in [Thread -> [a : PageAddrs, pa : 0..NPAGES]]
    /\ loc \in [Thread -> [d : 0..NPAGES, a : 0..WORD, oldsz : 0..WORD, newsz : 0..WORD, n : Int,
                           addr : 0..WORD, q : 0..NPROC,
                           for : {"none", "growproc", "image", "stack"}]]

PageView ==
    <<WellFormed, pstate, parent, sz, pc, [t \in Thread |-> [loc[t] EXCEPT !.d = IF @ = 0 THEN 0 ELSE 1]],
      panicked, Uses, Guards, Cardinality(mem.free)>>
=============================================================================
