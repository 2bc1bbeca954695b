------------------------------- MODULE MCRchk -------------------------------
(* rchk on pages of three bytes, in chunks of two, laid out like the ztick   *)
(* targets: the variables on page 2, the first trampoline on page 3, the     *)
(* code on page 0, and the second trampoline beside the variables.  Of the   *)
(* three bytes of such a page, the variables, a copy of the stub and its     *)
(* stack take one each.                                                      *)
EXTENDS Rchk

\* Two of the slots that a page can be mapped to.
MCSlots == {0, 1}
MCHome == [page \in Pages |-> IF page = 3 THEN 1 ELSE 0]

TrampolineOn(page) == [exec |-> page, copy |-> {1}, sp |-> page, stack |-> {2}]

MCData   == {0}
MCPlaces == <<TrampolineOn(3), TrampolineOn(2)>>

\* The other way round, on the pages of targets/vg-8010.mk, hb-55p.mk and
\* hb-75p.mk ...
MCPlacesPage2 == <<TrampolineOn(2), TrampolineOn(3)>>

\* ... and with the copy at 0x8100 as there, which is among the variables.
MCPlacesOnData == <<[TrampolineOn(2) EXCEPT !.copy = {0, 1}], TrampolineOn(3)>>

OnPage(page, slot, lo, hi, off, len) ==
  [page |-> page, slot |-> slot, lo |-> lo, hi |-> hi, off |-> off, len |-> len]

\* Windows and lengths: all of the page, a part of it, cut at the window,
\* a start outside, an empty window.
Shapes(page, slot) ==
  {OnPage(page, slot, 0, 2, 0, 0), OnPage(page, slot, 0, 2, 2, 3), OnPage(page, slot, 1, 2, 1, 3),
   OnPage(page, slot, 0, 1, 0, 3), OnPage(page, slot, 0, 1, 2, 1), OnPage(page, slot, 2, 0, 1, 1)}

Offered == UNION {Shapes(page, slot) : page \in Pages, slot \in MCSlots}

\* One entry, or two with the second on the page of the trampoline, on the
\* page of the variables or on a page that neither needs.
MCManifests ==
  {<<e>> : e \in Offered}
  \cup {<<e, f>> : e \in Offered,
                   f \in {OnPage(3, 0, 0, 2, 0, 0), OnPage(2, 0, 0, 2, 0, 0), OnPage(1, 1, 0, 2, 1, 1)}}

\* A byte that does not read back in a page that is mapped, one in a page
\* that is not, and one behind the code.
MCBad == {[slot |-> 0, page |-> 1, off |-> 2], [slot |-> 0, page |-> 3, off |-> 1],
          [slot |-> 1, page |-> 0, off |-> 1]}

=============================================================================
