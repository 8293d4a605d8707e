---------------------------- MODULE MCDeltaComp ----------------------------
(* DeltaComp on words of 12 bits in pages of two, four pages to a group:   *)
(* a group has 8 words, which save a page when at least 7 of them have one *)
(* of the two chosen bases.                                                *)
EXTENDS DeltaComp

(* The pages made of a sequence of bases; the values differ by position.   *)
MCPages(bases) ==
  LET MCWord(k) == bases[k] * 2 ^ LowBits + ((3 * k) % 2 ^ LowBits)
  IN  [p \in 1 .. Len(bases) \div PageWords |->
        [k \in 1 .. PageWords |-> MCWord((p - 1) * PageWords + k)]]

MCBases == {0, 5, 511}

(* Every choice of bases in one group; no page; less than a group; and two *)
(* groups, one of which compresses, with a page that is left over.         *)
MCTraces ==
  { MCPages(bases) : bases \in [1 .. InputPages * PageWords -> MCBases] }
    \cup { <<>>, MCPages(<<5, 5>>), MCPages(<<5, 0, 5, 0, 511, 511>>) }
    \cup { MCPages(<<5, 0, 5, 5, 0, 5, 5, 5>> \o <<0, 5, 511, 0, 5, 511, 0, 5>> \o <<a, b>>) :
             a, b \in MCBases }
=============================================================================
