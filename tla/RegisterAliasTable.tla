------------------------- MODULE RegisterAliasTable -------------------------
(***************************************************************************)
(* design/RegisterAliasTable.v: the speculative map, written at rename and *)
(* read to find an operand's physical register, and the architectural map, *)
(* written at retire.                                                      *)
(***************************************************************************)
EXTENDS Naturals

CONSTANTS
  NUM_AREGS,
  HARDWIRE_REG0    \* TRUE for the integer table: x0 is never renamed

VARIABLES spec_map, arch_map

ratvars == <<spec_map, arch_map>>

Areg == 0 .. NUM_AREGS - 1

rpreg(raddr) == IF HARDWIRE_REG0 /\ raddr = 0 THEN 0 ELSE spec_map[raddr]

old_preg0(waddr0) == spec_map[waddr0]
old_preg1_no_bypass(wen0, waddr0, wpreg0, waddr1) == spec_map[waddr1]
old_preg1(wen0, waddr0, wpreg0, waddr1) ==
  IF wen0 /\ waddr0 = waddr1 THEN wpreg0 ELSE spec_map[waddr1]

Init ==
  /\ spec_map = [a \in Areg |-> a]
  /\ arch_map = [a \in Areg |-> a]

\* Two writes to one map in one cycle: slot 1's wins.
Write2(map, en0, addr0, preg0, en1, addr1, preg1) ==
  LET Hit(en, addr, a) == en /\ a = addr /\ (~HARDWIRE_REG0 \/ a # 0)
  IN  [a \in Areg |-> IF Hit(en1, addr1, a) THEN preg1
                      ELSE IF Hit(en0, addr0, a) THEN preg0 ELSE map[a]]

Cycle(wen0, waddr0, wpreg0, wen1, waddr1, wpreg1, cwen0, cwaddr0, cwpreg0, cwen1, cwaddr1, cwpreg1, restore_en) ==
  /\ spec_map' = IF restore_en THEN arch_map
                 ELSE Write2(spec_map, wen0, waddr0, wpreg0, wen1, waddr1, wpreg1)
  /\ arch_map' = Write2(arch_map, cwen0, cwaddr0, cwpreg0, cwen1, cwaddr1, cwpreg1)

RATTypeOK(Preg) ==
  /\ spec_map \in [Areg -> Preg]
  /\ arch_map \in [Areg -> Preg]
=============================================================================
