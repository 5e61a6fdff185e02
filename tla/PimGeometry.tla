----------------------------- MODULE PimGeometry ------------------------------
(***************************************************************************)
(* The address arithmetic: what pim.ko (pim_main.c) and libpim             *)
(* (pim_geom.c) demand of a geometry, how an address of the card decodes   *)
(* into the row, channel, bank and column a command names                  *)
(* (pim_geometry.h), and how a place inside an allocation becomes one      *)
(* (pim_resolve, pim_addr.c).                                              *)
(*                                                                         *)
(* A geometry g is [nch, nbank, row, map, unit, mem], with a region        *)
(* [base, bytes, hugepage, nr, gran, shift, per] for each memory; sizes    *)
(* and addresses are in bytes.  An allocation is [mem, addr], addr being   *)
(* the card address of each of its granules.                               *)
(***************************************************************************)
EXTENDS Integers, Sequences

CONSTANTS
  GprWord,  \* PIM_GPR_WORD_BYTES (32): a beat, a GPR word and the least row
  MaxCh,    \* channels an image may have (8)
  MapBits   \* granules a hugepage's bitmap in libpim can mark (64)

ASSUME GeometryAssumption ==
  /\ GprWord \in Nat \ {0} /\ MaxCh \in Nat \ {0} /\ MapBits \in Nat \ {0}

Mem == {"dram", "gpr"}
Maps == {"ChRoBaCo", "RoChBaCo"}

IsPow2(v) == v # 0 /\ \E s \in 0 .. 30 : v = 2^s
Shift(v) == CHOOSE s \in 0 .. 30 : 2^s >= v /\ (s = 0 \/ 2^(s - 1) < v)

------------------------------------------------------------------------------
(* pim.ko: the module parameters p are [nch, nbank, row, map, hugepage,     *)
(* page, base, span, gbase, gsize].                                         *)
UnitOf(p) == p.nch * p.nbank * p.row

CheckGeometry(p) ==
  /\ IsPow2(p.nch) /\ p.nch <= MaxCh
  /\ IsPow2(p.nbank) /\ IsPow2(p.row) /\ p.row >= GprWord
  /\ p.map \in Maps
  /\ IsPow2(p.hugepage) /\ p.hugepage % UnitOf(p) = 0
  /\ IsPow2(p.page) /\ p.page >= GprWord

Region(p, m) ==
  IF m = "dram"
  THEN [base |-> p.base, bytes |-> p.nch * p.span, hugepage |-> p.hugepage]
  ELSE [base |-> p.gbase, bytes |-> p.gsize, hugepage |-> p.page]

(* ledger_init: what it refuses before it allocates anything.               *)
LedgerFits(r) ==
  r.base % r.hugepage = 0 /\ r.bytes # 0 /\ r.bytes % r.hugepage = 0

(* What GET_INFO reports of a loaded module.                                *)
Info(p) ==
  [nch |-> p.nch, nbank |-> p.nbank, row |-> p.row, map |-> p.map, unit |-> UnitOf(p),
   mem |-> [m \in Mem |-> [base |-> Region(p, m).base, bytes |-> Region(p, m).bytes,
                           hugepage |-> Region(p, m).hugepage,
                           nr |-> Region(p, m).bytes \div Region(p, m).hugepage]]]

------------------------------------------------------------------------------
(* libpim: what it derives from the report, and its own checks.             *)
WithGran(r, gran) ==
  [base |-> r.base, bytes |-> r.bytes, hugepage |-> r.hugepage, nr |-> r.nr, gran |-> gran,
   shift |-> IF gran = 0 THEN 0 ELSE Shift(gran),
   per |-> IF gran = 0 THEN 0 ELSE r.hugepage \div gran]
Derive(info) ==
  [nch |-> info.nch, nbank |-> info.nbank, row |-> info.row, map |-> info.map, unit |-> info.unit,
   mem |-> [m \in Mem |->
     WithGran(info.mem[m], IF m = "dram" THEN info.unit ELSE info.mem[m].hugepage)]]

CheckRegion(r) ==
  /\ IsPow2(r.hugepage) /\ IsPow2(r.gran)
  /\ r.hugepage % r.gran = 0
  /\ r.hugepage \div r.gran <= MapBits
  /\ r.base % r.hugepage = 0
  /\ r.bytes # 0 /\ r.bytes % r.hugepage = 0
  /\ r.nr = r.bytes \div r.hugepage

GeomCheck(g) ==
  /\ IsPow2(g.nch) /\ g.nch <= MaxCh
  /\ IsPow2(g.nbank) /\ IsPow2(g.row) /\ g.row >= GprWord
  /\ g.unit = UnitOf(g)
  /\ \A m \in Mem : CheckRegion(g.mem[m])
  /\ g.mem["dram"].hugepage % g.unit = 0
  /\ g.map = "ChRoBaCo" => g.mem["dram"].bytes % g.nch = 0
  /\ g.mem["gpr"].gran % GprWord = 0

------------------------------------------------------------------------------
(* Where a DRAM address sits.                                               *)
RobacoRow(g) == g.nbank * g.row
ChSpan(g) == g.mem["dram"].bytes \div g.nch

Coord(row, ch, bank, col) == [row |-> row, ch |-> ch, bank |-> bank, col |-> col]

(* Mutant: the row counts one channel's rows, as on the other map.          *)
DecodePerChannel(g, a) ==
  LET off == a - g.mem["dram"].base
      inch == off % ChSpan(g)
      within == (IF g.map = "RoChBaCo" THEN off ELSE inch) % RobacoRow(g)
  IN  IF g.map = "RoChBaCo"
      THEN Coord(off \div RobacoRow(g), (off \div RobacoRow(g)) % g.nch,
                 within \div g.row, within % g.row)
      ELSE Coord(inch \div RobacoRow(g), off \div ChSpan(g), within \div g.row, within % g.row)
Decode(g, a) ==
  LET off == a - g.mem["dram"].base
      inch == off % ChSpan(g)
  IN  IF g.map = "RoChBaCo"
      THEN Coord(off \div g.unit, (off \div RobacoRow(g)) % g.nch,
                 (off % RobacoRow(g)) \div g.row, (off % RobacoRow(g)) % g.row)
      ELSE Coord(inch \div RobacoRow(g), off \div ChSpan(g),
                 (inch % RobacoRow(g)) \div g.row, (inch % RobacoRow(g)) % g.row)

(* Mutant: the channel's base is forgotten on the map that stacks channels. *)
EncodeFirst(g, c) ==
  g.mem["dram"].base + c.bank * g.row + c.col +
    IF g.map = "RoChBaCo" THEN c.row * g.unit + c.ch * RobacoRow(g) ELSE c.row * RobacoRow(g)
Encode(g, c) ==
  g.mem["dram"].base + c.bank * g.row + c.col +
    IF g.map = "RoChBaCo" THEN c.row * g.unit + c.ch * RobacoRow(g)
    ELSE c.ch * ChSpan(g) + c.row * RobacoRow(g)

------------------------------------------------------------------------------
(* pim_resolve: the card address `off' bytes into allocation r, and for how *)
(* much of len the card goes on from there without a jump.                  *)
Bytes(g, r) == Len(r.addr) * g.mem[r.mem].gran
Min2(a, b) == IF a <= b THEN a ELSE b

(* Granules that follow granule i consecutively on the card.  Mutant: the   *)
(* allocation's next granules, wherever they are.                           *)
FollowersAll(g, r, i) == Len(r.addr) - i
Followers(g, r, i) ==
  CHOOSE n \in 0 .. Len(r.addr) - i :
    /\ \A j \in i .. i + n - 1 : r.addr[j + 1] = r.addr[j] + g.mem[r.mem].gran
    /\ i + n < Len(r.addr) => r.addr[i + n + 1] # r.addr[i + n] + g.mem[r.mem].gran

Resolve(g, r, off, len) ==
  LET reg == g.mem[r.mem]
      i == off \div 2^reg.shift + 1
      within == off % reg.gran
  IN  [axi |-> r.addr[i] + within,
       run |-> Min2(len, reg.gran - within + Followers(g, r, i) * reg.gran)]

(* pim_addr_unit: unit i of len bytes from off on, its card address and row. *)
Units(g, r, off, len) ==
  IF r.mem = "dram" /\ len > 0 /\ off + len <= Bytes(g, r) /\ (Bytes(g, r) - off) % g.unit = 0
  THEN (len + g.unit - 1) \div g.unit
  ELSE 0
UnitRefused(g, r, off, len, i) ==
  i >= Units(g, r, off, len) \/ Resolve(g, r, off + i * g.unit, g.unit).run # g.unit
UnitRow(g, r, off, i) == Decode(g, Resolve(g, r, off + i * g.unit, g.unit).axi).row

(* pim_addr_gpr_words: a range of the GPR as one run of words.              *)
WordsRefused(g, r, off, len) ==
  LET at == Resolve(g, r, off, len)
  IN  \/ r.mem # "gpr" \/ len = 0 \/ off + len > Bytes(g, r)
      \/ at.run < len \/ (at.axi - g.mem["gpr"].base) % GprWord # 0
FirstWord(g, r, off, len) == (Resolve(g, r, off, len).axi - g.mem["gpr"].base) \div GprWord
NWords(len) == (len + GprWord - 1) \div GprWord
==============================================================================
