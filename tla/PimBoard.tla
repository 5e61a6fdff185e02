------------------------------- MODULE PimBoard -------------------------------
(***************************************************************************)
(* Bringing the board up and addressing it: pim.ko loads with some module  *)
(* parameters or refuses and unwinds, libpim opens what it reports or      *)
(* refuses, allocations of either memory land where the pool finds room,   *)
(* and programs refer to them by row and by word.                          *)
(***************************************************************************)
EXTENDS PimGeometry, FiniteSets

CONSTANTS
  Parameters,  \* of insmod, good and bad
  MaxGrans     \* bound: granules of the allocation looked at

(* insmod parses unsigned numbers.                                          *)
ASSUME BoardAssumption ==
  /\ MaxGrans \in Nat
  /\ Parameters \subseteq
       [nch : Nat, nbank : Nat, row : Nat, map : Maps, hugepage : Nat, page : Nat,
        base : Nat, span : Nat, gbase : Nat, gsize : Nat]

VARIABLES
  drv,    \* parameters of the loaded module, or NotLoaded
  held,   \* memory of the driver's ledgers: {<<m, "bitmap" or "owner">>}
  ctx,    \* geometry of the open context, or NoCtx
  rec     \* an allocation of that context, or NoRec

vars == <<drv, held, ctx, rec>>

NotLoaded == [nch |-> 0]
NoCtx == [nch |-> 0]
NoRec == [mem |-> "none"]

Init == drv = NotLoaded /\ held = {} /\ ctx = NoCtx /\ rec = NoRec

------------------------------------------------------------------------------
(* ledger_init after its checks: the bitmap, then the owner array; what     *)
(* fails, if anything, is `fails'.                                          *)
Acquire(m, fails, had) ==
  CASE fails = <<m, "bitmap">> -> had
    [] fails = <<m, "owner">> -> had
    [] OTHER -> had \cup {<<m, "bitmap">>, <<m, "owner">>}
LedgerStarts(p, m, fails) == LedgerFits(Region(p, m)) /\ fails \notin {<<m, "bitmap">>, <<m, "owner">>}

LedgerFini(m, had) == had \ {<<m, "bitmap">>, <<m, "owner">>}

(* Mutant: a GPR ledger that fails leaves the DRAM one behind.              *)
UnwindGprOnly(p, fails, had) ==
  IF LedgerStarts(p, "gpr", fails) THEN LedgerFini("dram", LedgerFini("gpr", had)) ELSE had
Unwind(p, fails, had) ==
  IF LedgerStarts(p, "gpr", fails) THEN LedgerFini("dram", LedgerFini("gpr", had))
  ELSE LedgerFini("dram", had)

Failing == (Mem \X {"bitmap", "owner"}) \cup {<<"misc", "register">>, <<"none", "none">>}

(* pim_init and pim_exit; an open file pins the module.                     *)
Insmod(p, fails) ==
  LET dram == LedgerStarts(p, "dram", fails)
      gpr == dram /\ LedgerStarts(p, "gpr", fails)
      had == IF gpr THEN Acquire("gpr", fails, Acquire("dram", fails, held))
             ELSE IF dram THEN Acquire("dram", fails, held) ELSE held
  IN  /\ drv = NotLoaded /\ CheckGeometry(p)
      /\ IF gpr /\ fails # <<"misc", "register">>
         THEN drv' = p /\ held' = had
         ELSE drv' = drv /\ held' = IF dram THEN Unwind(p, fails, had) ELSE had
      /\ UNCHANGED <<ctx, rec>>

Rmmod ==
  /\ drv # NotLoaded /\ ctx = NoCtx
  /\ drv' = NotLoaded /\ held' = LedgerFini("dram", LedgerFini("gpr", held))
  /\ UNCHANGED <<ctx, rec>>

(* pim_open: GET_INFO, derive, check, and only the interleaved map.         *)
Open ==
  LET g == Derive(Info(drv))
  IN  /\ drv # NotLoaded /\ ctx = NoCtx
      /\ GeomCheck(g) /\ g.map = "RoChBaCo"
      /\ ctx' = g
      /\ UNCHANGED <<drv, held, rec>>

(* Granules of a region, as the hugepages the driver grants hold them.      *)
Granules(g, m) == {g.mem[m].base + i * g.mem[m].gran : i \in 0 .. g.mem[m].nr * g.mem[m].per - 1}

(* pim_alloc, seen from the addresses: the pool hands out what is free, in  *)
(* pieces if it must.                                                       *)
Alloc(m, n) ==
  /\ ctx # NoCtx /\ rec = NoRec
  /\ \E a \in [1 .. n -> Granules(ctx, m)] :
       /\ \A i, j \in 1 .. n : a[i] = a[j] => i = j
       /\ rec' = [mem |-> m, addr |-> a]
  /\ UNCHANGED <<drv, held, ctx>>

Free == rec # NoRec /\ rec' = NoRec /\ UNCHANGED <<drv, held, ctx>>

Close == ctx # NoCtx /\ ctx' = NoCtx /\ rec' = NoRec /\ UNCHANGED <<drv, held>>

Next ==
  \/ \E p \in Parameters, f \in Failing : Insmod(p, f)
  \/ Rmmod \/ Open \/ Free \/ Close
  \/ \E m \in Mem, n \in 1 .. MaxGrans : Alloc(m, n)

Spec == Init /\ [][Next]_vars

------------------------------------------------------------------------------
(* A module that did not load, or was unloaded, leaves no ledger behind,    *)
(* whichever step of pim_init failed; a loaded one has both.                *)
LedgersFollowTheModule ==
  held = IF drv = NotLoaded THEN {} ELSE Mem \X {"bitmap", "owner"}

(* Decode and encode are inverse on every byte of the card, on either map,  *)
(* for every geometry libpim's check accepts.                               *)
EncodeInverts ==
  drv # NotLoaded /\ GeomCheck(Derive(Info(drv))) =>
    LET g == Derive(Info(drv))
    IN  \A a \in g.mem["dram"].base .. g.mem["dram"].base + g.mem["dram"].bytes - 1 :
          LET c == Decode(g, a)
          IN  c.ch < g.nch /\ c.bank < g.nbank /\ c.col < g.row /\ Encode(g, c) = a

(* The coordinates of the bytes of unit i, as a transfer puts them there.   *)
CoordsOf(i) ==
  {Decode(ctx, Resolve(ctx, rec, i * ctx.unit + b, 1).axi) : b \in 0 .. ctx.unit - 1}

(* A row of every bank of every channel.                                    *)
WholeRow(g, row) ==
  {Coord(row, ch, bank, col) : ch \in 0 .. g.nch - 1, bank \in 0 .. g.nbank - 1, col \in 0 .. g.row - 1}

(* A broadcast unit of an allocation, wherever its granules lie, is one row *)
(* of every bank of every channel and nothing else, that row is the one a   *)
(* program names for it, and no two units share it.                         *)
OneRowPerUnit ==
  ctx # NoCtx /\ rec # NoRec /\ rec.mem = "dram" =>
    LET len == Bytes(ctx, rec)
        n == Units(ctx, rec, 0, len)
    IN  /\ n = Len(rec.addr)
        /\ \A i \in 0 .. n - 1 :
             /\ ~UnitRefused(ctx, rec, 0, len, i)
             /\ CoordsOf(i) = WholeRow(ctx, UnitRow(ctx, rec, 0, i))
             /\ \A j \in 0 .. n - 1 : UnitRow(ctx, rec, 0, i) = UnitRow(ctx, rec, 0, j) => i = j

(* The words a program gets for a range of a GPR allocation hold exactly    *)
(* the bytes the host wrote there, in order; a range is refused only where  *)
(* no run of words could.                                                   *)
WordsAreTheBytes ==
  ctx # NoCtx /\ rec # NoRec /\ rec.mem = "gpr" =>
    \A off \in 0 .. Bytes(ctx, rec) - 1 : \A len \in 1 .. Bytes(ctx, rec) - off :
      LET at(b) == Resolve(ctx, rec, b, 1).axi - ctx.mem["gpr"].base
          straight == at(off) % GprWord = 0 /\ \A k \in 1 .. len - 1 : at(off + k) = at(off) + k
      IN  IF WordsRefused(ctx, rec, off, len) THEN ~straight
          ELSE /\ straight
               /\ GprWord * FirstWord(ctx, rec, off, len) = at(off)
               /\ NWords(len) * GprWord >= len /\ (NWords(len) - 1) * GprWord < len
==============================================================================
