------------------------------- MODULE PimPool --------------------------------
(***************************************************************************)
(* libpim over the driver: each context (one process, one thread, one fd)  *)
(* keeps a pool of hugepages cut into granules, a table of allocations and *)
(* the address ranges it reserved for them, and moves bytes by resolving   *)
(* them one run at a time.  Contexts share the card and its contents.      *)
(*                                                                         *)
(* A granule is named by its number on the card, gran_addr / gran: the     *)
(* hugepage p holds p * Gpb[m] .. p * Gpb[m] + Gpb[m] - 1.  The driver's   *)
(* ALLOC and FREE are single steps, as PimOwnership has them, and its FREE *)
(* checks what it is given (pim_chunk.c:194-209).                          *)
(***************************************************************************)
EXTENDS Integers, FiniteSets, Sequences, SequencesExt

CONSTANTS
  Ctx,          \* open libpim contexts, in as many processes
  NrHugepages,  \* per region, as in PimLedger
  Gpb,          \* granules per hugepage of each region
  KeepFree,     \* keep_free_hugepages
  Sizes,        \* granules a caller asks for at once
  VRange,       \* address ranges the host kernel can reserve, per process
  MayFail       \* failures to consider: "driver", "free", "insert", "vspace", "xfer"

Region == DOMAIN NrHugepages
Pages(m) == 0 .. NrHugepages[m] - 1
Grans(m, p) == p * Gpb[m] .. p * Gpb[m] + Gpb[m] - 1
AllGrans(m) == 0 .. NrHugepages[m] * Gpb[m] - 1

ASSUME PoolAssumption ==
  /\ NrHugepages \in [Region -> Nat \ {0}] /\ Gpb \in [Region -> 1 .. 64]
  /\ KeepFree \in Nat /\ Sizes \subseteq Nat \ {0}
  /\ MayFail \subseteq {"driver", "free", "insert", "vspace", "xfer"}

VARIABLES
  own,      \* the driver's ledger: hugepages of each fd
  stuck,    \* of these, the ones handed back at once that the driver refused
  careless, \* contexts that named a hugepage in a FREE that is not theirs, or
            \* named one twice: what pim_hugepages_free checks, and what not
  pool,     \* per context and region, hugepage -> granules in use (pim_hugepage.used)
  nfree,    \* per context and region, hugepage -> free_grans
  allocs,   \* per context, the record table: address range -> record
  mapped,   \* per context, the address ranges reserved with mmap
  pc,       \* what the context's thread is doing
  cur,      \* the allocation it is working on and the granules done so far
  card,     \* what each granule of card memory holds
  expect    \* per context and range, what its owner believes the memory holds

vars == <<own, stuck, careless, pool, nfree, allocs, mapped, pc, cur, card, expect>>

Empty == [x \in {} |-> 0]
Idle == [v |-> 0, done |-> 0]

(* Contents: zeroes, whatever the last user left, or the i-th granule that  *)
(* context c wrote to its allocation at v.                                  *)
Zeroes == <<>>
Junk == <<0>>
Data(c, v, i) == <<c, v, i>>
(* What is in granules that nobody can name any more does not matter.       *)
Forget(m, G) == card' = [card EXCEPT ![m] = [x \in DOMAIN @ |-> IF x \in G THEN Junk ELSE @[x]]]

Init ==
  /\ own = [c \in Ctx |-> [m \in Region |-> {}]]
  /\ stuck = [c \in Ctx |-> [m \in Region |-> {}]] /\ careless = {}
  /\ pool = [c \in Ctx |-> [m \in Region |-> Empty]]
  /\ nfree = [c \in Ctx |-> [m \in Region |-> Empty]]
  /\ allocs = [c \in Ctx |-> Empty]
  /\ mapped = [c \in Ctx |-> {}]
  /\ pc = [c \in Ctx |-> "closed"]
  /\ cur = [c \in Ctx |-> Idle]
  /\ card = [m \in Region |-> [g \in AllGrans(m) |-> Junk]]
  /\ expect = [c \in Ctx |-> Empty]

DriverFree(m) == Pages(m) \ UNION {own[c][m] : c \in Ctx}
(* The members of S in increasing order: the i-th has i - 1 below it.       *)
Ascending(S) == [i \in 1 .. Cardinality(S) |-> CHOOSE x \in S : Cardinality({y \in S : y < x}) = i - 1]

------------------------------------------------------------------------------
(* The granule pool: P maps the hugepages of one pool to their used         *)
(* granules, F to their free counts.                                        *)

(* sweep: the free granules of the hugepages in Q, in address order.        *)
Sweep(m, P, Q) == Ascending(UNION {Grans(m, p) \ P[p] : p \in Q})

Partial(m, P, F) == {p \in DOMAIN P : F[p] # Gpb[m]}
Untouched(m, P, F) == {p \in DOMAIN P : F[p] = Gpb[m]}

(* Hugepages already in use are filled first, then the empty ones.          *)
FreeOrder(m, P, F) == Sweep(m, P, Partial(m, P, F)) \o Sweep(m, P, Untouched(m, P, F))

Want(m, need) == (need + Gpb[m] - 1) \div Gpb[m]

(* pool_insert of every hugepage in S.                                      *)
InsertAll(P, S) == [p \in DOMAIN P \cup S |-> IF p \in DOMAIN P THEN P[p] ELSE {}]
InsertFree(m, F, S) == [p \in DOMAIN F \cup S |-> IF p \in DOMAIN F THEN F[p] ELSE Gpb[m]]

(* grab / pool_give of the granules G.  Mutant: grab marks nothing but the  *)
(* first granule it takes.                                                  *)
TakenFirst(m, P, G) == [p \in DOMAIN P |-> P[p] \cup ({x \in G : \A y \in G : x <= y} \cap Grans(m, p))]
Taken(m, P, G) == [p \in DOMAIN P |-> P[p] \cup (G \cap Grans(m, p))]
(* Mutant: the counter of a hugepage is decremented once, not per granule.  *)
TakenFreeOnce(m, P, F, G) == [p \in DOMAIN F |-> IF G \cap Grans(m, p) = {} THEN F[p] ELSE F[p] - 1]
TakenFree(m, P, F, G) == [p \in DOMAIN F |-> F[p] - Cardinality((G \cap Grans(m, p)) \ P[p])]
Given(m, P, G) == [p \in DOMAIN P |-> P[p] \ (G \cap Grans(m, p))]
GivenFree(m, P, F, G) == [p \in DOMAIN F |-> F[p] + Cardinality(G \cap P[p])]

(* pim_pool_trim: of the hugepages whose count says they are empty, all but *)
(* "keep" go back, highest addresses first.                                 *)
EmptyPages(m, F) == {p \in DOMAIN F : F[p] = Gpb[m]}
ToTrim(m, F, keep) ==
  LET E == EmptyPages(m, F)
  IN  {p \in E : Cardinality({q \in E : q < p}) >= keep}

Without(P, S) == [p \in DOMAIN P \ S |-> P[p]]
(* What the pool still has after a trim of S.                               *)
Kept(P, S) == Without(P, S)

------------------------------------------------------------------------------
(* FREE names extents of hugepages.  The driver refuses it whole if one of  *)
(* them is not the fd's; of a hugepage named twice it takes no notice.      *)
Pieces(e) == e.addr .. e.addr + e.nr - 1
Named(ext) == UNION {Pieces(e) : e \in ext}
Refused(held, ext) == \E e \in ext : e.nr = 0 \/ ~(Pieces(e) \subseteq held)
Remains(held, ext) == IF Refused(held, ext) THEN held ELSE held \ Named(ext)
Twice(ext) == \E d, e \in ext : d # e /\ Pieces(d) \cap Pieces(e) # {}

(* Hugepages of S that are neighbours are one extent.                       *)
Extents(S) ==
  {e \in [addr : S, nr : 1 .. Cardinality(S)] :
     Pieces(e) \subseteq S /\ e.addr - 1 \notin S /\ e.addr + e.nr \notin S}

(* The extents of a grant, as ALLOC lists them.                             *)
Reply(S) ==
  LET a == Ascending({p \in S : p - 1 \notin S})
  IN  [k \in DOMAIN a |-> CHOOSE e \in Extents(S) : e.addr = a[k]]

------------------------------------------------------------------------------
SetPool(c, m, P, F) ==
  /\ pool' = [pool EXCEPT ![c][m] = P]
  /\ nfree' = [nfree EXCEPT ![c][m] = F]

Open(c) ==
  /\ pc[c] = "closed"
  /\ pc' = [pc EXCEPT ![c] = "ready"]
  /\ UNCHANGED <<careless, stuck, own, pool, nfree, allocs, mapped, cur, card, expect>>

(* pim_alloc_ex: granules, then the address range, then the record.         *)
Record(c, m, P, F, n, zero, v) ==
  LET g == SubSeq(FreeOrder(m, pool[c][m], nfree[c][m])
                    \o Sweep(m, P, DOMAIN P \ DOMAIN pool[c][m]), 1, n)
  IN
  /\ v \in VRange \ mapped[c]
  /\ SetPool(c, m, Taken(m, P, ToSet(g)), TakenFree(m, P, F, ToSet(g)))
  /\ mapped' = [mapped EXCEPT ![c] = @ \cup {v}]
  /\ allocs' = [allocs EXCEPT ![c] = [x \in DOMAIN @ \cup {v} |->
                  IF x = v THEN [mem |-> m, grans |-> g] ELSE @[x]]]
  /\ expect' = [expect EXCEPT ![c] = [x \in DOMAIN @ \cup {v} |-> IF x = v THEN "anything" ELSE @[x]]]
  /\ IF zero
     THEN /\ pc' = [pc EXCEPT ![c] = "zeroing"]
          /\ cur' = [cur EXCEPT ![c] = [v |-> v, done |-> 0]]
     ELSE UNCHANGED <<pc, cur>>
  /\ UNCHANGED <<careless, stuck, card>>

(* The host is out of address ranges or of memory for the record: what was  *)
(* taken is given back, what the driver granted stays in the pool.          *)
NoRange(c, m, P, F) ==
  /\ "vspace" \in MayFail \/ VRange \subseteq mapped[c]
  /\ SetPool(c, m, P, F)
  /\ UNCHANGED <<careless, stuck, allocs, mapped, pc, cur, card, expect>>

Have(c, m) == Len(FreeOrder(m, pool[c][m], nfree[c][m]))
Grants(c, m, n) == kSubset(Want(m, n - Have(c, m)), DriverFree(m))
Enough(c, m, n, S) ==
  n <= Len(FreeOrder(m, InsertAll(pool[c][m], S), InsertFree(m, nfree[c][m], S)))

AllocFromPool(c, m, n, zero) ==
  /\ pc[c] = "ready" /\ n <= Have(c, m)
  /\ \/ \E v \in VRange : Record(c, m, pool[c][m], nfree[c][m], n, zero, v)
     \/ NoRange(c, m, pool[c][m], nfree[c][m])
  /\ UNCHANGED own

(* The driver grants what pool_grow asks for, any free hugepages, and that  *)
(* is enough, or (the code checks) it is not ...                            *)
AllocGrow(c, m, n, zero) ==
  /\ pc[c] = "ready" /\ n > Have(c, m)
  /\ \E S \in Grants(c, m, n) :
       LET P == InsertAll(pool[c][m], S)
           F == InsertFree(m, nfree[c][m], S)
       IN
       /\ own' = [own EXCEPT ![c][m] = @ \cup S]
       /\ \/ Enough(c, m, n, S) /\ \E v \in VRange : Record(c, m, P, F, n, zero, v)
          \/ Enough(c, m, n, S) /\ NoRange(c, m, P, F)
          \/ /\ ~Enough(c, m, n, S)
             /\ SetPool(c, m, P, F)
             /\ UNCHANGED <<careless, stuck, allocs, mapped, pc, cur, card, expect>>

(* ... or it cannot, and nothing changes ...                                *)
AllocFull(c, m, n) ==
  /\ pc[c] = "ready" /\ n > Have(c, m)
  /\ Grants(c, m, n) = {} \/ "driver" \in MayFail
  /\ UNCHANGED vars

(* ... or the pool cannot record all of them: from the j-th hugepage of the *)
(* i-th extent on they are handed back, an extent at a time, whatever the   *)
(* driver says to each.  Mutant: the rest of the i-th is as long as all.    *)
Recorded(E, i, j) == Named({E[k] : k \in 1 .. i - 1}) \cup (E[i].addr .. E[i].addr + j - 1)
RestWhole(e, j) == [addr |-> e.addr + j, nr |-> e.nr]
Rest(e, j) == [addr |-> e.addr + j, nr |-> e.nr - j]
HandedBack(E, i, j) == <<Rest(E[i], j)>> \o SubSeq(E, i + 1, Len(E))

(* Of one extent after the other, those that are no longer the fd's.        *)
Wrong(held, ext, failed) ==
  {k \in DOMAIN ext : Refused(held \ Named({ext[x] : x \in (1 .. k - 1) \ failed}), {ext[k]})}

HandBack(c, m, S, ext) ==
  \E failed \in SUBSET DOMAIN ext :
    LET held == own[c][m] \cup S
        wrong == Wrong(held, ext, failed)
        still == failed \cup wrong
    IN
    /\ failed = {} \/ "free" \in MayFail
    /\ own' = [own EXCEPT ![c][m] = held \ Named({ext[k] : k \in DOMAIN ext \ still})]
    /\ stuck' = [stuck EXCEPT ![c][m] = @ \cup Named({ext[k] : k \in still})]
    /\ careless' = IF wrong = {} THEN careless ELSE careless \cup {c}

AllocUnrecorded(c, m, n) ==
  /\ pc[c] = "ready" /\ n > Have(c, m) /\ "insert" \in MayFail
  /\ \E S \in Grants(c, m, n) : \E i \in DOMAIN Reply(S) : \E j \in 0 .. Reply(S)[i].nr - 1 :
       LET known == Recorded(Reply(S), i, j)
       IN  /\ HandBack(c, m, S, HandedBack(Reply(S), i, j))
           /\ SetPool(c, m, InsertAll(pool[c][m], known), InsertFree(m, nfree[c][m], known))
  /\ UNCHANGED <<allocs, mapped, pc, cur, card, expect>>

------------------------------------------------------------------------------
(* pim_resolve: the run of granules from the i-th on that are neighbours on *)
(* the card.  Mutant: the run goes to the end of the allocation.            *)
RunLengthToEnd(g, i) == Len(g) - i
RunLength(g, i) ==
  CHOOSE k \in 1 .. Len(g) - i :
    /\ \A j \in 1 .. k - 1 : g[i + j + 1] = g[i + j] + 1
    /\ k = Len(g) - i \/ g[i + k + 1] # g[i + k] + 1

(* One pwrite: the run starts at the granule of the first byte and is one   *)
(* stretch of card addresses.  src is the host side, granule by granule.    *)
Transfer(c, src) ==
  LET r == allocs[c][cur[c].v]
      i == cur[c].done
      k == RunLength(r.grans, i)
  IN
  /\ card' = [card EXCEPT ![r.mem] = [x \in DOMAIN @ |->
                IF x - r.grans[i + 1] \in 0 .. k - 1 THEN src[i + 1 + (x - r.grans[i + 1])] ELSE @[x]]]
  /\ IF i + k = Len(r.grans)
     THEN /\ pc' = [pc EXCEPT ![c] = "ready"]
          /\ cur' = [cur EXCEPT ![c] = Idle]
     ELSE /\ cur' = [cur EXCEPT ![c].done = i + k]
          /\ UNCHANGED pc

(* rec_remove.                                                              *)
Unrecord(c, v) == allocs' = [allocs EXCEPT ![c] = Without(@, {v})]

(* pim_pool_trim, over the pool P, F.  If the FREE fails, the pool keeps    *)
(* what it named.                                                           *)
TrimExtents(m, F, keep) == Extents(ToTrim(m, F, keep))

Trim(c, m, P, F, keep) ==
  LET drop == ToTrim(m, F, keep)
      ext == TrimExtents(m, F, keep)
  IN
  /\ careless' = IF Refused(own[c][m], ext) \/ Twice(ext) THEN careless \cup {c} ELSE careless
  /\ \/ /\ ~Refused(own[c][m], ext)
        /\ own' = [own EXCEPT ![c][m] = Remains(@, ext)]
        /\ SetPool(c, m, Kept(P, drop), Kept(F, drop))
     \/ /\ Refused(own[c][m], ext) \/ "free" \in MayFail
        /\ SetPool(c, m, P, F)
        /\ UNCHANGED own

(* Given back: the record is gone and its granules are free before the      *)
(* range is unmapped; then the pool is trimmed.                             *)
Discard(c, v) ==
  LET m == allocs[c][v].mem
      G == ToSet(allocs[c][v].grans)
  IN
  /\ Unrecord(c, v)
  /\ expect' = [expect EXCEPT ![c] = Without(@, {v})]
  /\ Trim(c, m, Given(m, pool[c][m], G), GivenFree(m, pool[c][m], nfree[c][m], G), KeepFree)
  /\ pc' = [pc EXCEPT ![c] = "unmap"]
  /\ cur' = [cur EXCEPT ![c] = [v |-> v, done |-> 0]]
  /\ Forget(m, G)
  /\ UNCHANGED <<stuck, mapped>>

(* zero_fill.  A failed transfer takes the allocation with it.              *)
Zero(c) ==
  /\ pc[c] = "zeroing"
  /\ Transfer(c, [i \in DOMAIN allocs[c][cur[c].v].grans |-> Zeroes])
  /\ expect' = [expect EXCEPT ![c][cur[c].v] = IF pc'[c] = "ready" THEN "zeroes" ELSE @]
  /\ UNCHANGED <<careless, stuck, own, pool, nfree, allocs, mapped>>

ZeroFailed(c) == pc[c] = "zeroing" /\ "xfer" \in MayFail /\ Discard(c, cur[c].v)

(* pim_memcpy to the card, the whole allocation.                            *)
StartWrite(c, v) ==
  /\ pc[c] = "ready" /\ v \in DOMAIN allocs[c]
  /\ pc' = [pc EXCEPT ![c] = "writing"]
  /\ cur' = [cur EXCEPT ![c] = [v |-> v, done |-> 0]]
  /\ expect' = [expect EXCEPT ![c][v] = "anything"]
  /\ UNCHANGED <<careless, stuck, own, pool, nfree, allocs, mapped, card>>

Write(c) ==
  /\ pc[c] = "writing"
  /\ Transfer(c, [i \in DOMAIN allocs[c][cur[c].v].grans |-> Data(c, cur[c].v, i)])
  /\ expect' = [expect EXCEPT ![c][cur[c].v] = IF pc'[c] = "ready" THEN "data" ELSE @]
  /\ UNCHANGED <<careless, stuck, own, pool, nfree, allocs, mapped>>

WriteFailed(c) ==
  /\ pc[c] = "writing" /\ "xfer" \in MayFail
  /\ pc' = [pc EXCEPT ![c] = "ready"]
  /\ cur' = [cur EXCEPT ![c] = Idle]
  /\ UNCHANGED <<careless, stuck, own, pool, nfree, allocs, mapped, card, expect>>

Free(c, v) == pc[c] = "ready" /\ v \in DOMAIN allocs[c] /\ Discard(c, v)

Unmap(c) ==
  /\ pc[c] = "unmap"
  /\ mapped' = [mapped EXCEPT ![c] = @ \ {cur[c].v}]
  /\ pc' = [pc EXCEPT ![c] = "ready"]
  /\ cur' = [cur EXCEPT ![c] = Idle]
  /\ UNCHANGED <<careless, stuck, own, pool, nfree, allocs, card, expect>>

InUse(c, m) == UNION {ToSet(allocs[c][v].grans) : v \in {w \in DOMAIN allocs[c] : allocs[c][w].mem = m}}
ForgetAll(c) ==
  card' = [m \in Region |-> [x \in DOMAIN card[m] |-> IF x \in InUse(c, m) THEN Junk ELSE card[m][x]]]

(* pim_close: records and ranges, then the empty hugepages of each pool ... *)
Fini(c) ==
  /\ pc[c] = "ready"
  /\ allocs' = [allocs EXCEPT ![c] = Empty]
  /\ expect' = [expect EXCEPT ![c] = Empty]
  /\ mapped' = [mapped EXCEPT ![c] = @ \ DOMAIN allocs[c]]
  /\ pc' = [pc EXCEPT ![c] = "fini"]
  /\ ForgetAll(c)
  /\ UNCHANGED <<careless, stuck, own, pool, nfree, cur>>

FiniPool(c, m) ==
  /\ pc[c] = "fini" /\ DOMAIN pool[c][m] # {}
  /\ SetPool(c, m, Empty, Empty)
  /\ LET ext == TrimExtents(m, nfree[c][m], 0)
     IN  /\ \/ own' = [own EXCEPT ![c][m] = Remains(@, ext)]
            \/ "free" \in MayFail /\ UNCHANGED own
         /\ careless' = IF Refused(own[c][m], ext) \/ Twice(ext) THEN careless \cup {c} ELSE careless
  /\ UNCHANGED <<stuck, allocs, mapped, pc, cur, card, expect>>

(* ... and the last close(fd), there or by the death of the process at any  *)
(* point.  The card keeps what was written.                                 *)
Exit(c) ==
  /\ pc[c] \notin {"closed", "exiting"}
  /\ pool' = [pool EXCEPT ![c] = [m \in Region |-> Empty]]
  /\ nfree' = [nfree EXCEPT ![c] = [m \in Region |-> Empty]]
  /\ allocs' = [allocs EXCEPT ![c] = Empty]
  /\ mapped' = [mapped EXCEPT ![c] = {}]
  /\ expect' = [expect EXCEPT ![c] = Empty]
  /\ pc' = [pc EXCEPT ![c] = "exiting"]
  /\ cur' = [cur EXCEPT ![c] = Idle]
  /\ ForgetAll(c)
  /\ stuck' = [stuck EXCEPT ![c] = [m \in Region |-> {}]]
  /\ UNCHANGED <<own, careless>>

(* The driver takes back what the fd still holds, region by region.         *)
Reclaim(c, m) ==
  /\ pc[c] = "exiting" /\ own[c][m] # {}
  /\ own' = [own EXCEPT ![c][m] = {}]
  /\ UNCHANGED <<careless, stuck, pool, nfree, allocs, mapped, pc, cur, card, expect>>

Closed(c) ==
  /\ pc[c] = "exiting" /\ \A m \in Region : own[c][m] = {}
  /\ pc' = [pc EXCEPT ![c] = "closed"]
  /\ UNCHANGED <<careless, stuck, own, pool, nfree, allocs, mapped, cur, card, expect>>

Alloc(c, m, n) ==
  \/ \E zero \in BOOLEAN : AllocFromPool(c, m, n, zero) \/ AllocGrow(c, m, n, zero)
  \/ AllocFull(c, m, n) \/ AllocUnrecorded(c, m, n)

Next ==
  \E c \in Ctx :
    \/ Open(c) \/ Zero(c) \/ ZeroFailed(c) \/ Write(c) \/ WriteFailed(c)
    \/ Unmap(c) \/ Fini(c) \/ Exit(c) \/ Closed(c)
    \/ \E m \in Region : FiniPool(c, m) \/ Reclaim(c, m) \/ \E n \in Sizes : Alloc(c, m, n)
    \/ \E v \in VRange : StartWrite(c, v) \/ Free(c, v)

Spec == Init /\ [][Next]_vars

------------------------------------------------------------------------------

(* Every granule of every live allocation, in any context and either pool,  *)
(* is a distinct place on the card, within a hugepage its context owns      *)
(* (pool_test's check_no_alias, over all contexts), and its address range   *)
(* stays reserved as long as the record is there, so that no stale record   *)
(* resolves an address the host has reused (pim_alloc.c:618-621).           *)
Live == {x \in Ctx \X VRange : x[2] \in DOMAIN allocs[x[1]]}
Rec(x) == allocs[x[1]][x[2]]
NoAlias ==
  \A x \in Live :
    /\ IsInjective(Rec(x).grans)
    /\ \A y \in Live : x # y /\ Rec(x).mem = Rec(y).mem => ToSet(Rec(x).grans) \cap ToSet(Rec(y).grans) = {}
    /\ x[2] \in mapped[x[1]]
    /\ ToSet(Rec(x).grans) \subseteq UNION {Grans(Rec(x).mem, p) : p \in own[x[1]][Rec(x).mem]}

(* The pool's bitmaps mark exactly the granules of live allocations and the *)
(* counters count them, so a hugepage with a granule in use is never        *)
(* trimmed and an empty one always can be (pim_alloc.c:189-310).  And it    *)
(* knows every hugepage the driver charges to this fd, but for those it     *)
(* could neither record nor give back: nothing else leaks when a hugepage   *)
(* cannot be recorded or a FREE is refused (pim_alloc.c:247-257).           *)
PoolExact ==
  \A c \in Ctx, m \in Region : pc[c] # "fini" =>
    /\ UNION {pool[c][m][p] : p \in DOMAIN pool[c][m]} = InUse(c, m)
    /\ \A p \in DOMAIN pool[c][m] : nfree[c][m][p] = Gpb[m] - Cardinality(pool[c][m][p])
    /\ DOMAIN pool[c][m] \subseteq own[c][m]
    /\ pc[c] # "exiting" => own[c][m] \ DOMAIN pool[c][m] = stuck[c][m]

(* What a context wrote, or asked to be zeroed, is what its memory holds:   *)
(* no other allocation, zero fill, or reuse by another process touches it,  *)
(* however its granules are scattered.                                      *)
Holds(c, v, i) ==
  LET r == allocs[c][v]
  IN  card[r.mem][r.grans[i]]
Intact ==
  \A c \in Ctx : \A v \in DOMAIN allocs[c] : \A i \in 1 .. Len(allocs[c][v].grans) :
    /\ expect[c][v] = "zeroes" => Holds(c, v, i) = Zeroes
    /\ expect[c][v] = "data" => Holds(c, v, i) = Data(c, v, i)

(* libpim is the careful caller the driver's counts rest on: whatever it    *)
(* could record of a grant that other processes had scattered, and whatever *)
(* of its pool it trims later, no FREE names a hugepage that is not the     *)
(* fd's, or one twice ("not ours, or freed twice", pim_chunk.c:205).        *)
CarefulCaller == careless = {}
==============================================================================
