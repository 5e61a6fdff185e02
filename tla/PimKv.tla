-------------------------------- MODULE PimKv ---------------------------------
(***************************************************************************)
(* One layer's KV cache (app/pimllm/cache.py, PimLayer): two tensors that  *)
(* must grow and shrink together although each call moves them one after   *)
(* the other and may raise between the two.  K is [s_max][width] and grows *)
(* along its outputs, V is [width][s_max] and grows along its reduction.   *)
(***************************************************************************)
EXTENDS PimTensor, Sequences

CONSTANTS
  SMax,      \* s_max
  Width,     \* n_kv_heads * head_dim
  Token,     \* what tells the tokens of one update from another's
  MaxTokens, \* tokens of one update
  Reuse      \* a layer is used again after free

ASSUME KvAssumption ==
  SMax \in Nat \ {0} /\ Width \in Nat \ {0} /\ Token \subseteq Nat \ {0} /\ MaxTokens \in Nat \ {0} /\ Reuse \in BOOLEAN

VARIABLES
  k, v,        \* the tensors, None before lazy_initialization
  cumulative,  \* tokens of the sequence
  said,        \* the tokens transformers believes the layer holds
  raised       \* a call on this layer raised half way

layer == <<k, v, cumulative, said, raised>>

is_initialized == k # None

LayerInit == k = None /\ v = None /\ cumulative = 0 /\ said = <<>> /\ raised = FALSE

(* lazy_initialization: neither tensor is zeroed.                           *)
K0 == IF is_initialized THEN k ELSE Alloc("out", SMax, Width, FALSE)
V0 == IF is_initialized THEN v ELSE Alloc("red", Width, SMax, FALSE)

(* What transformers believes after an accepted update: tokens a failed     *)
(* crop gave up, and that are counted all the same, are 0.                  *)
Said(s, n) == [i \in 1 .. cumulative + s |->
                 IF i > cumulative THEN n ELSE IF i <= Len(said) THEN said[i] ELSE 0]

(* Both appends of s tokens at `kat' and `vat'; an exception from k leaves  *)
(* v alone, and only when neither raises is the update counted.             *)
AppendBoth(kat, vat, s, n) ==
  \E a \in AppendSteps(K0, kat, s, n) :
    /\ k' = a.t
    /\ IF ~a.ok THEN v' = V0 /\ raised' = TRUE /\ UNCHANGED <<cumulative, said>>
       ELSE \E b \in AppendSteps(V0, vat, s, n) :
              /\ v' = b.t
              /\ IF b.ok THEN cumulative' = cumulative + s /\ said' = Said(s, n) /\ UNCHANGED raised
                 ELSE raised' = TRUE /\ UNCHANGED <<cumulative, said>>

Refuse == k' = K0 /\ v' = V0 /\ UNCHANGED <<cumulative, said, raised>>

(* update with s tokens.  Mutant: each tensor is appended to at its own     *)
(* frontier.                                                                *)
UpdateAtFrontier(s, n) ==
  IF cumulative + s > SMax THEN Refuse ELSE AppendBoth(K0.frontier, V0.frontier, s, n)
Update(s, n) ==
  IF cumulative + s > SMax THEN Refuse ELSE AppendBoth(cumulative, cumulative, s, n)

(* Both tensors cut back to pos; the first failure raises.                  *)
CutBoth(pos) ==
  \E a \in Truncate(k, pos), b \in Truncate(v, pos) :
    /\ k' = a.t
    /\ v' = IF a.ok THEN b.t ELSE v
    /\ cumulative' = IF a.ok /\ b.ok THEN pos ELSE cumulative
    /\ raised' = (raised \/ ~a.ok \/ ~b.ok)

(* reset, between generations.                                              *)
Reset ==
  /\ IF is_initialized THEN CutBoth(0) ELSE cumulative' = 0 /\ UNCHANGED <<k, v, raised>>
  /\ said' = <<>>

SaidUpTo(n) == SubSeq(said, 1, Least(n, Len(said)))

(* crop.  Mutant: the call that closes the zero invariant is skipped.       *)
CropSkipsV(max_length) ==
  /\ is_initialized /\ max_length < cumulative
  /\ \E a \in Truncate(k, max_length) : k' = a.t
  /\ cumulative' = max_length /\ UNCHANGED <<v, raised>>
  /\ said' = SaidUpTo(max_length)
Crop(max_length) ==
  /\ is_initialized /\ max_length < cumulative
  /\ CutBoth(max_length)
  /\ said' = SaidUpTo(max_length)

(* free does not reset the count.                                           *)
Free ==
  /\ is_initialized /\ k' = None /\ v' = None /\ said' = <<>> /\ raised' = FALSE
  /\ UNCHANGED cumulative

Spent == ~is_initialized /\ cumulative # 0

LayerNext ==
  \/ \E s \in 1 .. MaxTokens, n \in Token : (Reuse \/ ~Spent) /\ Update(s, n)
  \/ Reset
  \/ \E max_length \in 0 .. SMax : Crop(max_length)
  \/ Free

LayerSpec == LayerInit /\ [][LayerNext]_layer

------------------------------------------------------------------------------
(* Token i is whole in both tensors, where attention will read it.          *)
Held(i) == StepAt(k, i - 1) = said[i] /\ StepAt(v, i - 1) = said[i]

(* A token that transformers was told is held and was not given up stays    *)
(* held in both tensors, whatever raised since.                             *)
HoldsTokens == is_initialized => \A i \in 1 .. Len(said) : said[i] # 0 => Held(i)

(* What attention needs of a layer no call raised on: red_len = out_len =   *)
(* cumulative covers the sequence exactly, and the rest of V's last beat is *)
(* zero (attention.py takes n_kv from the count, the zero contract speaks   *)
(* of the frontier).                                                        *)
Whole ==
  /\ Len(said) = cumulative
  /\ \A i \in 1 .. cumulative : said[i] # 0 /\ Held(i)
  /\ \A o \in 0 .. v.noutpad - 1, red \in cumulative .. Least(RoundUp(cumulative, Epb), v.nredpad) - 1 :
       Seen(v, o, red) = Zero

(* Attention runs after each accepted update, and only then.                *)
AttentionReadsTheSequence == [][cumulative' > cumulative /\ ~raised' => Whole']_layer
==============================================================================
