----------------------------- MODULE Distribute -----------------------------
(***************************************************************************)
(* distribute_sorted (src/entity/ealloc/recycling.rs): how many recycled   *)
(* ids each shard holds after a flush.  sizes is sorted and not empty.     *)
(***************************************************************************)
EXTENDS Naturals, Sequences, FiniteSets

(* Mutant: the step up to a size is counted for one shard only.            *)
MutFilled(sizes) ==
  LET f[i \in DOMAIN sizes] ==
        IF i = 1 THEN 0 ELSE f[i - 1] + (sizes[i] - sizes[i - 1])
  IN  f

(* `added` once the first i shards have been raised to the size of the     *)
(* i-th.                                                                   *)
Filled(sizes) ==
  LET f[i \in DOMAIN sizes] ==
        IF i = 1 THEN 0 ELSE f[i - 1] + (sizes[i] - sizes[i - 1]) * (i - 1)
  IN  f

(* The loop breaks at the first shard that is too full to be raised.       *)
DistributeSorted(sizes, total) ==
  LET filled  == Filled(sizes)
      used    == Cardinality({i \in DOMAIN sizes : filled[i] < total})
      deficit == total - filled[used]
      target  == sizes[used] + deficit \div used
      short   == used - (deficit % used)
  IN  IF used = 0
      THEN sizes
      ELSE [i \in DOMAIN sizes |->
              IF i > used THEN sizes[i] ELSE IF i <= short THEN target ELSE target + 1]

=============================================================================
