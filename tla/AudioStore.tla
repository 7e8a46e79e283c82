----------------------------- MODULE AudioStore ------------------------------
(***************************************************************************)
(* The hot store of segment audio (aura-core audio_store.rs): clips by id, *)
(* with a cap on the samples held and eviction of the oldest clip first.   *)
(* A clip is abstracted to its length; clip ids only grow, so "oldest" is  *)
(* "smallest id".                                                          *)
(***************************************************************************)
EXTENDS Integers, FiniteSetsExt

CONSTANT StoreCap       \* cap_samples, in frames

ASSUME StoreCapIsNat == StoreCap \in Nat

EmptyStore == [x \in {} |-> 0]

HeldFrom(clips, c) == {d \in DOMAIN clips : d >= c}

Total(clips, ids) == MapThenSumSet(LAMBDA d : clips[d], ids)

\* Evicting the oldest clip while the total exceeds the cap leaves exactly the
\* clips whose own length and that of every younger one fit together.
Survivors(clips) ==
    {c \in DOMAIN clips : Total(clips, HeldFrom(clips, c)) <= StoreCap}

Insert(clips, id, len) ==
    LET all == [c \in DOMAIN clips \cup {id} |->
                    IF c = id THEN len ELSE clips[c]]
    IN  [c \in Survivors(all) |-> all[c]]

EvictFirst(clips, ids) ==
    [c \in DOMAIN clips \ {d \in ids : \A e \in ids : d <= e} |-> clips[c]]

Evict(clips, ids) == [c \in DOMAIN clips \ ids |-> clips[c]]
=============================================================================
