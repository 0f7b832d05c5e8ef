----------------------------- MODULE Checkpoints -----------------------------
(***************************************************************************)
(* currency::checkpoints (checkpoints.cpp): the hard-coded table of block  *)
(* ids the main chain must go through.  Heights are the code's, the        *)
(* genesis block has height 0.                                             *)
(***************************************************************************)
EXTENDS Integers

CONSTANT CheckpointAt      \* m_points: a function from heights to blocks

ASSUME CheckpointAssumption ==
  /\ DOMAIN CheckpointAt \subseteq Nat
  /\ CheckpointAt = [h \in DOMAIN CheckpointAt |-> CheckpointAt[h]]

(***************************************************************************)
(* A height is in the zone up to the last checkpoint, that one included.   *)
(***************************************************************************)
is_in_checkpoint_zone(height) ==
  \E p \in DOMAIN CheckpointAt : height <= p

(***************************************************************************)
(* The main chain, whose last block has the given height, has gone past    *)
(* some checkpoint at or above height: an alternative block there is late. *)
(***************************************************************************)
is_height_passed_zone(height, blockchain_last_block_height) ==
  /\ height <= blockchain_last_block_height
  /\ \E p \in DOMAIN CheckpointAt :
        height <= p /\ p <= blockchain_last_block_height

OneBlockLate(height, id) ==
  height - 1 \in DOMAIN CheckpointAt => CheckpointAt[height - 1] = id

check_block(height, id) ==
  height \in DOMAIN CheckpointAt => CheckpointAt[height] = id
=============================================================================
