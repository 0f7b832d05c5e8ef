----------------------------- MODULE BlockRules -----------------------------
(***************************************************************************)
(* The rules a block's timestamp and proof of work are held to, on the     *)
(* main chain and on an alternative branch.  A block is checked by both:   *)
(* as an alternative one when it comes, from the alternative blocks before *)
(* it and the main chain below them, and again when a switch connects it;  *)
(* the blocks a switch disconnects are checked as alternative ones.  Here  *)
(* are the two ways to collect what a rule looks at, and the rules         *)
(* themselves with the widths of their integers.                           *)
(*                                                                         *)
(* A block is its timestamp; its other data belong to ChainStorage.  Times *)
(* are in units of a block's target.  Heights count from 0 as in the code, *)
(* sequences from 1: the block at height h is m_db_blocks[h + 1].          *)
(***************************************************************************)
EXTENDS Integers, Sequences, SequencesExt, FiniteSets

CONSTANTS
  TimestampWindow,    \* BLOCKCHAIN_TIMESTAMP_CHECK_WINDOW
  FutureLimit,        \* CURRENCY_BLOCK_FUTURE_TIME_LIMIT
  DifficultyWindow, DifficultyLag, DifficultyCut, DifficultyTarget,
  WordValues,         \* how many values a 64 bit word has
  HashWords,          \* the words hashes are made of
  Times,              \* the clock: 0..n
  MaxHeight, MaxAlt   \* bounds on the chain and on the branch

ASSUME RulesAssumption ==
  /\ {TimestampWindow, DifficultyTarget} \subseteq Nat \ {0}
  /\ {DifficultyLag, DifficultyCut, FutureLimit} \subseteq Nat
  /\ WordValues \in Nat /\ WordValues >= 2
  /\ HashWords \subseteq 0..(WordValues - 1)
  /\ Times \subseteq Nat
  /\ DifficultyWindow \in Nat /\ DifficultyWindow >= 2 /\ 2 * DifficultyCut <= DifficultyWindow - 2

VARIABLES
  now,           \* time(NULL)
  m_db_blocks,   \* of each block: timestamp and cumulative difficulty
  split,         \* height of the first alternative block
  alt_chain      \* one branch of alternative blocks, <<>>: none

vars == <<now, m_db_blocks, split, alt_chain>>

Block(ts, difficulty) == [timestamp |-> ts, cumulative_difficulty |-> difficulty]

Init ==
  /\ now = 0
  /\ m_db_blocks = <<Block(0, 1)>>
  /\ split = 1
  /\ alt_chain = <<>>

Timestamps(blocks) == [i \in DOMAIN blocks |-> blocks[i].timestamp]
AtLeastZero(n)     == IF n < 0 THEN 0 ELSE n

\* std::sort: fewer than k of the values are less than the one it puts at k, and
\* at least k of them are not greater.
Less(v, x)       == {i \in DOMAIN v : v[i] < x}
NotGreater(v, x) == {i \in DOMAIN v : v[i] <= x}
sorted(v) ==
  [k \in DOMAIN v |-> CHOOSE x \in Range(v) : Cardinality(Less(v, x)) < k /\ k <= Cardinality(NotGreater(v, x))]
-----------------------------------------------------------------------------
(* Difficulty.                                                             *)

DifficultyBlocksCount == DifficultyWindow + DifficultyLag

\* (mutant) one block short
CutShort(length) ==
  LET kept == DifficultyWindow - 2 * DifficultyCut
      begin == (length - kept + 1) \div 2
  IN  IF length <= kept THEN [begin |-> 0, end |-> length] ELSE [begin |-> begin, end |-> begin + kept - 1]

\* The blocks next_difficulty measures: the oldest DifficultyWindow ones, without
\* DifficultyCut of them at either end once there are that many.
cut(length) ==
  LET kept == DifficultyWindow - 2 * DifficultyCut
      begin == (length - kept + 1) \div 2
  IN  IF length <= kept THEN [begin |-> 0, end |-> length] ELSE [begin |-> begin, end |-> begin + kept]

max128bit == WordValues * WordValues - 1

\* 0, no difficulty at all, when the quotient does not fit.
Spread(work, span) ==
  LET res == (work * DifficultyTarget + span - 1) \div span IN IF res > max128bit THEN 0 ELSE res

\* The times are sorted, the difficulties are not.
next_difficulty(blocks) ==
  LET used == SubSeq(blocks, 1, IF Len(blocks) > DifficultyWindow THEN DifficultyWindow ELSE Len(blocks))
      c == cut(Len(used))
      times == sorted(Timestamps(used))
      span == times[c.end] - times[c.begin + 1]
  IN  IF Len(used) <= 1 THEN 1
      ELSE Spread(used[c.end].cumulative_difficulty - used[c.begin + 1].cumulative_difficulty,
                  IF span = 0 THEN 1 ELSE span)

\* The blocks at heights from..to-1; the genesis block is skipped.
Heights(chain, from, to) == SubSeq(chain, (IF from = 0 THEN 1 ELSE from) + 1, to)

get_difficulty_for_next_block(chain) ==
  next_difficulty(Heights(chain, AtLeastZero(Len(chain) - DifficultyBlocksCount), Len(chain)))

\* (mutant) as if the branch left the main chain at its top
FromTop(chain, h, alt) ==
  next_difficulty(Heights(chain, AtLeastZero(Len(chain) - DifficultyBlocksCount + Len(alt)), Len(chain)) \o alt)

\* alt: the alternative blocks before the one in question, the first at height h
get_next_difficulty_for_alternative_chain(chain, h, alt) ==
  IF Len(alt) < DifficultyBlocksCount
  THEN next_difficulty(Heights(chain, AtLeastZero(h - (DifficultyBlocksCount - Len(alt))), h) \o alt)
  ELSE next_difficulty(SubSeq(alt, Len(alt) - DifficultyBlocksCount + 1, Len(alt)))
-----------------------------------------------------------------------------
(* Timestamps.                                                             *)

median(v) ==
  LET s == sorted(v)
      n == Len(s) \div 2
  IN  IF s = <<>> THEN 0 ELSE IF Len(s) % 2 = 1 THEN s[n + 1] ELSE (s[n] + s[n + 1]) \div 2

check_block_timestamp(timestamps, ts) ==
  Len(timestamps) < TimestampWindow \/ ts >= median(timestamps)

check_block_timestamp_main(chain, ts) ==
  /\ ts <= now + FutureLimit
  /\ check_block_timestamp(Timestamps(SubSeq(chain, AtLeastZero(Len(chain) - TimestampWindow) + 1, Len(chain))), ts)

\* (mutant) one block too many from the main chain
OneMore(chain, top, need) ==
  Timestamps(SubSeq(chain, AtLeastZero(top - need) + 1, top + 1))

\* What complete_timestamps_vector adds to the branch's own times: need of the main
\* chain's from height top down, and never the genesis block's unless top is its height.
Completed(chain, top, need) ==
  Timestamps(IF top = 0 THEN SubSeq(chain, 1, 1) ELSE SubSeq(chain, AtLeastZero(top - need) + 2, top + 1))

\* Every block of the branch counts, also beyond TimestampWindow.
AltTimestamps(chain, h, alt) ==
  IF Len(alt) >= TimestampWindow THEN Timestamps(alt)
  ELSE Timestamps(alt) \o Completed(chain, h - 1, TimestampWindow - Len(alt))
-----------------------------------------------------------------------------
(***************************************************************************)
(* check_hash.  A hash is four words, the lowest first.  Below max64bit    *)
(* the product is made word by word with carries, above it at full width,  *)
(* and only for hashes whose highest word is zero.                         *)
(***************************************************************************)
max64bit  == WordValues - 1
max256bit == WordValues * WordValues * WordValues * WordValues - 1

low(a, b)  == (a * b) % WordValues
high(a, b) == (a * b) \div WordValues

cadd(a, b) == (a + b) % WordValues < a
Uncarried(a, b, c) == (a + b) % WordValues < a
cadc(a, b, c) == (a + b) % WordValues < a \/ (c /\ (a + b) % WordValues = max64bit)

ByWords(hash, d) ==
  /\ high(hash[4], d) = 0
  /\ LET first == cadd(high(hash[1], d), low(hash[2], d))
         second == cadc(high(hash[2], d), low(hash[3], d), first)
     IN  ~cadc(high(hash[3], d), low(hash[4], d), second)

HashValue(hash) == hash[1] + WordValues * (hash[2] + WordValues * (hash[3] + WordValues * hash[4]))

check_hash(hash, d) ==
  IF d < max64bit THEN ByWords(hash, d)
  ELSE hash[4] = 0 /\ HashValue(hash) * d <= max256bit
-----------------------------------------------------------------------------
Tick ==
  /\ now + 1 \in Times
  /\ now' = now + 1
  /\ UNCHANGED <<m_db_blocks, split, alt_chain>>

Extended(chain, ts) == Append(chain, Block(ts, Last(chain).cumulative_difficulty + get_difficulty_for_next_block(chain)))

\* handle_block_to_main_chain, of a block with enough work; "difficulty overhead"
MainAccepts(chain, ts) ==
  check_block_timestamp_main(chain, ts) /\ get_difficulty_for_next_block(chain) # 0

AddMain(ts) ==
  /\ Len(m_db_blocks) < MaxHeight
  /\ MainAccepts(m_db_blocks, ts)
  /\ m_db_blocks' = Extended(m_db_blocks, ts)
  /\ UNCHANGED <<now, split, alt_chain>>

\* What a switch connects of the branch: its blocks up to the first that fails.
Connect(c, ts) ==
  IF c.ok /\ MainAccepts(c.chain, ts)
  THEN [chain |-> Extended(c.chain, ts), ok |-> TRUE]
  ELSE [chain |-> c.chain, ok |-> FALSE]

Connected(base, alt) ==
  LET connected[n \in 0..Len(alt)] ==
        IF n = 0 THEN [chain |-> base, ok |-> TRUE] ELSE Connect(connected[n - 1], alt[n].timestamp)
  IN  connected[Len(alt)]

\* What handle_alternative_block asks of a block on top of alt, and makes of it.
AltAccepts(chain, h, alt, ts) ==
  /\ check_block_timestamp(AltTimestamps(chain, h, alt), ts)
  /\ get_next_difficulty_for_alternative_chain(chain, h, alt) # 0

AltBlock(chain, h, alt, ts) ==
  Block(ts, (IF alt = <<>> THEN chain[h] ELSE Last(alt)).cumulative_difficulty
              + get_next_difficulty_for_alternative_chain(chain, h, alt))

\* A switch pushes the blocks it disconnected as alternative ones again.
Push(chain, h, p, ts) ==
  IF p.ok /\ AltAccepts(chain, h, p.alt, ts)
  THEN [alt |-> Append(p.alt, AltBlock(chain, h, p.alt, ts)), ok |-> TRUE]
  ELSE [alt |-> p.alt, ok |-> FALSE]

AsAlternative(chain, h, blocks) ==
  LET pushed[n \in 0..Len(blocks)] ==
        IF n = 0 THEN [alt |-> <<>>, ok |-> TRUE] ELSE Push(chain, h, pushed[n - 1], blocks[n].timestamp)
  IN  pushed[Len(blocks)]

\* handle_alternative_block, and the switch that it makes when the branch has become
\* the heavier one.  A branch with a block that does not connect is dropped from that
\* block on; a switch whose old blocks are refused is rolled back.
AddAlt(h, ts) ==
  /\ IF alt_chain = <<>> THEN h \in 1..(Len(m_db_blocks) - 1) ELSE h = split
  /\ Len(alt_chain) < MaxAlt
  /\ AltAccepts(m_db_blocks, h, alt_chain, ts)
  /\ LET alt == Append(alt_chain, AltBlock(m_db_blocks, h, alt_chain, ts))
         base == SubSeq(m_db_blocks, 1, h)
         old == SubSeq(m_db_blocks, h + 1, Len(m_db_blocks))
         c == Connected(base, alt)
         pushed == AsAlternative(c.chain, h, old)
     IN  IF Last(alt).cumulative_difficulty <= Last(m_db_blocks).cumulative_difficulty
         THEN /\ alt_chain' = alt
              /\ UNCHANGED m_db_blocks
         ELSE IF ~c.ok
         THEN /\ alt_chain' = SubSeq(alt, 1, Len(c.chain) - h)
              /\ UNCHANGED m_db_blocks
         ELSE IF pushed.ok
         THEN /\ m_db_blocks' = c.chain
              /\ alt_chain' = pushed.alt
         ELSE /\ alt_chain' = alt
              /\ UNCHANGED m_db_blocks
  /\ split' = h
  /\ UNCHANGED now

\* The alternative blocks expire (prune_aged_alt_blocks), and with them the branch.
Prune ==
  /\ alt_chain # <<>>
  /\ alt_chain' = <<>>
  /\ UNCHANGED <<now, m_db_blocks, split>>

Next ==
  \/ Tick \/ Prune
  \/ \E ts \in Times : AddMain(ts) \/ \E h \in 1..MaxHeight : AddAlt(h, ts)

Spec == Init /\ [][Next]_vars
-----------------------------------------------------------------------------
\* Every branch that can be looked at: the alternative one, and the main chain's own
\* blocks from any height on, as a switch would push them.
Branches ==
  {[h |-> split, alt |-> alt_chain]} \cup
  {[h |-> h, alt |-> SubSeq(m_db_blocks, h + 1, n)] : h \in 1..(Len(m_db_blocks) - 1), n \in 1..Len(m_db_blocks)}

(***************************************************************************)
(* The difficulty demanded of an alternative block is the one that will be *)
(* demanded of it when its branch is the main chain, wherever the branch   *)
(* leaves and however long it is; so a block with the work to become an    *)
(* alternative one has the work to be connected, and the comparison that   *)
(* starts a switch compares what the switch will find.                     *)
(***************************************************************************)
AltDifficultyRight ==
  \A b \in Branches :
    get_next_difficulty_for_alternative_chain(m_db_blocks, b.h, b.alt)
      = get_difficulty_for_next_block(SubSeq(m_db_blocks, 1, b.h) \o b.alt)

(***************************************************************************)
(* The blocks of the main chain pass as alternative ones, at whatever      *)
(* height a switch disconnects them, as long as they are not more than the *)
(* window, and with the work they had: "Failed to push ex-main chain       *)
(* blocks to alternative chain" is not reached for these two rules.        *)
(***************************************************************************)
OldBlocksReturn ==
  \A h \in 1..(Len(m_db_blocks) - 1) :
    Len(m_db_blocks) - h <= TimestampWindow + 1 =>
      LET old == SubSeq(m_db_blocks, h + 1, Len(m_db_blocks))
      IN  AsAlternative(m_db_blocks, h, old) = [alt |-> old, ok |-> TRUE]

Growing(chain) ==
  \A i \in 2..Len(chain) : chain[i - 1].cumulative_difficulty < chain[i].cumulative_difficulty

(***************************************************************************)
(* Work grows from block to block on the chain and along the branch, so    *)
(* that assert(total_work > 0) holds, and whatever the timestamps are the  *)
(* next block has a difficulty (no "difficulty overhead") until the work   *)
(* of the whole chain comes near to what 128 bits hold.                    *)
(***************************************************************************)
WorkGrows ==
  /\ Last(m_db_blocks).cumulative_difficulty * DifficultyTarget <= max128bit =>
       get_difficulty_for_next_block(m_db_blocks) > 0
  /\ Growing(m_db_blocks)
  /\ Growing(SubSeq(m_db_blocks, 1, split) \o alt_chain)

Hashes == [1..4 -> HashWords]

(***************************************************************************)
(* The test of a hash by words and carries is that hash times difficulty   *)
(* fits in four words, except at the difficulty max64bit, which takes the  *)
(* path for larger ones although hashes with a highest word of 1 would do. *)
(***************************************************************************)
HashTestRight ==
  LET d == get_difficulty_for_next_block(m_db_blocks)
  IN  d # max64bit =>
        \A hash \in Hashes : check_hash(hash, d) <=> HashValue(hash) * d <= max256bit
=============================================================================
