------------------------------- MODULE Aliases -------------------------------
(***************************************************************************)
(* The aliases of the block chain: a block's miner transaction may         *)
(* register a name for an address, or give a registered name to another    *)
(* address, signed with the key of the address that has it.                *)
(*                                                                         *)
(* The two tables are one record:                                          *)
(*   aliases        m_db_aliases, for each name the addresses that have    *)
(*                  had it, the present one last; a name without an entry  *)
(*                  and one with an empty list are alike to every reader   *)
(*                  but get_aliases_count                                  *)
(*   addr_to_alias  m_db_addr_to_alias, for each address its names; an     *)
(*                  entry is erased with its last name, so no entry is {}  *)
(* Of an alias_info, m_sign is the address whose key made it, NullSig for  *)
(* a registration.                                                         *)
(***************************************************************************)
EXTENDS Integers, Sequences

CONSTANTS Names, Addresses, NullSig

ASSUME NullSigAssumption == NullSig \notin Addresses

AliasInfo == [m_alias : Names, m_address : Addresses, m_sign : Addresses \cup {NullSig}]

AliasTables == [aliases : [Names -> Seq(Addresses)], addr_to_alias : [Addresses -> SUBSET Names]]

NoAliases == [aliases |-> [n \in Names |-> <<>>], addr_to_alias |-> [x \in Addresses |-> {}]]

Owner(history) == history[Len(history)]

\* whether put_alias_info accepts it
PutAllowed(a, ai) ==
  LET history == a.aliases[ai.m_alias]
  IN  IF ai.m_sign = NullSig THEN history = <<>> ELSE history # <<>> /\ Owner(history) = ai.m_sign

Gone(names, x, n)  == [names EXCEPT ![x] = @ \ {n}]
Given(names, x, n) == [names EXCEPT ![x] = @ \cup {n}]

put_alias_info(a, ai) ==
  LET history == a.aliases[ai.m_alias]
      freed == IF history = <<>> THEN a.addr_to_alias ELSE Gone(a.addr_to_alias, Owner(history), ai.m_alias)
  IN  [aliases |-> [a.aliases EXCEPT ![ai.m_alias] = Append(@, ai.m_address)],
       addr_to_alias |-> Given(freed, ai.m_address, ai.m_alias)]

\* whether pop_alias_info succeeds
PopAllowed(a, ai) ==
  LET history == a.aliases[ai.m_alias]
  IN  /\ history # <<>>
      /\ a.addr_to_alias[Owner(history)] = {} \/ ai.m_alias \in a.addr_to_alias[Owner(history)]

NameNotReturned(a, ai) ==
  LET history == a.aliases[ai.m_alias]
  IN  [aliases |-> [a.aliases EXCEPT ![ai.m_alias] = SubSeq(history, 1, Len(history) - 1)],
       addr_to_alias |-> Gone(a.addr_to_alias, Owner(history), ai.m_alias)]

pop_alias_info(a, ai) ==
  LET history == a.aliases[ai.m_alias]
      before == SubSeq(history, 1, Len(history) - 1)
      freed == Gone(a.addr_to_alias, Owner(history), ai.m_alias)
  IN  [aliases |-> [a.aliases EXCEPT ![ai.m_alias] = before],
       addr_to_alias |-> IF before = <<>> THEN freed ELSE Given(freed, Owner(before), ai.m_alias)]

(***************************************************************************)
(* A name belongs to the last address of its history and to no other.      *)
(***************************************************************************)
Agree(a) ==
  \A n \in Names, x \in Addresses :
    n \in a.addr_to_alias[x] <=> a.aliases[n] # <<>> /\ Owner(a.aliases[n]) = x
=============================================================================
