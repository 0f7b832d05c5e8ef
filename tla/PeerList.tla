------------------------------ MODULE PeerList ------------------------------
(***************************************************************************)
(* nodetool::peerlist_manager: the white list (peers this node has reached *)
(* itself) and the gray list (peers it was told of).  Every operation      *)
(* holds m_peerlist_lock, so each is an operator from lists to lists.      *)
(*                                                                         *)
(* A list is its by_time index: a sequence of entries from the one seen    *)
(* longest ago to the one seen last.  Only the order of the times is kept; *)
(* the by_addr index makes the addresses unique.  An entry on its way into *)
(* a list says how many entries of that list were seen after it: none if   *)
(* last_seen is the present.                                               *)
(***************************************************************************)
EXTENDS Subsequence, SequencesExt

CONSTANTS
  WhiteLimit,   \* P2P_LOCAL_WHITE_PEERLIST_LIMIT
  GrayLimit,    \* P2P_LOCAL_GRAY_PEERLIST_LIMIT
  LocalAddrs    \* addresses that is_ip_allowed refuses

ASSUME LimitAssumption == WhiteLimit \in Nat \ {0} /\ GrayLimit \in Nat \ {0}

Entry(adr, id, younger) == [adr |-> adr, id |-> id, younger |-> younger]

is_ip_allowed(adr) == adr \notin LocalAddrs

AddrsOf(list)  == {list[i].adr : i \in DOMAIN list}
Without(list, adr) == OnlyIn(list, {e \in Range(list) : e.adr # adr})

(* insert, and replace, which moves the entry to where its new time puts it. *)
InsertByTime(list, e) ==
  LET rest == Without(list, e.adr)
      i == IF e.younger <= Len(rest) THEN Len(rest) - e.younger ELSE 0
  IN  InsertAt(rest, i + 1, [adr |-> e.adr, id |-> e.id])

(* Erase from the old end until the limit holds.                           *)
Youngest(list, n) == IF Len(list) <= n THEN list ELSE SubSeq(list, Len(list) - n + 1, Len(list))

(***************************************************************************)
(* The bodies of the two functions are swapped in the source: the one      *)
(* named white erases from the gray list and the other way round.          *)
(***************************************************************************)
trim_white_peerlist(p) == [p EXCEPT !.gray = Youngest(@, GrayLimit)]
trim_gray_peerlist(p)  == [p EXCEPT !.white = Youngest(@, WhiteLimit)]

WhiteKeepsGray(p, e) ==
  IF ~is_ip_allowed(e.adr) THEN p
  ELSE trim_white_peerlist([p EXCEPT !.white = InsertByTime(@, e)])

append_with_peer_white(p, e) ==
  IF ~is_ip_allowed(e.adr) THEN p
  ELSE LET put == IF e.adr \in AddrsOf(p.white)
                  THEN [p EXCEPT !.white = InsertByTime(@, e)]
                  ELSE trim_white_peerlist([p EXCEPT !.white = InsertByTime(@, e)])
       IN  [put EXCEPT !.gray = Without(@, e.adr)]

append_with_peer_gray(p, e) ==
  IF ~is_ip_allowed(e.adr) \/ e.adr \in AddrsOf(p.white) THEN p
  ELSE IF e.adr \in AddrsOf(p.gray) THEN [p EXCEPT !.gray = InsertByTime(@, e)]
  ELSE trim_gray_peerlist([p EXCEPT !.gray = InsertByTime(@, e)])

merge_peerlist(p, outer_bs) ==
  LET merged[n \in 0..Len(outer_bs)] ==
        IF n = 0 THEN p ELSE append_with_peer_gray(merged[n - 1], outer_bs[n])
  IN  trim_gray_peerlist(merged[Len(outer_bs)])

(* get_white_peer_by_index: the youngest has index 0.                      *)
PeerByIndex(list, i) == list[Len(list) - i]
=============================================================================
