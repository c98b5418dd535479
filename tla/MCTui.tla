------------------------------- MODULE MCTui -------------------------------
(***************************************************************************)
(* Values of Tui's constants for TLC.                                      *)
(***************************************************************************)
EXTENDS Tui

CONSTANTS hn, zz, cidr, cidr2, t1, route, here

MCProvinceOf == [c \in {zz} |-> hn]

\* A store in use, with one row in most lists.
Used ==
  [Empty EXCEPT
     !.openPorts = {22}, !.openPortRanges = {<<22, 22>>}, !.skipPorts = {22},
     !.cidrs = {cidr}, !.relays = {cidr},
     !.policies = [Empty.policies EXCEPT ![22] =
                     [mode |-> "provinces", provinces |-> {}, cities |-> {zz}]],
     !.routes = [l \in Label |-> t1]]

MCLived == {Used}

\* One with two rows in the lists of addresses.
MCLists == {[Used EXCEPT !.cidrs = Address]}
=============================================================================
