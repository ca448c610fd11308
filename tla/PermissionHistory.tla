-------------------------- MODULE PermissionHistory -------------------------
(***************************************************************************)
(* What the permission ledger promises the rest of the node: the confirmed *)
(* permissions are those after the last connected block; connecting a      *)
(* block adds to the history and changes none of it, disconnecting blocks  *)
(* brings back exactly the permissions, and the numbers of administrators  *)
(* and miners, there were at the block that becomes the last one.          *)
(*                                                                         *)
(* A permission is the range of blocks it is in force in, <<0, 0>> if it   *)
(* was never granted.                                                      *)
(***************************************************************************)
EXTENDS Integers, Sequences, FiniteSets

CONSTANTS Addresses, Types

VARIABLES past,     \* past[b + 1]: the permissions after block b
          now,      \* the confirmed permissions
          admins, miners    \* how many addresses have them for the next block

Permissions == [Addresses \X Types -> Nat \X Nat]

Nothing == [k \in Addresses \X Types |-> <<0, 0>>]

\* the holders of a permission in the block after the first n
Holders(p, type, n) ==
    {a \in Addresses : p[<<a, type>>][1] <= n /\ n < p[<<a, type>>][2]}

Init ==
    /\ past = <<>> /\ now = Nothing
    /\ admins = 0 /\ miners = 0

CountHolders ==
    /\ admins' = Cardinality(Holders(now', "admin", Len(past')))
    /\ miners' = Cardinality(Holders(now', "mine", Len(past')))

\* Any permissions may come out of a block: "permissions" is the new state.
Connect(permissions) ==
    /\ now' = permissions
    /\ past' = Append(past, permissions)
    /\ CountHolders

\* back to the first n blocks
Disconnect(n) ==
    /\ past' = SubSeq(past, 1, n)
    /\ now' = IF n = 0 THEN Nothing ELSE past[n]
    /\ CountHolders

\* now' is given a value by every step, so that Connect needs no quantifier
\* over all the possible permissions.
Next ==
    \/ Connect(now') /\ now' \in Permissions
    \/ \E n \in 0..Len(past) : Disconnect(n)

Spec == Init /\ [][Next]_<<past, now, admins, miners>>
=============================================================================
