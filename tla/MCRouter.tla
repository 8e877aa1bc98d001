------------------------------ MODULE MCRouter ------------------------------
(***************************************************************************)
(* Small instances of the packet handler: two addresses with every packet  *)
(* about them, and one source that takes turns over three edges.           *)
(***************************************************************************)
EXTENDS RouterFabric, RouterContract

\* Both addresses claimed by anyone, linked and used; the policy of 1 changes.
AnyInput ==
    ClaimPacket \cup DataPacket \cup OtherPacket
    \cup {p \in ConnectPacket : p.source = 1 \/ p.target = 1}
    \cup {p \in PolicyPacket : p.target = 1 /\ p.policy # "roundrobin"}

\* Both claimed and used, source 1 linked and switched between all policies.
OrderInput ==
    ClaimPacket \cup DataPacket
    \cup {p \in ConnectPacket : p.source = 1}
    \cup {p \in PolicyPacket : p.target = 1}

=============================================================================
