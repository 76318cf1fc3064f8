----------------------------- MODULE Nfs4RpcMC -----------------------------
(***************************************************************************)
(* Instances of Nfs4Rpc: for every operation, and for every attribute, the *)
(* values with up to two unusual parts; and for a few values the faults of *)
(* the network, of the server and of the portmapper.                       *)
(***************************************************************************)
EXTENDS Nfs4Rpc

Scope(focus, stubs, attrs, odd, faults, calls) ==
  [focus |-> focus, stubs |-> stubs, attrs |-> attrs, odd |-> odd, faults |-> faults,
   calls |-> calls, tampered |-> FALSE]

\* Values as the stubs send them; requests that differ from these in a word or
\* end too early; and two calls with everything that can go wrong between them.
MCScopes ==
  {Scope(o, {"nfsproc4_compound_4"}, {}, 2, 0, 1) : o \in DOMAIN nfs_argop4.arms} \cup
  {Scope(o, {"cb_compound_1"}, {}, 2, 1, 1) : o \in {OP_CB_GETATTR, OP_CB_RECALL, OP_ILLEGAL}} \cup
  {Scope(OP_ILLEGAL, {}, {t}, 2, 0, 1) : t \in DOMAIN Attributes} \cup
  {Scope(o, {"nfsproc4_compound_4"}, {}, 0, 1, 1) : o \in DOMAIN nfs_argop4.arms} \cup
  {Scope(o, {"nfsproc4_compound_4"}, {}, 1, 1, 1) : o \in {OP_LOCK, OP_PUTFH}} \cup
  {Scope(OP_CB_RECALL, {"nfsproc4_null_4", "cb_compound_1"}, {}, 0, 2, 2),
   Scope(OP_PUTFH, {"nfsproc4_compound_4", "cb_null_1"}, {}, 0, 1, 2)}
=============================================================================
