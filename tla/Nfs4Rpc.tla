------------------------------ MODULE Nfs4Rpc ------------------------------
(***************************************************************************)
(* The client stubs (src/target/nfs4/prot_clnt.c) and the server           *)
(* (prot_svc.c) of the NFS version 4 target, with the XDR routines they    *)
(* pass to the RPC library.                                                *)
(*                                                                         *)
(* External: the RPC library (clnt_call sends over UDP again until the     *)
(* timeout and knows replies by their transaction; svc_run takes one       *)
(* request after the other), the portmapper, the network, the procedures   *)
(* *_svc and the program that calls the stubs.  What is not the plain case *)
(* is bounded: a scope gives the unusual parts of values (odd), the faults *)
(* and the calls of a behaviour.                                           *)
(***************************************************************************)
EXTENDS Xdr

CONSTANTS
  Scopes,   \* [focus, stubs, attrs, odd, faults, calls] of the behaviours that are tried
  Garbage,  \* words that may replace a word of a request
  MaxRuns   \* bound on the starts of the server

ASSUME RpcAssumption == MaxRuns \in Nat /\ Garbage \subseteq Nat

VARIABLES
  scope,    \* the scope, with what is left of its bounds
  client,   \* pc, stub, id, prot and to of the call, its handle x, what it returned
  server,   \* pc, run, the request served, its args, heap and handle x, why it exited
  pmap,     \* the portmapper's mappings: <<program, protocol, run of the server>>
  net,      \* requests and replies on their way
  passed,   \* what stubs were given: <<id, program, procedure, arguments>>
  answered  \* what procedures answered: <<id, program, procedure, result>>

vars == <<scope, client, server, pmap, net, passed, answered>>

Programs  == {"NFS4_PROGRAM", "NFS4_CALLBACK"}
Protocols == {"udp", "tcp"}

-----------------------------------------------------------------------------
(* The tables of the generated code.                                       *)

Proc(prog, proc, arg, res) == [prog |-> prog, proc |-> proc, arg |-> arg, res |-> res]

\* The procedure a client stub calls, and the routines it passes to clnt_call.
Stub ==
  [nfsproc4_null_4     |-> Proc("NFS4_PROGRAM", 0, "void", "void"),
   nfsproc4_compound_4 |-> Proc("NFS4_PROGRAM", 1, "COMPOUND4args", "COMPOUND4res"),
   cb_null_1           |-> Proc("NFS4_CALLBACK", 0, "void", "void"),
   cb_compound_1       |-> Proc("NFS4_CALLBACK", 1, "CB_COMPOUND4args", "CB_COMPOUND4res")]

\* The switch of nfs4_program_4 on rq_proc.
nfs4_program_4 ==
  Join(<<Entry(0, Proc("NFS4_PROGRAM", 0, "void", "void")),
         Entry(1, Proc("NFS4_PROGRAM", 1, "COMPOUND4args", "COMPOUND4res"))>>)

\* Mutant: the arguments of CB_COMPOUND are not decoded.
nfs4_callback_1_NoArgs ==
  Join(<<Entry(0, Proc("NFS4_CALLBACK", 0, "void", "void")),
         Entry(1, Proc("NFS4_CALLBACK", 1, "void", "CB_COMPOUND4res"))>>)

\* The switch of nfs4_callback_1 on rq_proc.
nfs4_callback_1 ==
  Join(<<Entry(0, Proc("NFS4_CALLBACK", 0, "void", "void")),
         Entry(1, Proc("NFS4_CALLBACK", 1, "CB_COMPOUND4args", "CB_COMPOUND4res"))>>)

Dispatch == [NFS4_PROGRAM |-> nfs4_program_4, NFS4_CALLBACK |-> nfs4_callback_1]

ASSUME ScopeAssumption ==
  Scopes \subseteq [focus : Nat, stubs : SUBSET DOMAIN Stub, attrs : SUBSET DOMAIN Attributes,
                    odd : Nat, faults : Nat, calls : Nat, tampered : {FALSE}]

-----------------------------------------------------------------------------
(* Messages.  stat is "call", "success" or the svcerr that answers; to is  *)
(* the run of the server that has the port; garbled marks a request that   *)
(* is not as a stub has sent it.                                           *)

Message(stat, id, prot, to, prog, proc, wire) ==
  [stat |-> stat, id |-> id, prot |-> prot, to |-> to, prog |-> prog, proc |-> proc,
   wire |-> wire, garbled |-> FALSE]

Reply(m, stat, wire) == [m EXCEPT !.stat = stat, !.wire = wire, !.garbled = FALSE]

NoRequest == Message("none", 0, "udp", 0, "NFS4_PROGRAM", 0, <<>>)

\* One of the faults of the scope happens.
Fault == scope.faults > 0 /\ scope' = [scope EXCEPT !.faults = @ - 1]

-----------------------------------------------------------------------------
(* The server: main.                                                       *)

Goto(l) == server' = [server EXCEPT !.pc = l]

Exit(why) ==
  server' = [server EXCEPT !.pc = "exited", !.why = why, !.req = NoRequest, !.args = <<>>,
                           !.heap = {}, !.x = Unused, !.lost = FALSE]

Start ==
  /\ server.pc = "exited" /\ server.run < MaxRuns
  /\ server' = [server EXCEPT !.pc = "unset", !.run = @ + 1, !.why = "", !.stale = FALSE]
  /\ UNCHANGED <<scope, client, pmap, net, passed, answered>>

\* Mutant: the callback program is not unmapped.
pmap_unset_Once ==
  /\ server.pc = "unset"
  /\ Goto("udp") /\ pmap' = {m \in pmap : m[1] = "NFS4_CALLBACK"}
  /\ UNCHANGED <<scope, client, net, passed, answered>>

\* Both programs are unmapped; whether that worked is not looked at.
pmap_unset ==
  /\ server.pc = "unset"
  /\ \/ Goto("udp") /\ pmap' = {} /\ UNCHANGED scope
     \/ /\ Fault /\ \E kept \in SUBSET Programs : pmap' = {m \in pmap : m[1] \in kept}
        /\ server' = [server EXCEPT !.pc = "udp", !.stale = TRUE]
  /\ UNCHANGED <<client, net, passed, answered>>

\* svcudp_create and svctcp_create.
Create(prot, next) ==
  /\ server.pc = prot
  /\ \/ Goto(next) /\ UNCHANGED scope
     \/ Fault /\ Exit("socket")
  /\ UNCHANGED <<client, pmap, net, passed, answered>>

Mapped(prog, prot) == \E m \in pmap : m[1] = prog /\ m[2] = prot

\* svc_register: the portmapper refuses a second mapping, and may not answer.
svc_register(at, prog, prot, next) ==
  /\ server.pc = at
  /\ \/ /\ ~Mapped(prog, prot) /\ pmap' = pmap \cup {<<prog, prot, server.run>>}
        /\ Goto(next) /\ UNCHANGED scope
     \/ Mapped(prog, prot) /\ Exit("mapped") /\ UNCHANGED <<scope, pmap>>
     \/ Fault /\ Exit("portmapper") /\ UNCHANGED pmap
  /\ UNCHANGED <<client, net, passed, answered>>

main ==
  \/ pmap_unset
  \/ Create("udp", "program udp")
  \/ svc_register("program udp", "NFS4_PROGRAM", "udp", "callback udp")
  \/ svc_register("callback udp", "NFS4_CALLBACK", "udp", "tcp")
  \/ Create("tcp", "program tcp")
  \/ svc_register("program tcp", "NFS4_PROGRAM", "tcp", "callback tcp")
  \/ svc_register("callback tcp", "NFS4_CALLBACK", "tcp", "svc_run")

\* The process is killed, or svc_run returns: nothing is unmapped.
Die ==
  /\ server.pc # "exited" /\ Fault /\ Exit("died")
  /\ UNCHANGED <<client, pmap, net, passed, answered>>

-----------------------------------------------------------------------------
(* The server: a request in nfs4_program_4 or nfs4_callback_1.             *)

Arrived(m) == server.pc = "svc_run" /\ m.stat = "call" /\ m.to = server.run

svcerr_noproc(m) ==
  /\ Arrived(m) /\ m.proc \notin DOMAIN Dispatch[m.prog]
  /\ net' = (net \ {m}) \cup {Reply(m, "noproc", <<>>)}
  /\ UNCHANGED <<scope, client, server, pmap, passed, answered>>

\* The argument is cleared and decoded.  After a failure it is not freed here,
\* and whether the library has freed it depends on the library.
svc_getargs(m) ==
  /\ Arrived(m) /\ m.proc \in DOMAIN Dispatch[m.prog]
  /\ \E x \in {decode(Dispatch[m.prog][m.proc].arg, m.wire)} :
       /\ Ended(x)
       /\ \/ /\ x.ok /\ net' = net \ {m}
             /\ server' = [server EXCEPT !.pc = "local", !.req = m, !.args = x.mem,
                                         !.heap = x.heap]
          \/ /\ ~x.ok /\ net' = (net \ {m}) \cup {Reply(m, "decode", <<>>)}
             /\ \E freed \in BOOLEAN :
                  server' = [server EXCEPT !.lost = @ \/ (~freed /\ x.heap # {})]
  /\ UNCHANGED <<scope, client, pmap, passed, answered>>

Served == Dispatch[server.req.prog][server.req.proc]

\* The procedure answers with a result, of which the encoding begins, or NULL.
Local ==
  /\ server.pc = "local"
  /\ \/ server' = [server EXCEPT !.pc = "reply", !.x = encode(Served.res)] /\ UNCHANGED scope
     \/ Fault /\ Goto("free")
  /\ UNCHANGED <<client, pmap, net, passed, answered>>

EncodeReply ==
  /\ server.pc = "reply" /\ Asks(server.x)
  /\ \E e \in Encodings(server.x, scope.odd, scope.focus) :
       server' = [server EXCEPT !.x = e[1]] /\ scope' = [scope EXCEPT !.odd = e[2]]
  /\ UNCHANGED <<client, pmap, net, passed, answered>>

\* Mutant: the reply is the last thing that is done for a request.
svc_sendreply_Returns ==
  LET x == server.x
      m == server.req
  IN  /\ server.pc = "reply" /\ Ended(x) /\ Goto("svc_run")
      /\ net' = net \cup {Reply(m, IF x.ok THEN "success" ELSE "systemerr", x.wire)}
      /\ answered' = answered \cup {<<m.id, Served.prog, Served.proc, x.mem>>}
      /\ UNCHANGED <<scope, client, pmap, passed>>

\* A result that cannot be encoded or sent is answered by svcerr_systemerr.
svc_sendreply ==
  LET x == server.x
      m == server.req
  IN  /\ server.pc = "reply" /\ Ended(x) /\ Goto("free")
      /\ \/ /\ x.ok /\ net' = net \cup {Reply(m, "success", x.wire)}
            /\ answered' = answered \cup {<<m.id, Served.prog, Served.proc, x.mem>>}
            /\ UNCHANGED scope
         \/ /\ (~x.ok /\ UNCHANGED scope) \/ (x.ok /\ Fault)
            /\ net' = net \cup {Reply(m, "systemerr", <<>>)} /\ UNCHANGED answered
      /\ UNCHANGED <<client, pmap, passed>>

\* Mutant: the arguments are freed with the routine of the result.
svc_freeargs_Result ==
  /\ server.pc = "free"
  /\ \E x \in {free(Served.res, server.args, server.heap)} :
         IF x.ok
         THEN server' = [server EXCEPT !.pc = "svc_run", !.req = NoRequest, !.args = <<>>,
                                       !.heap = x.heap, !.x = Unused]
         ELSE Exit("freeargs")
  /\ UNCHANGED <<scope, client, pmap, net, passed, answered>>

svc_freeargs ==
  /\ server.pc = "free"
  /\ \E x \in {free(Served.arg, server.args, server.heap)} :
         IF x.ok
         THEN server' = [server EXCEPT !.pc = "svc_run", !.req = NoRequest, !.args = <<>>,
                                       !.heap = x.heap, !.x = Unused]
         ELSE Exit("freeargs")
  /\ UNCHANGED <<scope, client, pmap, net, passed, answered>>

serve ==
  \/ \E m \in net : svcerr_noproc(m) \/ svc_getargs(m)
  \/ Local \/ EncodeReply \/ svc_sendreply \/ svc_freeargs

-----------------------------------------------------------------------------
(* The client: one of the four stubs is called at a time.                  *)

Idle(c) == [c EXCEPT !.pc = "idle", !.x = Unused]

\* The static result is cleared and clnt_call begins to encode the argument.
Call(s, prot) ==
  /\ client.pc = "idle" /\ scope.calls > 0
  /\ \E m \in pmap :
       /\ m[1] = Stub[s].prog /\ m[2] = prot
       /\ client' = [client EXCEPT !.pc = "encode", !.stub = s, !.id = @ + 1, !.prot = prot,
                                   !.to = m[3], !.x = encode(Stub[s].arg), !.ret = FALSE,
                                   !.sound = TRUE, !.res[s] = <<>>]
  /\ scope' = [scope EXCEPT !.calls = @ - 1]
  /\ UNCHANGED <<server, pmap, net, passed, answered>>

EncodeArg ==
  /\ client.pc \in {"encode", "pack"} /\ Asks(client.x)
  /\ \E e \in Encodings(client.x, scope.odd, scope.focus) :
       client' = [client EXCEPT !.x = e[1]] /\ scope' = [scope EXCEPT !.odd = e[2]]
  /\ UNCHANGED <<server, pmap, net, passed, answered>>

Request ==
  LET s == Stub[client.stub]
  IN  Message("call", client.id, client.prot, client.to, s.prog, s.proc, client.x.wire)

\* The request is sent, or the argument cannot be encoded.
Send ==
  /\ client.pc = "encode" /\ Ended(client.x)
  /\ IF client.x.ok
     THEN /\ client' = [client EXCEPT !.pc = "wait"] /\ net' = net \cup {Request}
          /\ passed' = passed \cup {<<client.id, Request.prog, Request.proc, client.x.mem>>}
     ELSE client' = Idle(client) /\ UNCHANGED <<net, passed>>
  /\ UNCHANGED <<scope, server, pmap, answered>>

Retransmit ==
  /\ client.pc = "wait" /\ client.prot = "udp" /\ Request \notin net /\ Fault
  /\ net' = net \cup {Request}
  /\ UNCHANGED <<client, server, pmap, passed, answered>>

\* Mutant: the static is returned whatever clnt_call returns.
Returned_Always(success) == TRUE

\* A stub returns its static, or NULL unless clnt_call returns RPC_SUCCESS.
Returned(success) == success

\* The reply to this call: a result is decoded into the static.
Receive(m) ==
  /\ client.pc = "wait" /\ m.stat # "call" /\ m.id = client.id /\ net' = net \ {m}
  /\ \/ /\ m.stat = "success"
        /\ \E y \in {decode(Stub[client.stub].res, m.wire)} :
             /\ Ended(y)
             /\ client' = [Idle(client) EXCEPT !.res[client.stub] = y.mem,
                                               !.ret = Returned(y.ok), !.sound = ~m.garbled]
     \/ m.stat # "success" /\ client' = [Idle(client) EXCEPT !.ret = Returned(FALSE)]
  /\ UNCHANGED <<scope, server, pmap, passed, answered>>

\* A reply that nobody waits for any more is thrown away.
Ignore(m) ==
  /\ m.stat # "call" /\ (m.id # client.id \/ client.pc = "idle") /\ net' = net \ {m}
  /\ UNCHANGED <<scope, client, server, pmap, passed, answered>>

\* Something can still come of the call.
UnderWay ==
  \/ \E m \in net :
       m.id = client.id /\ (m.stat = "call" => m.to = server.run /\ server.pc # "exited")
  \/ server.req.id = client.id

\* TIMEOUT has passed, which is a fault only when an answer was to come.
Timeout ==
  /\ client.pc = "wait" /\ client' = [Idle(client) EXCEPT !.ret = Returned(FALSE)]
  /\ (~UnderWay /\ UNCHANGED scope) \/ (UnderWay /\ Fault)
  /\ UNCHANGED <<server, pmap, net, passed, answered>>

\* The program packs the value of an attribute into an attrlist4 ...
Pack(t) ==
  /\ client.pc = "idle" /\ scope.calls > 0 /\ scope' = [scope EXCEPT !.calls = @ - 1]
  /\ client' = [client EXCEPT !.pc = "pack", !.attr = t, !.x = encode(t)]
  /\ UNCHANGED <<server, pmap, net, passed, answered>>

\* ... and unpacks and frees it.
Unpack ==
  /\ client.pc = "pack" /\ Ended(client.x)
  /\ \E y \in {decode(client.attr, client.x.wire)} :
       LET z == free(client.attr, y.mem, y.heap)
       IN  Ended(y) /\ client' = [Idle(client) EXCEPT
                        !.intact = client.x.ok => y.ok /\ y.mem = client.x.mem,
                        !.freed  = y.ok => z.ok /\ z.heap = {}]
  /\ UNCHANGED <<scope, server, pmap, net, passed, answered>>

program ==
  \/ \E s \in scope.stubs, prot \in Protocols : Call(s, prot)
  \/ \E t \in scope.attrs : Pack(t)

clnt == EncodeArg \/ Send \/ Timeout \/ Unpack \/ \E m \in net : Receive(m)

-----------------------------------------------------------------------------
(* The network, and peers that do not use these stubs.                     *)

Lose(m) ==
  /\ m.prot = "udp" /\ Fault /\ net' = net \ {m}
  /\ UNCHANGED <<client, server, pmap, passed, answered>>

Tampered == scope.faults > 0 /\ scope' = [scope EXCEPT !.faults = @ - 1, !.tampered = TRUE]

\* A word of a message is another one, or the end of it is missing.
Garble(m) ==
  /\ ~m.garbled /\ Tampered
  /\ \E i \in DOMAIN m.wire :
       \/ \E w \in Garbage \ {m.wire[i]} :
            net' = (net \ {m}) \cup {[m EXCEPT !.wire[i] = w, !.garbled = TRUE]}
       \/ net' = (net \ {m}) \cup {[m EXCEPT !.wire = SubSeq(@, 1, i - 1), !.garbled = TRUE]}
  /\ UNCHANGED <<client, server, pmap, passed, answered>>

\* A request for a procedure that there is not.
Stray ==
  /\ server.pc # "exited" /\ Tampered
  /\ \E p \in Programs :
       net' = net \cup {[Message("call", 0, "udp", server.run, p, 2, <<>>) EXCEPT !.garbled = TRUE]}
  /\ UNCHANGED <<client, server, pmap, passed, answered>>

Network == Stray \/ \E m \in net : Lose(m) \/ Garble(m)

Init ==
  /\ scope \in Scopes
  /\ client = [pc |-> "idle", stub |-> "", id |-> 0, prot |-> "udp", to |-> 0,
               x |-> Unused, ret |-> FALSE, sound |-> TRUE,
               res |-> [s \in DOMAIN Stub |-> <<>>], attr |-> "void", intact |-> TRUE,
               freed |-> TRUE]
  /\ server = [pc |-> "exited", run |-> 0, why |-> "", stale |-> FALSE, req |-> NoRequest,
               args |-> <<>>, heap |-> {}, x |-> Unused, lost |-> FALSE]
  /\ pmap = {} /\ net = {} /\ passed = {} /\ answered = {}

Next ==
  \/ Start \/ main \/ Die \/ serve
  \/ program \/ clnt \/ Retransmit \/ \E m \in net : Ignore(m)
  \/ Network

Spec == Init /\ [][Next]_vars

-----------------------------------------------------------------------------
(* Properties.                                                             *)

\* What a procedure of the server is given is what some stub was given, for
\* the same call of the same procedure, whatever was sent again or came late;
\* and an attribute that could be packed is unpacked as it was.
\* (prot_clnt.c:33-36, prot_svc.c:46-51, prot_xdr.c)
ArgumentsArrive ==
  /\ server.pc = "local" /\ ~server.req.garbled =>
       <<server.req.id, Served.prog, Served.proc, server.args>> \in passed
  /\ client.intact

\* A stub that returns its static result, and not NULL, returns the result of
\* the procedure for this very call: never the cleared or half decoded one,
\* nor that of an earlier call.  (prot_clnt.c:32-39)
ResultIsAnswer ==
  client.ret /\ client.sound =>
    <<client.id, Stub[client.stub].prog, Stub[client.stub].proc, client.res[client.stub]>>
      \in answered

\* Between requests nothing that decoding arguments has allocated is left.
\* Only the arguments that could not be decoded may be lost, which takes a
\* request that no stub has sent.  Unpacked attributes can be freed as well.
\* (prot_svc.c:46-58)
ArgsFreed ==
  /\ server.pc = "svc_run" => server.heap = {} /\ (server.lost => scope.tampered)
  /\ client.freed

\* The server never exits because arguments cannot be freed, not even those
\* of a request that no stub has sent.  (prot_svc.c:55-58, 98-101)
NeverDiesServing == server.why # "freeargs"

\* A server that was killed can be started again: the mappings it has left
\* do not make svc_register fail, unless unmapping them failed.
\* (prot_svc.c:110-111, 118-139)
StartsAgain == server.why = "mapped" => server.stale

\* The lengths that the protocol limits.
Limits == [nfs_fh4 |-> NFS4_FHSIZE, owner |-> NFS4_OPAQUE_LIMIT, id |-> NFS4_OPAQUE_LIMIT]

\* Where the walk y has come to a length or pointer, it is within its limit,
\* and the memory for what follows it is there, of a string at least its NUL.
Usable(y, heap) ==
  Asks(y) =>
    /\ Head(y.todo)[1] \in DOMAIN Limits => Stored(y) <= Limits[Head(y.todo)[1]]
    /\ Top(y).kind # "switch" /\ (Stored(y) > 0 \/ Top(y).kind = "string") => y.at \in heap

\* Whoever has sent a request, its procedure can walk the arguments through
\* all operations of the compound: no file handle, owner or client id is above
\* its limit, and wherever bytes, elements or the next of a list are to be
\* looked at, svc_getargs has allocated them.
\* (prot_svc.c:46-51, prot_xdr.c:114, 1037, 1049, 1061)
ArgumentsUsable ==
  server.pc = "local" =>
    LET p == Path(Open("FREE", Served.arg, server.args, <<>>, server.heap))
    IN  \A k \in DOMAIN p : Usable(p[k], server.heap)
=============================================================================
